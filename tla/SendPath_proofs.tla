---------------------------- MODULE SendPath_proofs ----------------------------
(***************************************************************************)
(* Theorems about module SendPath, for every number of buffers and every   *)
(* number of calls of Send.                                                *)
(*                                                                         *)
(* Type correctness and NoLostWakeup hold for any set of senders.          *)
(* ExclusiveSlot and what follows from it hold when Send is called by one  *)
(* thread only, which is the hypothesis OneSender: the scan of EventBuf    *)
(* reads a flag in one step and writes it in another.                      *)
(***************************************************************************)
EXTENDS SendPath, SequenceTheorems, FiniteSetTheorems, TLAPS

USE DEF CMutex, Lock, UnLock

OneSender == \A t, u \in Senders : t = u

-----------------------------------------------------------------------------
(* The event queue stays a sequence of slots under its two operations. *)
LEMMA QueueHeadTail ==
  ASSUME eventQueue \in Seq(Slots), eventQueue # <<>>
  PROVE  /\ Head(eventQueue) \in Slots
         /\ Head(eventQueue) = eventQueue[1]
         /\ Tail(eventQueue) \in Seq(Slots)
         /\ Len(eventQueue) \in Nat \ {0}
         /\ Len(Tail(eventQueue)) = Len(eventQueue) - 1
         /\ \A i \in 1 .. Len(Tail(eventQueue)) : Tail(eventQueue)[i] = eventQueue[i + 1]
  BY HeadTailProperties, EmptySeq, LenProperties

(* The loop's critical section: while it works on an event, it has one. *)
LoopHasEvent == loop \in {"release", "pop"} => eventQueue # <<>>

(* A slot is read or written only inside the pool. *)
SlotInPool == \A t \in Senders : pc[t] \in {"claim", "fill", "push"} => slot[t] \in Slots

(* The loop's thread is inside Send only while it handles no event. *)
CallbackAtPoll == Loop \in Senders /\ pc[Loop] # "idle" => loop = "poll"

(* The mutex is held exactly by the thread that is in its critical section; *)
(* the loop's thread has two of them.                                       *)
MutexInv ==
  /\ mutex = Loop <=> \/ loop \in {"drain", "release", "pop"}
                      \/ Loop \in Senders /\ pc[Loop] = "wake"
  /\ \A t \in Senders \ {Loop} : mutex = t <=> pc[t] = "wake"

BaseInv == TypeOK /\ LoopHasEvent /\ SlotInPool /\ CallbackAtPoll /\ MutexInv

LEMMA BaseInit == Init => BaseInv
  <1> SUFFICES ASSUME Init PROVE BaseInv
    OBVIOUS
  <1> USE SendPathAssumption DEF Init
  <1>1. TypeOK
    <2>1. /\ eventQueue \in Seq(Slots)
          /\ handed \in Seq(Message \cup {NoMsg})
          /\ unsent \in Seq(Message \cup {NoMsg}) /\ Len(unsent) = 0
      BY EmptySeq
    <2>2. /\ isAvailable \in [Slots -> BOOLEAN]
          /\ buff \in [Slots -> Message \cup {NoMsg}]
      OBVIOUS
    <2>3. /\ pc \in [Senders -> SenderPC]
          /\ slot \in [Senders -> 1 .. NumSlots + 1]
          /\ msg \in [Senders -> Message \cup {NoMsg}]
          /\ sawFull \in [Senders -> BOOLEAN]
      BY DEF SenderPC
    <2>4. /\ mutex \in CMutex
          /\ loop \in LoopPC
          /\ inflight = 0
          /\ sendBuf \in Message \cup {NoMsg}
          /\ sends \in 0 .. MaxSends
      BY DEF LoopPC
    <2>5. wakeup \in BOOLEAN /\ lost \subseteq Slots
      OBVIOUS
    <2>. QED  BY <2>1, <2>2, <2>3, <2>4, <2>5 DEF TypeOK
  <1>2. LoopHasEvent /\ SlotInPool /\ CallbackAtPoll /\ MutexInv
    BY DEF LoopHasEvent, SlotInPool, CallbackAtPoll, MutexInv
  <1>. QED  BY <1>1, <1>2 DEF BaseInv

LEMMA BaseStep == BaseInv /\ [Next]_vars => BaseInv'
  <1> SUFFICES ASSUME BaseInv, [Next]_vars PROVE BaseInv'
    OBVIOUS
  <1> USE SendPathAssumption
          DEF BaseInv, TypeOK, LoopHasEvent, SlotInPool, CallbackAtPoll, MutexInv, Slots, Message, NoMsg,
              SenderPC, LoopPC, poolVars, queueVars, senderVars, sendVars, loopVars, Goto, LoopGoto,
              MayCall, CallbackReturned
  <1>1. ASSUME NEW t \in Senders, SendCall(t) PROVE BaseInv'
    BY <1>1 DEF SendCall
  <1>2. ASSUME NEW t \in Senders, EventBufSkip(t) PROVE BaseInv'
    BY <1>2 DEF EventBufSkip
  <1>3. ASSUME NEW t \in Senders, EventBufFound(t) PROVE BaseInv'
    BY <1>3 DEF EventBufFound
  <1>4. ASSUME NEW t \in Senders, EventBufNone(t) PROVE BaseInv'
    BY <1>4 DEF EventBufNone
  <1>5. ASSUME NEW t \in Senders, EventBufClaim(t) PROVE BaseInv'
    BY <1>5 DEF EventBufClaim
  <1>6. ASSUME NEW t \in Senders, EventBufFill(t) PROVE BaseInv'
    BY <1>6 DEF EventBufFill
  <1>7. ASSUME NEW t \in Senders, PushEvent(t) PROVE BaseInv'
    <2>1. slot[t] \in Slots
      BY <1>7 DEF PushEvent
    <2>2. /\ Append(eventQueue, slot[t]) \in Seq(Slots)
          /\ Append(eventQueue, slot[t]) # <<>>
      <3>1. eventQueue \in Seq(Slots)
        OBVIOUS
      <3> HIDE DEF Slots, BaseInv
      <3>. QED  BY <2>1, <3>1, AppendProperties
    <2>. QED  BY <1>7, <2>2 DEF PushEvent
  <1>8. ASSUME NEW t \in Senders, PushEventWake(t) PROVE BaseInv'
    <2>1. TypeOK'
      BY <1>8 DEF PushEventWake
    <2>2. LoopHasEvent' /\ SlotInPool' /\ CallbackAtPoll'
      BY <1>8 DEF PushEventWake
    <2>3. MutexInv'
      BY <1>8 DEF PushEventWake
    <2>. QED  BY <2>1, <2>2, <2>3
  <1>9. CASE AsyncEvent
    BY <1>9 DEF AsyncEvent
  <1>10. CASE DoEventLock
    BY <1>10 DEF DoEventLock
  <1>11. CASE SendInline
    <2>1. buff[Head(eventQueue)] \in Message \cup {NoMsg}
      BY <1>11, QueueHeadTail DEF SendInline
    <2>2. handed' \in Seq(Message \cup {NoMsg}) /\ sendBuf' \in Message \cup {NoMsg}
      BY <1>11, <2>1, AppendProperties DEF SendInline
    <2>3. Len(unsent) \in Nat /\ Len(unsent) <= inflight /\ inflight \in Nat
      BY LenProperties
    <2>4. unsent' \in Seq(Message \cup {NoMsg}) /\ inflight' \in Nat /\ Len(unsent') <= inflight'
      <3>1. CASE inflight' = inflight + 1 /\ unsent' = Append(unsent, buff[Head(eventQueue)])
        <4>1. Len(unsent') = Len(unsent) + 1 /\ unsent' \in Seq(Message \cup {NoMsg})
          BY <2>1, <3>1, AppendProperties
        <4>. QED  BY <2>3, <3>1, <4>1
      <3>2. CASE inflight' \in {inflight, inflight + 1} /\ unsent' = unsent
        BY <2>3, <3>2
      <3>. QED  BY <1>11, <3>1, <3>2 DEF SendInline, UvUdpSend
    <2>. QED  BY <1>11, <2>2, <2>4 DEF SendInline
  <1>12. CASE UpdateEventStatus
    BY <1>12, QueueHeadTail DEF UpdateEventStatus
  <1>13. CASE PopEvent
    BY <1>13, QueueHeadTail DEF PopEvent
  <1>14. CASE DoEventUnlock
    BY <1>14 DEF DoEventUnlock
  <1>15. CASE AfterSend
    <2>1. Len(unsent) \in Nat
      BY LenProperties
    <2>. QED  BY <1>15, <2>1 DEF AfterSend
  <1>16. CASE UNCHANGED vars
    BY <1>16 DEF vars
  <1>17. ASSUME NEW t \in Senders, SendBadVersion(t) PROVE BaseInv'
    BY <1>17 DEF SendBadVersion
  <1>18. CASE UvSend
    <2>1. /\ Tail(unsent) \in Seq(Message \cup {NoMsg})
          /\ Len(Tail(unsent)) = Len(unsent) - 1 /\ Len(unsent) \in Nat
      BY <1>18, HeadTailProperties, LenProperties DEF UvSend
    <2>. QED  BY <1>18, <2>1 DEF UvSend
  <1>. QED
    BY <1>1, <1>2, <1>3, <1>4, <1>5, <1>6, <1>7, <1>8, <1>9, <1>10, <1>11, <1>12,
       <1>13, <1>14, <1>15, <1>16, <1>17, <1>18 DEF Next, SenderStep, LoopStep, DoEvent

LEMMA BaseInvariant == SafeSpec => []BaseInv
  BY BaseInit, BaseStep, PTL DEF SafeSpec

(* Every variable of the send path keeps its type. *)
THEOREM TypeCorrect == SafeSpec => []TypeOK
  BY BaseInvariant, PTL DEF BaseInv
-----------------------------------------------------------------------------
(* Wakeups.  NoLostWakeup is inductive: whoever appends to the queue is     *)
(* about to signal, and the signal is consumed only by leaving "poll".      *)
LEMMA WakeupStep == BaseInv /\ NoLostWakeup /\ [Next]_vars => NoLostWakeup'
  <1> SUFFICES ASSUME BaseInv, NoLostWakeup, [Next]_vars PROVE NoLostWakeup'
    OBVIOUS
  <1> USE DEF NoLostWakeup, BaseInv, TypeOK, poolVars, queueVars, senderVars, sendVars, loopVars,
              Goto, LoopGoto
  <1>1. ASSUME NEW t \in Senders, SendCall(t) PROVE NoLostWakeup'
    BY <1>1 DEF SendCall
  <1>2. ASSUME NEW t \in Senders, EventBufSkip(t) PROVE NoLostWakeup'
    BY <1>2 DEF EventBufSkip
  <1>3. ASSUME NEW t \in Senders, EventBufFound(t) PROVE NoLostWakeup'
    BY <1>3 DEF EventBufFound
  <1>4. ASSUME NEW t \in Senders, EventBufNone(t) PROVE NoLostWakeup'
    BY <1>4 DEF EventBufNone
  <1>5. ASSUME NEW t \in Senders, EventBufClaim(t) PROVE NoLostWakeup'
    BY <1>5 DEF EventBufClaim
  <1>6. ASSUME NEW t \in Senders, EventBufFill(t) PROVE NoLostWakeup'
    BY <1>6 DEF EventBufFill
  <1>7. ASSUME NEW t \in Senders, PushEvent(t) PROVE NoLostWakeup'
    BY <1>7 DEF PushEvent
  <1>8. ASSUME NEW t \in Senders, PushEventWake(t) PROVE NoLostWakeup'
    BY <1>8 DEF PushEventWake
  <1>9. CASE LoopStep \/ UvSend \/ AfterSend
    BY <1>9 DEF LoopStep, DoEvent, AsyncEvent, DoEventLock, SendInline, UpdateEventStatus,
                PopEvent, DoEventUnlock, UvSend, AfterSend
  <1>10. CASE UNCHANGED vars
    BY <1>10 DEF vars
  <1>11. ASSUME NEW t \in Senders, SendBadVersion(t) PROVE NoLostWakeup'
    BY <1>11 DEF SendBadVersion
  <1>. QED
    BY <1>1, <1>2, <1>3, <1>4, <1>5, <1>6, <1>7, <1>8, <1>9, <1>10, <1>11 DEF Next, SenderStep

(* Work queued while the loop sleeps is always about to be signalled: no    *)
(* merging of wakeups strands an event, for any number of senders.          *)
THEOREM WakeupsSuffice == SafeSpec => []NoLostWakeup
  <1>1. Init => NoLostWakeup
    BY DEF Init, NoLostWakeup
  <1>. QED  BY <1>1, BaseInvariant, WakeupStep, PTL DEF SafeSpec

-----------------------------------------------------------------------------
(* Use of the slots by one sender.                                          *)

(* Position i of the queue holds an event that is still to be sent. *)
HeldAt(i) == i \in 1 .. Len(eventQueue) /\ (loop = "pop" => i # 1)

(* A queued slot is in use, and has no second user. *)
QueuedOnce ==
  /\ \A i \in 1 .. Len(eventQueue) : HeldAt(i) => ~isAvailable[eventQueue[i]]
  /\ \A i, j \in 1 .. Len(eventQueue) :
       HeldAt(i) /\ HeldAt(j) /\ eventQueue[i] = eventQueue[j] => i = j

(* A slot the sender found is free until it takes it, then its own. *)
SenderSlot ==
  \A t \in Senders :
    /\ pc[t] = "claim" => isAvailable[slot[t]]
    /\ Owns(t) => /\ ~isAvailable[slot[t]]
                  /\ \A i \in 1 .. Len(eventQueue) : HeldAt(i) => eventQueue[i] # slot[t]

(* A slot out of use is marked free, unless Send has given it up. *)
NoLeak ==
  \A s \in Slots : ~isAvailable[s] =>
    \/ \E i \in 1 .. Len(eventQueue) : HeldAt(i) /\ eventQueue[i] = s
    \/ \E t \in Senders : Owns(t) /\ slot[t] = s
    \/ s \in lost

(* A slot that Send has given up is marked in use, and nobody uses it. *)
LostUnused ==
  \A s \in lost :
    /\ ~isAvailable[s]
    /\ \A i \in 1 .. Len(eventQueue) : HeldAt(i) => eventQueue[i] # s
    /\ \A t \in Senders : Owns(t) => slot[t] # s

(* A call that saw a free slot when it began still has one ahead of it. *)
ScanAhead ==
  \A t \in Senders : pc[t] = "scan" /\ ~sawFull[t] =>
    \E s \in Slots : slot[t] <= s /\ isAvailable[s]

(* What a call sends: the message it was called with. *)
CallMessage ==
  \A t \in Senders :
    /\ pc[t] \notin {"idle", "wake"} => msg[t] \in Message
    /\ pc[t] = "push" => buff[slot[t]] = msg[t]

PoolInv == BaseInv /\ QueuedOnce /\ SenderSlot /\ NoLeak /\ LostUnused /\ ScanAhead /\ CallMessage

LEMMA PoolInit == Init => PoolInv
  <1> SUFFICES ASSUME Init PROVE PoolInv
    OBVIOUS
  <1>1. BaseInv
    BY BaseInit
  <1>2. QueuedOnce /\ SenderSlot /\ NoLeak /\ LostUnused /\ ScanAhead /\ CallMessage
    BY SendPathAssumption
    DEF Init, QueuedOnce, SenderSlot, NoLeak, LostUnused, ScanAhead, CallMessage, Owns, HeldAt, Slots
  <1>. QED  BY <1>1, <1>2 DEF PoolInv

(* A step of a single sender or of the loop keeps PoolInv.                  *)
LEMMA PoolStep ==
  ASSUME OneSender, PoolInv, [Next]_vars
  PROVE  PoolInv'
  <1> USE SendPathAssumption
          DEF OneSender, PoolInv, BaseInv, TypeOK, LoopHasEvent, SlotInPool, MutexInv,
              QueuedOnce, SenderSlot, NoLeak, LostUnused, ScanAhead, CallMessage, Owns, HeldAt,
              Slots, Message, NoMsg, SenderPC, LoopPC,
              poolVars, queueVars, senderVars, sendVars, loopVars, Goto, LoopGoto,
              MayCall, CallbackReturned
  <1>0. BaseInv'
    <2> HIDE DEF BaseInv
    <2>. QED  BY BaseStep DEF PoolInv
  <1> DEFINE Rest == QueuedOnce /\ SenderSlot /\ NoLeak /\ LostUnused /\ ScanAhead /\ CallMessage
  <1> SUFFICES Rest'
    BY <1>0
  <1>1. ASSUME NEW t \in Senders, SendCall(t) PROVE Rest'
    <2>1. QueuedOnce'
      BY <1>1 DEF SendCall
    <2>2. SenderSlot'
      BY <1>1 DEF SendCall
    <2>3. NoLeak'
      BY <1>1 DEF SendCall
    <2>4. ScanAhead'
      BY <1>1 DEF SendCall
    <2>5. CallMessage'
      BY <1>1 DEF SendCall
    <2>6. LostUnused'
      BY <1>1 DEF SendCall
    <2>. QED  BY <2>1, <2>2, <2>3, <2>4, <2>5, <2>6
  <1>2. ASSUME NEW t \in Senders, EventBufSkip(t) PROVE Rest'
    <2>1. QueuedOnce'
      BY <1>2 DEF EventBufSkip
    <2>2. SenderSlot'
      BY <1>2 DEF EventBufSkip
    <2>3. NoLeak'
      BY <1>2 DEF EventBufSkip
    <2>4. ScanAhead'
      BY <1>2 DEF EventBufSkip
    <2>5. CallMessage'
      BY <1>2 DEF EventBufSkip
    <2>6. LostUnused'
      BY <1>2 DEF EventBufSkip
    <2>. QED  BY <2>1, <2>2, <2>3, <2>4, <2>5, <2>6
  <1>3. ASSUME NEW t \in Senders, EventBufFound(t) PROVE Rest'
    <2>1. QueuedOnce'
      BY <1>3 DEF EventBufFound
    <2>2. SenderSlot'
      BY <1>3 DEF EventBufFound
    <2>3. NoLeak'
      BY <1>3 DEF EventBufFound
    <2>4. ScanAhead'
      BY <1>3 DEF EventBufFound
    <2>5. CallMessage'
      BY <1>3 DEF EventBufFound
    <2>6. LostUnused'
      BY <1>3 DEF EventBufFound
    <2>. QED  BY <2>1, <2>2, <2>3, <2>4, <2>5, <2>6
  <1>4. ASSUME NEW t \in Senders, EventBufNone(t) PROVE Rest'
    <2>1. QueuedOnce'
      BY <1>4 DEF EventBufNone
    <2>2. SenderSlot'
      BY <1>4 DEF EventBufNone
    <2>3. NoLeak'
      BY <1>4 DEF EventBufNone
    <2>4. ScanAhead'
      BY <1>4 DEF EventBufNone
    <2>5. CallMessage'
      BY <1>4 DEF EventBufNone
    <2>6. LostUnused'
      BY <1>4 DEF EventBufNone
    <2>. QED  BY <2>1, <2>2, <2>3, <2>4, <2>5, <2>6
  <1>5. ASSUME NEW t \in Senders, EventBufClaim(t) PROVE Rest'
    <2>1. QueuedOnce'
      BY <1>5 DEF EventBufClaim
    <2>2. SenderSlot'
      BY <1>5 DEF EventBufClaim
    <2>3. NoLeak'
      <3> SUFFICES ASSUME NEW s \in Slots, ~isAvailable'[s], s \notin lost'
                   PROVE  \/ \E i \in 1 .. Len(eventQueue') : HeldAt(i)' /\ eventQueue'[i] = s
                          \/ \E u \in Senders : Owns(u)' /\ slot'[u] = s
        BY DEF NoLeak
      <3>1. CASE s = slot[t]
        BY <1>5, <3>1 DEF EventBufClaim
      <3>2. CASE s # slot[t]
        <4>1. /\ ~isAvailable[s] /\ s \notin lost /\ pc[t] = "claim"
              /\ UNCHANGED <<eventQueue, loop>>
          BY <1>5, <3>2 DEF EventBufClaim
        <4>2. \A u \in Senders : u = t
          OBVIOUS
        <4>3. ~ \E u \in Senders : Owns(u)
          BY <4>1, <4>2
        <4>4. \E i \in 1 .. Len(eventQueue) : HeldAt(i) /\ eventQueue[i] = s
          BY <4>1, <4>3
        <4>. QED  BY <4>1, <4>4
      <3>. QED  BY <3>1, <3>2
    <2>4. ScanAhead'
      BY <1>5 DEF EventBufClaim
    <2>5. CallMessage'
      BY <1>5 DEF EventBufClaim
    <2>6. LostUnused'
      BY <1>5 DEF EventBufClaim
    <2>. QED  BY <2>1, <2>2, <2>3, <2>4, <2>5, <2>6
  <1>6. ASSUME NEW t \in Senders, EventBufFill(t) PROVE Rest'
    <2>1. QueuedOnce'
      BY <1>6 DEF EventBufFill
    <2>2. SenderSlot'
      BY <1>6 DEF EventBufFill
    <2>3. NoLeak'
      <3> SUFFICES ASSUME NEW s \in Slots, ~isAvailable'[s], s \notin lost'
                   PROVE  \/ \E i \in 1 .. Len(eventQueue') : HeldAt(i)' /\ eventQueue'[i] = s
                          \/ \E u \in Senders : Owns(u)' /\ slot'[u] = s
        BY DEF NoLeak
      <3>1. CASE s = slot[t]
        BY <1>6, <3>1 DEF EventBufFill
      <3>2. CASE s # slot[t]
        BY <1>6, <3>2 DEF EventBufFill
      <3>. QED  BY <3>1, <3>2
    <2>4. ScanAhead'
      BY <1>6 DEF EventBufFill
    <2>5. CallMessage'
      BY <1>6 DEF EventBufFill
    <2>6. LostUnused'
      BY <1>6 DEF EventBufFill
    <2>. QED  BY <2>1, <2>2, <2>3, <2>4, <2>5, <2>6
  <1>7. ASSUME NEW t \in Senders, PushEvent(t) PROVE Rest'
    <2>1. QueuedOnce'
      BY <1>7 DEF PushEvent
    <2>2. SenderSlot'
      BY <1>7 DEF PushEvent
    <2>3. NoLeak'
      <3> SUFFICES ASSUME NEW s \in Slots, ~isAvailable'[s], s \notin lost'
                   PROVE  \/ \E i \in 1 .. Len(eventQueue') : HeldAt(i)' /\ eventQueue'[i] = s
                          \/ \E u \in Senders : Owns(u)' /\ slot'[u] = s
        BY DEF NoLeak
      <3>1. CASE s = slot[t]
        <4>1. loop # "pop" /\ loop' = loop
          BY <1>7 DEF PushEvent
        <4>2. eventQueue' = Append(eventQueue, slot[t]) /\ Len(eventQueue) \in Nat
          BY <1>7 DEF PushEvent
        <4>3. Len(eventQueue) + 1 \in 1 .. Len(eventQueue') /\ eventQueue'[Len(eventQueue) + 1] = s
          BY <3>1, <4>2
        <4>. QED  BY <4>1, <4>3
      <3>2. CASE s # slot[t]
        <4>1. /\ ~isAvailable[s] /\ s \notin lost /\ loop' = loop
              /\ eventQueue' = Append(eventQueue, slot[t]) /\ slot[t] \in Slots
          BY <1>7 DEF PushEvent
        <4>2. \A u \in Senders : slot[u] = slot[t]
          OBVIOUS
        <4>3. PICK i \in 1 .. Len(eventQueue) : HeldAt(i) /\ eventQueue[i] = s
          BY <3>2, <4>1, <4>2
        <4>4. i \in 1 .. Len(eventQueue') /\ eventQueue'[i] = s
          BY <4>1, <4>3
        <4>. QED  BY <4>1, <4>3, <4>4
      <3>. QED  BY <3>1, <3>2
    <2>4. ScanAhead'
      BY <1>7 DEF PushEvent
    <2>5. CallMessage'
      BY <1>7 DEF PushEvent
    <2>6. LostUnused'
      BY <1>7 DEF PushEvent
    <2>. QED  BY <2>1, <2>2, <2>3, <2>4, <2>5, <2>6
  <1>8. ASSUME NEW t \in Senders, PushEventWake(t) PROVE Rest'
    <2>1. QueuedOnce'
      BY <1>8 DEF PushEventWake
    <2>2. SenderSlot'
      BY <1>8 DEF PushEventWake
    <2>3. NoLeak'
      BY <1>8 DEF PushEventWake
    <2>4. ScanAhead'
      BY <1>8 DEF PushEventWake
    <2>5. CallMessage'
      BY <1>8 DEF PushEventWake
    <2>6. LostUnused'
      BY <1>8 DEF PushEventWake
    <2>. QED  BY <2>1, <2>2, <2>3, <2>4, <2>5, <2>6
  <1>9. CASE AsyncEvent
    BY <1>9 DEF AsyncEvent
  <1>10. CASE DoEventLock
    BY <1>10 DEF DoEventLock
  <1>11. CASE SendInline
    BY <1>11 DEF SendInline
  <1>12. CASE UpdateEventStatus
    <2>1. QueuedOnce'
      BY <1>12, QueueHeadTail DEF UpdateEventStatus
    <2>2. SenderSlot'
      BY <1>12, QueueHeadTail DEF UpdateEventStatus
    <2>3. NoLeak'
      <3>1. /\ loop = "release" /\ loop' = "pop"
            /\ isAvailable' = [isAvailable EXCEPT ![eventQueue[1]] = TRUE]
            /\ UNCHANGED <<eventQueue, lost, pc, slot>>
            /\ eventQueue[1] \in Slots
        BY <1>12, QueueHeadTail DEF UpdateEventStatus
      <3>2. ASSUME NEW s \in Slots, ~isAvailable'[s], s \notin lost,
                   ~ \E t \in Senders : Owns(t) /\ slot[t] = s
            PROVE  \E i \in 1 .. Len(eventQueue) : i # 1 /\ eventQueue[i] = s
        <4>1. s # eventQueue[1] /\ ~isAvailable[s]
          BY <3>1, <3>2
        <4>2. PICK i \in 1 .. Len(eventQueue) : eventQueue[i] = s
          BY <3>2, <4>1
        <4>. QED  BY <4>1, <4>2
      <3>. QED  BY <3>1, <3>2
    <2>4. ScanAhead'
      BY <1>12, QueueHeadTail DEF UpdateEventStatus
    <2>5. CallMessage'
      BY <1>12, QueueHeadTail DEF UpdateEventStatus
    <2>6. LostUnused'
      BY <1>12, QueueHeadTail DEF UpdateEventStatus
    <2>. QED  BY <2>1, <2>2, <2>3, <2>4, <2>5, <2>6
  <1>13. CASE PopEvent
    <2>1. QueuedOnce'
      <3>1. /\ loop = "pop" /\ loop' = "drain"
            /\ isAvailable' = isAvailable /\ eventQueue' = Tail(eventQueue)
            /\ Len(eventQueue) \in Nat \ {0} /\ Len(eventQueue') = Len(eventQueue) - 1
            /\ \A i \in 1 .. Len(eventQueue') : eventQueue'[i] = eventQueue[i + 1]
        BY <1>13, QueueHeadTail DEF PopEvent
      <3>2. \A i \in 1 .. Len(eventQueue') :
              i + 1 \in 1 .. Len(eventQueue) /\ i + 1 # 1 /\ HeldAt(i + 1)
        BY <3>1
      <3>3. ASSUME NEW i \in 1 .. Len(eventQueue') PROVE ~isAvailable'[eventQueue'[i]]
        BY <3>1, <3>2, <3>3
      <3>4. ASSUME NEW i \in 1 .. Len(eventQueue'), NEW j \in 1 .. Len(eventQueue'),
                   eventQueue'[i] = eventQueue'[j]
            PROVE  i = j
        <4>1. eventQueue[i + 1] = eventQueue[j + 1]
          BY <3>1, <3>4
        <4>2. i + 1 = j + 1
          BY <3>2, <4>1
        <4>. QED  BY <3>1, <4>2
      <3>. QED  BY <3>3, <3>4
    <2>2. SenderSlot'
      BY <1>13, QueueHeadTail DEF PopEvent
    <2>3. NoLeak'
      <3>1. /\ loop = "pop" /\ loop' = "drain"
            /\ eventQueue' = Tail(eventQueue)
            /\ UNCHANGED <<isAvailable, lost, pc, slot>>
            /\ eventQueue # <<>>
        BY <1>13 DEF PopEvent
      <3>2. ASSUME NEW s \in Slots, ~isAvailable[s], s \notin lost,
                   ~ \E t \in Senders : Owns(t) /\ slot[t] = s
            PROVE  \E j \in 1 .. Len(eventQueue') : eventQueue'[j] = s
        <4>1. PICK i \in 1 .. Len(eventQueue) : i # 1 /\ eventQueue[i] = s
          BY <3>1, <3>2
        <4>2. i - 1 \in 1 .. Len(eventQueue') /\ eventQueue'[i - 1] = s
          BY <3>1, <4>1, QueueHeadTail
        <4>. QED  BY <4>2
      <3>. QED  BY <3>1, <3>2
    <2>4. ScanAhead'
      BY <1>13, QueueHeadTail DEF PopEvent
    <2>5. CallMessage'
      BY <1>13, QueueHeadTail DEF PopEvent
    <2>6. LostUnused'
      BY <1>13, QueueHeadTail DEF PopEvent
    <2>. QED  BY <2>1, <2>2, <2>3, <2>4, <2>5, <2>6
  <1>14. CASE DoEventUnlock
    BY <1>14 DEF DoEventUnlock
  <1>15. CASE UvSend \/ AfterSend
    <2>1. UNCHANGED <<isAvailable, buff, eventQueue, loop, pc, slot, msg, sawFull, lost>>
      BY <1>15 DEF UvSend, AfterSend
    <2>. QED  BY <2>1
  <1>16. CASE UNCHANGED vars
    BY <1>16 DEF vars
  <1>17. ASSUME NEW t \in Senders, SendBadVersion(t) PROVE Rest'
    <2>1. QueuedOnce'
      BY <1>17 DEF SendBadVersion
    <2>2. SenderSlot'
      BY <1>17 DEF SendBadVersion
    <2>3. NoLeak'
      <3> SUFFICES ASSUME NEW s \in Slots, ~isAvailable'[s], s \notin lost'
                   PROVE  \/ \E i \in 1 .. Len(eventQueue') : HeldAt(i)' /\ eventQueue'[i] = s
                          \/ \E u \in Senders : Owns(u)' /\ slot'[u] = s
        BY DEF NoLeak
      <3>1. s # slot[t] /\ s \notin lost
        BY <1>17 DEF SendBadVersion
      <3>. QED  BY <1>17, <3>1 DEF SendBadVersion
    <2>4. ScanAhead'
      BY <1>17 DEF SendBadVersion
    <2>5. CallMessage'
      BY <1>17 DEF SendBadVersion
    <2>6. LostUnused'
      BY <1>17 DEF SendBadVersion
    <2>. QED  BY <2>1, <2>2, <2>3, <2>4, <2>5, <2>6
  <1>. QED
    BY <1>1, <1>2, <1>3, <1>4, <1>5, <1>6, <1>7, <1>8, <1>9, <1>10, <1>11, <1>12,
       <1>13, <1>14, <1>15, <1>16, <1>17 DEF Next, SenderStep, LoopStep, DoEvent

LEMMA PoolInvariant == ASSUME OneSender PROVE SafeSpec => []PoolInv
  <1>1. PoolInv /\ [Next]_vars => PoolInv'
    BY PoolStep
  <1>. QED  BY <1>1, PoolInit, PTL DEF SafeSpec

(* The queue without the event that is about to be popped, by positions. *)
LEMMA HeldPositions ==
  ASSUME PoolInv
  PROVE  /\ Len(Held) \in Nat
         /\ \A i \in 1 .. Len(Held) :
              IF loop = "pop" THEN HeldAt(i + 1) /\ Held[i] = eventQueue[i + 1]
                              ELSE HeldAt(i) /\ Held[i] = eventQueue[i]
         /\ \A i \in 1 .. Len(eventQueue) :
              HeldAt(i) => \E j \in 1 .. Len(Held) : Held[j] = eventQueue[i]
  <1> USE DEF PoolInv, BaseInv, TypeOK, LoopHasEvent, HeldAt, Held
  <1>1. CASE loop = "pop"
    <2>1. /\ eventQueue # <<>>
          /\ Len(Held) = Len(eventQueue) - 1
          /\ Len(eventQueue) \in Nat \ {0}
          /\ \A i \in 1 .. Len(Held) : Held[i] = eventQueue[i + 1]
      BY <1>1, QueueHeadTail
    <2>2. ASSUME NEW i \in 1 .. Len(eventQueue), i # 1
          PROVE  \E j \in 1 .. Len(Held) : Held[j] = eventQueue[i]
      <3>1. i - 1 \in 1 .. Len(Held)
        BY <2>1, <2>2
      <3>2. Held[i - 1] = eventQueue[i]
        <4> HIDE DEF Held
        <4>. QED  BY <2>1, <3>1
      <3>. QED  BY <3>1, <3>2
    <2>. QED  BY <1>1, <2>1, <2>2
  <1>2. CASE loop # "pop"
    BY <1>2, LenProperties
  <1>. QED  BY <1>1, <1>2

(* With a single sender no buffer ever has two users. *)
THEOREM SlotsExclusive == ASSUME OneSender PROVE SafeSpec => []ExclusiveSlot
  <1>1. PoolInv => ExclusiveSlot
    <2> SUFFICES ASSUME PoolInv PROVE ExclusiveSlot
      OBVIOUS
    <2>1. ASSUME NEW i \in 1 .. Len(Held), NEW j \in 1 .. Len(Held), Held[i] = Held[j]
          PROVE  i = j
      <3>1. CASE loop = "pop"
        <4>1. /\ HeldAt(i + 1) /\ Held[i] = eventQueue[i + 1]
              /\ HeldAt(j + 1) /\ Held[j] = eventQueue[j + 1]
          BY <2>1, <3>1, HeldPositions
        <4>2. i + 1 = j + 1
          <5>1. i + 1 \in 1 .. Len(eventQueue) /\ j + 1 \in 1 .. Len(eventQueue)
            BY <4>1 DEF HeldAt
          <5>. QED  BY <2>1, <4>1, <5>1 DEF PoolInv, QueuedOnce
        <4>3. Len(Held) \in Nat
          BY HeldPositions
        <4>. QED  BY <4>2, <4>3
      <3>2. CASE loop # "pop"
        <4>1. /\ HeldAt(i) /\ Held[i] = eventQueue[i]
              /\ HeldAt(j) /\ Held[j] = eventQueue[j]
          BY <2>1, <3>2, HeldPositions
        <4>2. i \in 1 .. Len(eventQueue) /\ j \in 1 .. Len(eventQueue)
          BY <4>1 DEF HeldAt
        <4>. QED  BY <2>1, <4>1, <4>2 DEF PoolInv, QueuedOnce
      <3>. QED  BY <3>1, <3>2
    <2>2. ASSUME NEW t \in Senders, NEW i \in 1 .. Len(Held), Owns(t)
          PROVE  Held[i] # slot[t]
      BY <2>2, HeldPositions DEF PoolInv, SenderSlot, HeldAt
    <2>. QED  BY <2>1, <2>2 DEF ExclusiveSlot, OneSender
  <1>. QED  BY <1>1, PoolInvariant, PTL

(* With a single sender the flags of the pool are exact: no buffer is lost  *)
(* but to a bad version, and none is free while somebody uses it.           *)
THEOREM FlagsExact == ASSUME OneSender PROVE SafeSpec => []FlagsTellUse
  <1>1. PoolInv => FlagsTellUse
    <2> SUFFICES ASSUME PoolInv, NEW s \in Slots
                 PROVE ~isAvailable[s] <=> \/ \E i \in 1 .. Len(Held) : Held[i] = s
                                           \/ \E t \in Senders : Owns(t) /\ slot[t] = s
                                           \/ s \in lost
      BY DEF FlagsTellUse
    <2>1. ASSUME ~isAvailable[s], s \notin lost
          PROVE  \/ \E i \in 1 .. Len(Held) : Held[i] = s
                 \/ \E t \in Senders : Owns(t) /\ slot[t] = s
      BY <2>1, HeldPositions DEF PoolInv, NoLeak
    <2>2. ASSUME NEW i \in 1 .. Len(Held), Held[i] = s
          PROVE  ~isAvailable[s]
      BY <2>2, HeldPositions DEF PoolInv, QueuedOnce, HeldAt
    <2>3. ASSUME NEW t \in Senders, Owns(t), slot[t] = s
          PROVE  ~isAvailable[s]
      BY <2>3 DEF PoolInv, SenderSlot
    <2>4. s \in lost => ~isAvailable[s]
      BY DEF PoolInv, LostUnused
    <2>. QED  BY <2>1, <2>2, <2>3, <2>4
  <1>. QED  BY <1>1, PoolInvariant, PTL

(* With a single sender Send refuses only calls that began with a full pool. *)
THEOREM RefusalsJustified == ASSUME OneSender PROVE SafeSpec => RefusedOnlyWhenFull
  <1>1. PoolInv => \A t \in Senders : EventBufNone(t) => sawFull[t]
    BY SendPathAssumption
    DEF PoolInv, ScanAhead, BaseInv, TypeOK, EventBufNone, Goto, Slots
  <1>. QED  BY <1>1, PoolInvariant, PTL DEF RefusedOnlyWhenFull

-----------------------------------------------------------------------------
(* The send path implements the abstract channel (safety).                  *)

(* The images under f of the elements of a sequence. *)
Mapped(q, f) == [i \in 1 .. Len(q) |-> f[q[i]]]

LEMMA MappedSeq ==
  ASSUME NEW S, NEW T, NEW f, NEW q \in Seq(S), \A x \in S : f[x] \in T
  PROVE  Mapped(q, f) \in Seq(T)
  <1>1. Len(q) \in Nat /\ \A i \in 1 .. Len(q) : q[i] \in S
    BY LenProperties, ElementOfSeq
  <1>2. Mapped(q, f) \in [1 .. Len(q) -> T]
    BY <1>1 DEF Mapped
  <1>. QED  BY <1>1, <1>2, SeqDef

LEMMA MappedLen ==
  ASSUME NEW S, NEW f, NEW q \in Seq(S)
  PROVE  Len(Mapped(q, f)) = Len(q)
  <1>1. Len(q) \in Nat
    BY LenProperties
  <1>. QED  BY <1>1 DEF Mapped

LEMMA MappedAppend ==
  ASSUME NEW S, NEW f, NEW q \in Seq(S), NEW x \in S
  PROVE  Mapped(Append(q, x), f) = Append(Mapped(q, f), f[x])
  <1> DEFINE T == {f[y] : y \in S}
  <1>0. \A y \in S : f[y] \in T
    OBVIOUS
  <1> HIDE DEF T
  <1>1. /\ Append(q, x) \in Seq(S)
        /\ Len(Append(q, x)) = Len(q) + 1
        /\ Len(q) \in Nat
        /\ \A i \in 1 .. Len(q) : Append(q, x)[i] = q[i]
        /\ Append(q, x)[Len(q) + 1] = x
    BY AppendProperties, LenProperties
  <1>2. /\ Mapped(q, f) \in Seq(T) /\ Len(Mapped(q, f)) = Len(q)
        /\ Mapped(Append(q, x), f) \in Seq(T)
        /\ Len(Mapped(Append(q, x), f)) = Len(q) + 1
    BY <1>0, <1>1, MappedSeq, MappedLen
  <1>3. /\ Append(Mapped(q, f), f[x]) \in Seq(T)
        /\ Len(Append(Mapped(q, f), f[x])) = Len(q) + 1
        /\ \A i \in 1 .. Len(q) : Append(Mapped(q, f), f[x])[i] = Mapped(q, f)[i]
        /\ Append(Mapped(q, f), f[x])[Len(q) + 1] = f[x]
    BY <1>0, <1>2, AppendProperties
  <1>4. \A i \in 1 .. Len(q) + 1 :
          Mapped(Append(q, x), f)[i] = Append(Mapped(q, f), f[x])[i]
    BY <1>1, <1>3 DEF Mapped
  <1>. QED  BY <1>2, <1>3, <1>4, SeqEqual

LEMMA MappedHeadTail ==
  ASSUME NEW S, NEW f, NEW q \in Seq(S), q # <<>>
  PROVE  /\ Mapped(q, f) # <<>>
         /\ Head(Mapped(q, f)) = f[Head(q)]
         /\ Mapped(Tail(q), f) = Tail(Mapped(q, f))
  <1> DEFINE T == {f[y] : y \in S}
  <1>0. \A y \in S : f[y] \in T
    OBVIOUS
  <1> HIDE DEF T
  <1>1. /\ Len(q) \in Nat \ {0}
        /\ Tail(q) \in Seq(S)
        /\ Len(Tail(q)) = Len(q) - 1
        /\ \A i \in 1 .. Len(Tail(q)) : Tail(q)[i] = q[i + 1]
    BY EmptySeq, HeadTailProperties
  <1>2. /\ Mapped(q, f) \in Seq(T) /\ Len(Mapped(q, f)) = Len(q)
        /\ Mapped(Tail(q), f) \in Seq(T) /\ Len(Mapped(Tail(q), f)) = Len(q) - 1
    <2>1. Mapped(q, f) \in Seq(T) /\ Mapped(Tail(q), f) \in Seq(T)
      BY <1>0, <1>1, MappedSeq
    <2>2. Len(Mapped(q, f)) = Len(q) /\ Len(Mapped(Tail(q), f)) = Len(Tail(q))
      BY <1>1, MappedLen
    <2>. QED  BY <1>1, <2>1, <2>2
  <1>3. Mapped(q, f) # <<>>
    BY <1>1, <1>2, EmptySeq
  <1>4. /\ Tail(Mapped(q, f)) \in Seq(T)
        /\ Len(Tail(Mapped(q, f))) = Len(q) - 1
        /\ \A i \in 1 .. Len(q) - 1 : Tail(Mapped(q, f))[i] = Mapped(q, f)[i + 1]
    BY <1>2, <1>3, HeadTailProperties
  <1>5. \A i \in 1 .. Len(q) - 1 : Mapped(Tail(q), f)[i] = Tail(Mapped(q, f))[i]
    BY <1>1, <1>4 DEF Mapped
  <1>6. Head(Mapped(q, f)) = f[Head(q)]
    BY <1>1, <1>2, <1>3 DEF Mapped
  <1>. QED  BY <1>2, <1>3, <1>4, <1>5, <1>6, SeqEqual

(* Fewer messages than buffers are waiting while a sender owns a buffer. *)
LEMMA RoomForOwner ==
  ASSUME PoolInv, NEW t \in Senders, Owns(t), loop \notin {"release", "pop"}
  PROVE  Len(eventQueue) < NumSlots
  <1> DEFINE q == eventQueue
             Free == Slots \ {slot[t]}
  <1>1. q \in Seq(Slots) /\ Len(q) \in Nat /\ q \in [1 .. Len(q) -> Slots]
    BY LenProperties DEF PoolInv, BaseInv, TypeOK
  <1>2. q \in [1 .. Len(q) -> Free]
    <2>1. \A i \in 1 .. Len(q) : q[i] \in Slots /\ q[i] # slot[t]
      BY <1>1 DEF PoolInv, SenderSlot, HeldAt
    <2>. QED  BY <1>1, <2>1
  <1>3. \A i, j \in 1 .. Len(q) : q[i] = q[j] => i = j
    BY DEF PoolInv, QueuedOnce, HeldAt
  <1>4. IsFiniteSet(Slots) /\ Cardinality(Slots) = NumSlots
    BY SendPathAssumption, FS_Interval DEF Slots
  <1>5. slot[t] \in Slots
    BY DEF PoolInv, BaseInv, SlotInPool, Owns
  <1>6. IsFiniteSet(Free) /\ Cardinality(Free) = NumSlots - 1
    BY <1>4, <1>5, FS_RemoveElement
  <1>7. IsFiniteSet(1 .. Len(q)) /\ Cardinality(1 .. Len(q)) = Len(q)
    <2>1. /\ IsFiniteSet(1 .. Len(q))
          /\ Cardinality(1 .. Len(q)) = IF 1 > Len(q) THEN 0 ELSE Len(q) - 1 + 1
      BY <1>1, FS_Interval, Len(q) \in Int, 1 \in Int
    <2>. QED  BY <1>1, <2>1
  <1>8. ~ (NumSlots - 1 < Len(q))
    <2> SUFFICES ASSUME NumSlots - 1 < Len(q) PROVE FALSE
      OBVIOUS
    <2> HIDE DEF q, Free
    <2>. QED  BY <1>2, <1>3, <1>6, <1>7, FS_PigeonHole
  <1>. QED  BY <1>1, <1>8, SendPathAssumption

LEMMA ChannelInit == Init => Channel!Init
  BY DEF Init, Channel!Init, OpenCall, PendingMsgs, Pending, NoMsg

(* The pending messages, as images of the pending slots. *)
LEMMA PendingFacts ==
  ASSUME PoolInv
  PROVE  /\ Pending \in Seq(Slots)
         /\ buff \in [Slots -> Message \cup {NoMsg}]
         /\ PendingMsgs = Mapped(Pending, buff)
  BY QueueHeadTail DEF PoolInv, BaseInv, TypeOK, LoopHasEvent, Pending, PendingMsgs, Mapped

(* Every step of the send path is a step of the channel, or none. *)
LEMMA ChannelStep ==
  ASSUME OneSender, PoolInv, [Next]_vars
  PROVE  [Channel!Next]_Channel!vars
  <1> USE DEF Goto, LoopGoto, poolVars, queueVars, senderVars, sendVars, loopVars
  <1>0. /\ Pending \in Seq(Slots)
        /\ buff \in [Slots -> Message \cup {NoMsg}]
        /\ PendingMsgs = Mapped(Pending, buff)
        /\ pc \in [Senders -> SenderPC]
        /\ msg \in [Senders -> Message \cup {NoMsg}]
    BY PendingFacts DEF PoolInv, BaseInv, TypeOK
  <1>1. ASSUME NEW t \in Senders, SendCall(t) PROVE \E m \in Message : Channel!Begin(t, m)
    <2>1. sends + 1 \in Message /\ sends + 1 # NoMsg
      BY <1>1, SendPathAssumption DEF SendCall, PoolInv, BaseInv, TypeOK, Message, NoMsg
    <2>2. OpenCall' = [OpenCall EXCEPT ![t] = sends + 1] /\ OpenCall[t] = NoMsg
      BY <1>0, <1>1 DEF SendCall, OpenCall
    <2>3. UNCHANGED <<PendingMsgs, handed>>
      BY <1>1 DEF SendCall, PendingMsgs, Pending
    <2>. QED  BY <2>1, <2>2, <2>3 DEF Channel!Begin
  <1>2. ASSUME NEW t \in Senders, EventBufSkip(t) \/ EventBufFound(t) \/ EventBufClaim(t)
        PROVE  UNCHANGED Channel!vars
    <2>1. UNCHANGED OpenCall
      BY <1>0, <1>2 DEF EventBufSkip, EventBufFound, EventBufClaim, OpenCall
    <2>2. UNCHANGED <<PendingMsgs, handed>>
      BY <1>2 DEF EventBufSkip, EventBufFound, EventBufClaim, PendingMsgs, Pending
    <2>. QED  BY <2>1, <2>2 DEF Channel!vars
  <1>3. ASSUME NEW t \in Senders, EventBufNone(t) \/ SendBadVersion(t) PROVE Channel!Refuse(t)
    <2>0. OpenCall[t] = msg[t] /\ msg[t] # NoMsg
      BY <1>0, <1>3 DEF EventBufNone, SendBadVersion, OpenCall, PoolInv, CallMessage, Message, NoMsg
    <2>1. OpenCall[t] # NoMsg /\ OpenCall' = [OpenCall EXCEPT ![t] = NoMsg]
      BY <1>0, <1>3, <2>0 DEF EventBufNone, SendBadVersion, OpenCall
    <2>2. UNCHANGED <<PendingMsgs, handed>>
      BY <1>3 DEF EventBufNone, SendBadVersion, PendingMsgs, Pending
    <2>. QED  BY <2>1, <2>2 DEF Channel!Refuse
  <1>4. ASSUME NEW t \in Senders, EventBufFill(t) PROVE UNCHANGED Channel!vars
    <2>1. UNCHANGED OpenCall
      BY <1>0, <1>4 DEF EventBufFill, OpenCall
    <2>2. \A i \in 1 .. Len(Pending) : Pending[i] # slot[t]
      BY <1>4, QueueHeadTail
      DEF EventBufFill, PoolInv, SenderSlot, BaseInv, TypeOK, LoopHasEvent, Owns, HeldAt, Pending
    <2>3. \A i \in 1 .. Len(Pending) : buff'[Pending[i]] = buff[Pending[i]]
      BY <1>0, <1>4, <2>2, ElementOfSeq DEF EventBufFill
    <2>4. Pending' = Pending /\ handed' = handed
      BY <1>4 DEF EventBufFill, Pending
    <2>5. PendingMsgs' = PendingMsgs
      BY <2>3, <2>4 DEF PendingMsgs
    <2>. QED  BY <2>1, <2>4, <2>5 DEF Channel!vars
  <1>5. ASSUME NEW t \in Senders, PushEvent(t) PROVE Channel!Accept(t)
    <2>1. loop \notin {"release", "pop", "drain"} /\ Owns(t) /\ slot[t] \in Slots
      BY <1>5, SendPathAssumption DEF PushEvent, PoolInv, BaseInv, MutexInv, SlotInPool, Owns
    <2>2. OpenCall[t] = msg[t] /\ msg[t] # NoMsg /\ buff[slot[t]] = msg[t]
      BY <1>0, <1>5 DEF PushEvent, OpenCall, PoolInv, CallMessage, Message, NoMsg
    <2>3. OpenCall' = [OpenCall EXCEPT ![t] = NoMsg]
      BY <1>0, <1>5 DEF PushEvent, OpenCall
    <2>4. Pending = eventQueue /\ Pending' = Append(eventQueue, slot[t])
      BY <1>5, <2>1 DEF PushEvent, Pending
    <2>5. PendingMsgs' = Append(PendingMsgs, OpenCall[t])
      <3>1. PendingMsgs' = Mapped(Append(Pending, slot[t]), buff)
        BY <1>5, <2>4 DEF PushEvent, PendingMsgs, Mapped
      <3>2. Mapped(Append(Pending, slot[t]), buff) = Append(Mapped(Pending, buff), buff[slot[t]])
        BY <1>0, <2>1, MappedAppend
      <3>. QED  BY <1>0, <2>2, <3>1, <3>2
    <2>6. Len(PendingMsgs) < NumSlots
      BY <1>0, <2>1, <2>4, MappedLen, RoomForOwner
    <2>7. handed' = handed
      BY <1>5 DEF PushEvent
    <2>. QED  BY <2>2, <2>3, <2>5, <2>6, <2>7 DEF Channel!Accept
  <1>6. ASSUME NEW t \in Senders, PushEventWake(t) PROVE UNCHANGED Channel!vars
    <2>1. UNCHANGED OpenCall
      BY <1>0, <1>6 DEF PushEventWake, OpenCall
    <2>2. UNCHANGED <<PendingMsgs, handed>>
      BY <1>6 DEF PushEventWake, PendingMsgs, Pending
    <2>. QED  BY <2>1, <2>2 DEF Channel!vars
  <1>7. CASE SendInline
    <2>1. /\ eventQueue # <<>> /\ Pending = eventQueue /\ Pending' = Tail(eventQueue)
          /\ UNCHANGED <<buff, pc, msg>>
          /\ handed' = Append(handed, buff[Head(eventQueue)])
      BY <1>7 DEF SendInline, Pending
    <2>2. UNCHANGED OpenCall
      BY <2>1 DEF OpenCall
    <2>3. PendingMsgs # <<>> /\ handed' = Append(handed, Head(PendingMsgs))
      BY <1>0, <2>1, MappedHeadTail
    <2>4. PendingMsgs' = Tail(PendingMsgs)
      <3>1. PendingMsgs' = Mapped(Tail(Pending), buff)
        BY <2>1 DEF PendingMsgs, Mapped
      <3>. QED  BY <1>0, <2>1, <3>1, MappedHeadTail
    <2>. QED  BY <2>2, <2>3, <2>4 DEF Channel!Next, Channel!Hand
  <1>8. CASE AsyncEvent \/ DoEventLock \/ UpdateEventStatus \/ PopEvent \/ DoEventUnlock
          \/ UvSend \/ AfterSend
    <2>1. UNCHANGED <<OpenCall, handed>>
      BY <1>8 DEF AsyncEvent, DoEventLock, UpdateEventStatus, PopEvent, DoEventUnlock, UvSend,
                  AfterSend, OpenCall
    <2>2. UNCHANGED <<Pending, buff>>
      BY <1>8 DEF AsyncEvent, DoEventLock, UpdateEventStatus, PopEvent, DoEventUnlock, UvSend,
                  AfterSend, Pending
    <2>3. UNCHANGED PendingMsgs
      BY <2>2 DEF PendingMsgs
    <2>. QED  BY <2>1, <2>3 DEF Channel!vars
  <1>9. CASE UNCHANGED vars
    BY <1>9 DEF vars, Channel!vars, OpenCall, PendingMsgs, Pending
  <1>. QED
    BY <1>1, <1>2, <1>3, <1>4, <1>5, <1>6, <1>7, <1>8, <1>9
    DEF Next, SenderStep, LoopStep, DoEvent, Channel!Next

(* With a single sender the send path implements the abstract channel: each *)
(* accepted message is handed over once, in order, with its own contents,   *)
(* and at most NumSlots wait.                                               *)
THEOREM ImplementsChannelSafety == ASSUME OneSender PROVE SafeSpec => Channel!SafeSpec
  <1>1. PoolInv /\ [Next]_vars => [Channel!Next]_Channel!vars
    BY ChannelStep
  <1>. QED  BY <1>1, ChannelInit, PoolInvariant, PTL DEF SafeSpec, Channel!SafeSpec
=============================================================================
