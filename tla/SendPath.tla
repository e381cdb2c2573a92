------------------------------- MODULE SendPath -------------------------------
(***************************************************************************)
(* The send path of a running UDP handle, between the threads that call    *)
(* UDPImp::Send and the thread that runs the libuv loop:                   *)
(*                                                                         *)
(*   - SendEventPlus_, the pool of preallocated event buffers, whose       *)
(*     is_available_ flags are read and written by both sides with no      *)
(*     lock (UDPImp.h);                                                    *)
(*   - CLooper's event queue, its mutex and the uv_async_t that wakes the  *)
(*     loop (Looper.cc);                                                   *)
(*   - UDPImp::Send, DoEvent, SendInline and AfterSend (UDPImp.cc), with   *)
(*     the one uv_udp_send_t and the one send_buf_ they all share.         *)
(*                                                                         *)
(* Send is called by threads of the application and, if Loop is one of the *)
(* senders, by the callbacks RecvData and AfterSend, which the loop's      *)
(* thread runs.                                                            *)
(*                                                                         *)
(* One action is one access to shared memory, or one critical section's    *)
(* worth of accesses to what its mutex protects.  The argument checks of   *)
(* Send, its addresses and the life cycle of the handle are left to the    *)
(* module of UDPImp: here the loop runs and every call has valid           *)
(* arguments, but socket_ver_ may be neither version when Send reads it,   *)
(* as after an Init that failed.                                           *)
(***************************************************************************)
EXTENDS Naturals, Sequences, FiniteSets

CONSTANTS
  Senders,    (* the threads that call Send; Loop may be one of them     *)
  Loop,       (* the thread that runs uv_run                             *)
  NoOne,      (* the holder of a mutex nobody holds                      *)
  NumSlots,   (* buffers in the pool; the code says SetCount(10)         *)
  BadVersion, (* whether socket_ver_ may be neither 4 nor 6              *)
  MaxSends    (* bound on the calls of Send in a behaviour               *)

ASSUME SendPathAssumption ==
  /\ NumSlots \in Nat \ {0}
  /\ BadVersion \in BOOLEAN
  /\ MaxSends \in Nat
  /\ NoOne \notin Senders \cup {Loop}

Slots == 1 .. NumSlots        (* the keys of map_space_id_ and map_event_plus_ *)
Message == 1 .. MaxSends      (* the n-th call sends message n                 *)
NoMsg == 0
CMutex == Senders \cup {Loop, NoOne}   (* whoever has it *)

VARIABLES
  isAvailable,  (* is_available_ of each slot                              *)
  buff,         (* what _buff of each slot holds                           *)
  eventQueue,   (* _event_queue: a sequence of slots                       *)
  mutex,        (* the holder of _event_queue_mutex                        *)
  wakeup,       (* uv_async_send called since the last AsyncEvent          *)
  pc,           (* where each sender is in Send                            *)
  slot,         (* the slot a sender's scan looks at, then the one it took *)
  msg,          (* the message of a sender's call                          *)
  sawFull,      (* history: no slot was free when the call began           *)
  lost,         (* history: the slots of calls that found the version bad  *)
  loop,         (* where the loop thread is                                *)
  sendBuf,      (* what send_buf_ holds                                    *)
  unsent,       (* messages of uses of send_req_ that libuv keeps waiting  *)
  inflight,     (* uses of send_req_ whose completion libuv has not seen   *)
  handed,       (* history: the messages given to uv_udp_send              *)
  sends         (* calls of Send so far                                    *)

poolVars == <<isAvailable, buff>>
queueVars == <<eventQueue, mutex, wakeup>>
senderVars == <<pc, slot, msg, sawFull, lost, sends>>
sendVars == <<sendBuf, unsent, inflight, handed>>
loopVars == <<loop, sendVars>>
vars == <<poolVars, queueVars, senderVars, loopVars>>

SenderPC == {"idle", "scan", "claim", "fill", "push", "wake"}
LoopPC == {"poll", "lock", "drain", "release", "pop"}

Init ==
  /\ isAvailable = [s \in Slots |-> TRUE]
  /\ buff = [s \in Slots |-> NoMsg]
  /\ eventQueue = <<>>
  /\ mutex = NoOne
  /\ wakeup = FALSE
  /\ pc = [t \in Senders |-> "idle"]
  /\ slot = [t \in Senders |-> 1]
  /\ msg = [t \in Senders |-> NoMsg]
  /\ sawFull = [t \in Senders |-> FALSE]
  /\ lost = {}
  /\ loop = "poll"
  /\ sendBuf = NoMsg
  /\ unsent = <<>>
  /\ inflight = 0
  /\ handed = <<>>
  /\ sends = 0

-----------------------------------------------------------------------------
(* The sender: UDPImp::Send, SendEventPlus_::EventBuf, CLooper::PushEvent. *)

Goto(t, from, to) ==
  /\ pc[t] = from
  /\ pc' = [pc EXCEPT ![t] = to]

(* A callback on the loop's thread runs between two events of libuv, and    *)
(* libuv goes on when the callback has returned.                           *)
MayCall(t) == t = Loop => loop = "poll"
CallbackReturned == Loop \in Senders => pc[Loop] = "idle"

(* Mutant of SendCall: the scan starts one before the first key of the map. *)
SendCall_FromZero(t) ==
  /\ sends < MaxSends
  /\ MayCall(t)
  /\ Goto(t, "idle", "scan")
  /\ sends' = sends + 1
  /\ msg' = [msg EXCEPT ![t] = sends + 1]
  /\ slot' = [slot EXCEPT ![t] = 0]
  /\ sawFull' = [sawFull EXCEPT ![t] = \A s \in Slots : ~isAvailable[s]]
  /\ UNCHANGED <<lost, poolVars, queueVars, loopVars>>

(* Send(pdata, len) has checked its arguments and found a looper; EventBuf *)
(* starts its scan at the first slot.                                      *)
SendCall(t) ==
  /\ sends < MaxSends
  /\ MayCall(t)
  /\ Goto(t, "idle", "scan")
  /\ sends' = sends + 1
  /\ msg' = [msg EXCEPT ![t] = sends + 1]
  /\ slot' = [slot EXCEPT ![t] = 1]
  /\ sawFull' = [sawFull EXCEPT ![t] = \A s \in Slots : ~isAvailable[s]]
  /\ UNCHANGED <<lost, poolVars, queueVars, loopVars>>

(* The scan reads the flag of a slot in use and goes on to the next one. *)
EventBufSkip(t) ==
  /\ pc[t] = "scan"
  /\ slot[t] \in Slots
  /\ ~isAvailable[slot[t]]
  /\ slot' = [slot EXCEPT ![t] = @ + 1]
  /\ UNCHANGED <<pc, msg, sawFull, lost, sends, poolVars, queueVars, loopVars>>

(* The scan reads the flag of a free slot and stops there. *)
EventBufFound(t) ==
  /\ Goto(t, "scan", "claim")
  /\ slot[t] \in Slots
  /\ isAvailable[slot[t]]
  /\ UNCHANGED <<slot, msg, sawFull, lost, sends, poolVars, queueVars, loopVars>>

(* Mutant of EventBufNone: the scan gives up before the last slot. *)
EventBufNone_SkipsLast(t) ==
  /\ Goto(t, "scan", "idle")
  /\ slot[t] = NumSlots
  /\ UNCHANGED <<slot, msg, sawFull, lost, sends, poolVars, queueVars, loopVars>>

(* No slot was free: space_id is still 0, which is no key of the map, so   *)
(* EventBuf returns nullptr and Send returns 6.                            *)
EventBufNone(t) ==
  /\ Goto(t, "scan", "idle")
  /\ slot[t] = NumSlots + 1
  /\ UNCHANGED <<slot, msg, sawFull, lost, sends, poolVars, queueVars, loopVars>>

(* Mutant of EventBufClaim: the flag of the slot taken is not cleared. *)
EventBufClaim_NoFlag(t) ==
  /\ Goto(t, "claim", "fill")
  /\ UNCHANGED <<isAvailable, buff, slot, msg, sawFull, lost, sends, queueVars, loopVars>>

(* The write that takes the slot, separate from the read that found it. *)
EventBufClaim(t) ==
  /\ Goto(t, "claim", "fill")
  /\ isAvailable' = [isAvailable EXCEPT ![slot[t]] = FALSE]
  /\ UNCHANGED <<buff, slot, msg, sawFull, lost, sends, queueVars, loopVars>>

(* EventBuf copies the data into the slot and Send adds address and owner. *)
EventBufFill(t) ==
  /\ Goto(t, "fill", "push")
  /\ buff' = [buff EXCEPT ![slot[t]] = msg[t]]
  /\ UNCHANGED <<isAvailable, slot, msg, sawFull, lost, sends, queueVars, loopVars>>

(* A CAutoLock waits for the mutex, and gives it back at the end of its     *)
(* block.                                                                  *)
Lock(t) == mutex = NoOne /\ mutex' = t
UnLock == mutex' = NoOne

(* PushEvent takes the mutex and appends the event ... *)
PushEvent(t) ==
  /\ Goto(t, "push", "wake")
  /\ Lock(t)
  /\ eventQueue' = Append(eventQueue, slot[t])
  /\ UNCHANGED <<wakeup, slot, msg, sawFull, lost, sends, poolVars, loopVars>>

(* Send finds socket_ver_ wrong and returns 3: the slot stays taken. *)
SendBadVersion(t) ==
  /\ BadVersion
  /\ Goto(t, "push", "idle")
  /\ lost' = lost \cup {slot[t]}
  /\ UNCHANGED <<slot, msg, sawFull, sends, poolVars, queueVars, loopVars>>

(* Mutant of PushEventWake: no uv_async_send. *)
PushEventWake_NoSignal(t) ==
  /\ Goto(t, "wake", "idle")
  /\ UnLock
  /\ UNCHANGED <<wakeup, eventQueue, slot, msg, sawFull, lost, sends, poolVars, loopVars>>

(* ... then signals the loop, releases the mutex, and Send returns 0. *)
PushEventWake(t) ==
  /\ Goto(t, "wake", "idle")
  /\ wakeup' = TRUE
  /\ UnLock
  /\ UNCHANGED <<eventQueue, slot, msg, sawFull, lost, sends, poolVars, loopVars>>

-----------------------------------------------------------------------------
(* The loop thread: CLooper::AsyncEvent and DoEvent, UDPImp::DoEvent,      *)
(* SendInline and AfterSend.                                               *)

LoopGoto(from, to) ==
  /\ loop = from
  /\ loop' = to

(* libuv runs the callback of _async_event_handle.  Signals that arrived   *)
(* since the previous call have been merged into this one.                 *)
AsyncEvent ==
  /\ CallbackReturned
  /\ LoopGoto("poll", "lock")
  /\ wakeup
  /\ wakeup' = FALSE
  /\ UNCHANGED <<eventQueue, mutex, sendVars, poolVars, senderVars>>

(* CLooper::DoEvent takes the mutex, and keeps it until the queue is empty. *)
DoEventLock ==
  /\ LoopGoto("lock", "drain")
  /\ Lock(Loop)
  /\ UNCHANGED <<eventQueue, wakeup, sendVars, poolVars, senderVars>>

(* uv_udp_send with send_req_ and send_buf_.  The system takes the data at  *)
(* once, unless earlier sends wait, or libuv keeps the send until it can:  *)
(* either way the request is in flight, along with any earlier use of it.  *)
(* Or the call fails and leaves nothing behind.                            *)
UvUdpSend(m) ==
  \/ inflight' = inflight + 1 /\ unsent = <<>> /\ UNCHANGED unsent
  \/ inflight' = inflight + 1 /\ unsent' = Append(unsent, m)
  \/ UNCHANGED <<inflight, unsent>>

(* Mutant of SendInline: an error of uv_udp_send skips the release. *)
SendInline_ErrorKeepsSlot ==
  /\ loop = "drain"
  /\ eventQueue # <<>>
  /\ LET m == buff[Head(eventQueue)]
     IN sendBuf' = m /\ handed' = Append(handed, m) /\ UvUdpSend(m)
  /\ loop' = IF inflight' = inflight THEN "pop" ELSE "release"
  /\ UNCHANGED <<poolVars, queueVars, senderVars>>

(* UDPImp::DoEvent passes the event at the front of the queue to           *)
(* SendInline, which copies it to send_buf_, whatever waits to be sent     *)
(* from there, and calls uv_udp_send.  An error is turned into a string    *)
(* and dropped.                                                            *)
SendInline ==
  /\ LoopGoto("drain", "release")
  /\ eventQueue # <<>>
  /\ LET m == buff[Head(eventQueue)]
     IN sendBuf' = m /\ handed' = Append(handed, m) /\ UvUdpSend(m)
  /\ UNCHANGED <<poolVars, queueVars, senderVars>>

(* UDPImp::DoEvent marks the slot free, while the event is still queued. *)
UpdateEventStatus ==
  /\ LoopGoto("release", "pop")
  /\ isAvailable' = [isAvailable EXCEPT ![Head(eventQueue)] = TRUE]
  /\ UNCHANGED <<buff, sendVars, queueVars, senderVars>>

(* Mutant of PopEvent: one event is handled for each wakeup. *)
PopEvent_OneAWakeup ==
  /\ LoopGoto("pop", "poll")
  /\ eventQueue' = Tail(eventQueue)
  /\ UnLock
  /\ UNCHANGED <<wakeup, sendVars, poolVars, senderVars>>

(* CLooper::DoEvent removes the event and looks at the queue again. *)
PopEvent ==
  /\ LoopGoto("pop", "drain")
  /\ eventQueue' = Tail(eventQueue)
  /\ UNCHANGED <<mutex, wakeup, sendVars, poolVars, senderVars>>

(* The queue is empty: the mutex is released and control returns to libuv. *)
DoEventUnlock ==
  /\ LoopGoto("drain", "poll")
  /\ eventQueue = <<>>
  /\ UnLock
  /\ UNCHANGED <<eventQueue, wakeup, sendVars, poolVars, senderVars>>

(* libuv passes the send that has waited longest to the system, with what  *)
(* send_buf_ holds now.                                                    *)
UvSend ==
  /\ CallbackReturned
  /\ loop = "poll"
  /\ unsent # <<>>
  /\ unsent' = Tail(unsent)
  /\ UNCHANGED <<loop, sendBuf, inflight, handed, poolVars, queueVars, senderVars>>

(* libuv sees the completion of send_req_ and runs UDPImp::AfterSend, which *)
(* notifies the application.  All overlapping uses are the same request,   *)
(* so one callback may account for several of them; a request that was not *)
(* reused while in flight gets exactly one.                                *)
AfterSend ==
  /\ CallbackReturned
  /\ loop = "poll"
  /\ \E k \in 1 .. inflight - Len(unsent) : inflight' = inflight - k
  /\ UNCHANGED <<loop, sendBuf, unsent, handed, poolVars, queueVars, senderVars>>

-----------------------------------------------------------------------------
SenderStep(t) ==
  \/ EventBufSkip(t) \/ EventBufFound(t) \/ EventBufNone(t)
  \/ EventBufClaim(t) \/ EventBufFill(t)
  \/ SendBadVersion(t) \/ PushEvent(t) \/ PushEventWake(t)

DoEvent == SendInline \/ UpdateEventStatus \/ PopEvent

LoopStep == AsyncEvent \/ DoEventLock \/ DoEvent \/ DoEventUnlock

Next ==
  \/ \E t \in Senders : SendCall(t) \/ SenderStep(t)
  \/ LoopStep
  \/ UvSend \/ AfterSend

(* Threads are scheduled, and libuv sends what waits and reports           *)
(* completions.  Calls of Send are the application's choice and are not    *)
(* fair.                                                                   *)
Fairness ==
  /\ \A t \in Senders : WF_vars(SenderStep(t))
  /\ WF_vars(LoopStep)
  /\ WF_vars(UvSend)
  /\ WF_vars(AfterSend)

SafeSpec == Init /\ [][Next]_vars

Spec == SafeSpec /\ Fairness

-----------------------------------------------------------------------------
TypeOK ==
  /\ isAvailable \in [Slots -> BOOLEAN]
  /\ buff \in [Slots -> Message \cup {NoMsg}]
  /\ eventQueue \in Seq(Slots)
  /\ mutex \in CMutex
  /\ wakeup \in BOOLEAN
  /\ pc \in [Senders -> SenderPC]
  /\ slot \in [Senders -> 1 .. NumSlots + 1]
  /\ msg \in [Senders -> Message \cup {NoMsg}]
  /\ sawFull \in [Senders -> BOOLEAN]
  /\ lost \subseteq Slots
  /\ loop \in LoopPC
  /\ sendBuf \in Message \cup {NoMsg}
  /\ unsent \in Seq(Message \cup {NoMsg})
  /\ inflight \in Nat /\ Len(unsent) <= inflight
  /\ handed \in Seq(Message \cup {NoMsg})
  /\ sends \in 0 .. MaxSends

-----------------------------------------------------------------------------
(* The slots the event queue has the use of, front first.  The event whose  *)
(* slot has just been marked free is still queued, but only to be popped.   *)
Held == IF loop = "pop" THEN Tail(eventQueue) ELSE eventQueue

(* The queued events that have not been handed to uv_udp_send. *)
Pending == IF loop \in {"release", "pop"} THEN Tail(eventQueue) ELSE eventQueue

(* Sender t has taken slot[t] and not yet queued it. *)
Owns(t) == pc[t] \in {"fill", "push"}

(* No buffer has two users: a slot is queued at most once, is not queued    *)
(* while a sender writes into it, and is not written by two senders.  This  *)
(* is what the is_available_ flags of the pool are for (UDPImp.h:81).       *)
ExclusiveSlot ==
  /\ \A i, j \in 1 .. Len(Held) : Held[i] = Held[j] => i = j
  /\ \A t \in Senders, i \in 1 .. Len(Held) : Owns(t) => Held[i] # slot[t]
  /\ \A t, u \in Senders : Owns(t) /\ Owns(u) /\ slot[t] = slot[u] => t = u

(* The flag of a slot is false exactly while somebody uses the slot, or     *)
(* Send has given it up over a bad version: no other path through Send and  *)
(* DoEvent loses a buffer, and none frees one early.                        *)
FlagsTellUse ==
  \A s \in Slots :
    ~isAvailable[s] <=> \/ \E i \in 1 .. Len(Held) : Held[i] = s
                        \/ \E t \in Senders : Owns(t) /\ slot[t] = s
                        \/ s \in lost

(* When the loop goes back to waiting for events with work queued, a signal *)
(* is pending or the sender that queued it is about to send one: merging    *)
(* the wakeups of several pushes loses none (PushEvent, AsyncEvent).        *)
NoLostWakeup ==
  loop = "poll" /\ eventQueue # <<>> => wakeup \/ \E t \in Senders : pc[t] = "wake"

(* Send returns 6 only to a call that found every buffer in use when it     *)
(* began, although the loop frees buffers behind the scan (EventBuf).       *)
RefusedOnlyWhenFull ==
  [][\A t \in Senders : EventBufNone(t) => sawFull[t]]_vars

(* Every datagram leaves with the message that was handed over for it: the  *)
(* data to be sent stay in send_buf_ until they are (SendInline).           *)
LeavesUnchanged == [][UvSend => Head(unsent) = sendBuf]_vars

(* Every queued event is eventually taken from the queue, whatever the      *)
(* senders do meanwhile (AsyncEvent, DoEvent).                              *)
QueueDrains == eventQueue # <<>> ~> eventQueue = <<>>

(* The send path implements the abstract channel: a call ends when its      *)
(* event is queued or the pool has none, and a message leaves the channel   *)
(* when SendInline passes its slot to uv_udp_send.                          *)
OpenCall == [t \in Senders |-> IF pc[t] \in {"idle", "wake"} THEN NoMsg ELSE msg[t]]
PendingMsgs == [i \in 1 .. Len(Pending) |-> buff[Pending[i]]]

Channel == INSTANCE SendChannel
             WITH call <- OpenCall, chan <- PendingMsgs, Capacity <- NumSlots

ImplementsChannel == Channel!Spec
=============================================================================
