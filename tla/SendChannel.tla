----------------------------- MODULE SendChannel -----------------------------
(***************************************************************************)
(* What the asynchronous send of lib_udp promises to the application: a    *)
(* bounded first-in first-out channel between the threads that call        *)
(* IUDP::Send and libuv.                                                   *)
(*                                                                         *)
(* A call is open from the moment Send is entered until its message is in  *)
(* the channel or the call is refused.  Messages leave the channel, in the *)
(* order in which they were accepted, when they are handed to uv_udp_send. *)
(* How the event buffers, the mutex and the async wakeup bring this about  *)
(* is module SendPath.                                                     *)
(***************************************************************************)
EXTENDS Naturals, Sequences

CONSTANTS
  Senders,   (* the threads that call Send                        *)
  Message,   (* what can be sent                                  *)
  NoMsg,     (* the call of a thread outside Send, no Message     *)
  Capacity   (* how many accepted messages the channel holds, > 0 *)

VARIABLES
  call,      (* call[t]: the message thread t is sending, or NoMsg        *)
  chan,      (* messages accepted and not yet handed to uv_udp_send       *)
  handed     (* messages handed to uv_udp_send, in order                  *)

vars == <<call, chan, handed>>

Init ==
  /\ call = [t \in Senders |-> NoMsg]
  /\ chan = <<>>
  /\ handed = <<>>

(* Thread t enters Send with message m. *)
Begin(t, m) ==
  /\ call[t] = NoMsg
  /\ call' = [call EXCEPT ![t] = m]
  /\ UNCHANGED <<chan, handed>>

(* The message of t's call goes to the end of the channel, exactly once. *)
Accept(t) ==
  /\ call[t] # NoMsg
  /\ Len(chan) < Capacity
  /\ chan' = Append(chan, call[t])
  /\ call' = [call EXCEPT ![t] = NoMsg]
  /\ UNCHANGED handed

(* The call ends without effect. *)
Refuse(t) ==
  /\ call[t] # NoMsg
  /\ call' = [call EXCEPT ![t] = NoMsg]
  /\ UNCHANGED <<chan, handed>>

(* The oldest accepted message is handed to uv_udp_send. *)
Hand ==
  /\ chan # <<>>
  /\ handed' = Append(handed, Head(chan))
  /\ chan' = Tail(chan)
  /\ UNCHANGED call

Next ==
  \/ \E t \in Senders : (\E m \in Message : Begin(t, m)) \/ Accept(t) \/ Refuse(t)
  \/ Hand

(* Every accepted message is eventually handed over, and no call stays     *)
(* open for ever.                                                          *)
Fairness ==
  /\ WF_vars(Hand)
  /\ \A t \in Senders : WF_vars(Accept(t) \/ Refuse(t))

SafeSpec == Init /\ [][Next]_vars

Spec == SafeSpec /\ Fairness
=============================================================================
