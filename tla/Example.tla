------------------------------- MODULE Example -------------------------------
(***************************************************************************)
(* The example program (example/main.cc) over module UDPImp.  main calls   *)
(* call_udp_recv_data_example_02, whose NetUDP object owns a handle and is *)
(* its notifier; example_01, kept beside it, uses a handle directly and    *)
(* asks for no reports.  Neither passes an object to receive.              *)
(*                                                                         *)
(* Each step of main is a step of the application thread of UDPImp; the    *)
(* sleeps and the printing change nothing, and the numbers typed in at     *)
(* the prompt choose between unicast and multicast.                        *)
(***************************************************************************)
EXTENDS UDPImp

CONSTANT Rounds   (* messages sent: 6 in example_01, 100 in example_02 *)

ASSUME ExampleAssumption == Rounds \in Nat \ {0}

VARIABLES
  example,   (* "01" or "02"              *)
  pc,        (* where main is             *)
  round      (* index, in the sending loop *)

mainVars == <<example, pc, round>>

ExampleParams ==
  [ver : {"v4"}, dest : {"good"}, cast : {"uni", "group"}, recv : {FALSE}, notify : BOOLEAN]

ExampleInit ==
  /\ Init
  /\ example \in {"01", "02"}
  /\ pc = "start"
  /\ round = 0

MainGoto(from, to) == pc = from /\ pc' = to

(* NetUDP(), or NewUDP in example_01. *)
Construct ==
  /\ MainGoto("start", "new")
  /\ NewUDP
  /\ UNCHANGED <<example, round>>

(* NetUDP::Init names the object as the notifier and calls Init. *)
CallInit ==
  /\ MainGoto("new", "init")
  /\ InitCall
  /\ param'.notify = (example = "02")
  /\ UNCHANGED <<example, round>>

(* The sending loop is skipped if Init failed. *)
InitReturned ==
  /\ pc = "init"
  /\ app = "idle"
  /\ pc' = IF initRet = 0 THEN "send" ELSE "sleep"
  /\ UNCHANGED <<vars, example, round>>

(* NetUDP::Send of ten bytes, so EventBuf fails only for want of a buffer; *)
(* a failure of Send is printed and the loop goes on.                      *)
SendRound ==
  /\ pc = "send"
  /\ SendNoLooper \/ (used = NumSlots /\ SendNoBuffer) \/ SendBadVersion \/ SendQueued
  /\ round' = round + 1
  /\ pc' = IF round' = Rounds THEN "sleep" ELSE pc
  /\ UNCHANGED example

(* Mutant of Destroy: ~NetUDP leaves its handle alone. *)
Destroy_KeepsHandle ==
  /\ pc = "sleep"
  /\ pc' = "done"
  /\ UNCHANGED <<vars, example, round>>

(* After a second ~NetUDP calls UnInit, and that DeleteUDP. *)
Destroy ==
  /\ MainGoto("sleep", "delete")
  /\ BeginUnInit("gone")
  /\ UNCHANGED <<looperVars, ctx, param, initNo, targetVars, poolVars, ioVars>>
  /\ UNCHANGED <<example, round>>

Return0 ==
  /\ MainGoto("delete", "done")
  /\ app = "gone"
  /\ UNCHANGED <<vars, example, round>>

Main == Construct \/ CallInit \/ InitReturned \/ SendRound \/ Destroy \/ Return0

(* NetUDP::AfterSend only prints: no callback calls the handle. *)
Silent == poolVars' = poolVars

Callbacks == AfterSend /\ Silent

ExampleNext ==
  /\ ~undefined
  /\ \/ Main
     \/ (AppStep \/ LoopThread \/ Callbacks) /\ UNCHANGED mainVars

ExampleFairness ==
  /\ WF_<<vars, mainVars>>(ExampleNext /\ (Main \/ AppStep))
  /\ WF_<<vars, mainVars>>(ExampleNext /\ LoopThread)
  /\ SF_<<vars, mainVars>>(ExampleNext /\ AsyncCB /\ LoopRun)
  /\ SF_<<vars, mainVars>>(ExampleNext /\ Callbacks)

ExampleSpec == ExampleInit /\ [][ExampleNext]_<<vars, mainVars>> /\ ExampleFairness

-----------------------------------------------------------------------------
(* The program ends, whatever Init returns and whether or not the loop      *)
(* thread ever serves the loop, if libuv sets up the looper (main, ~NetUDP). *)
MainReturns == <>(pc = "done")

(* When it ends the loop thread, if a looper was made, has ended, and its   *)
(* looper, its sends and its udp_ctx_ are gone (NetUDP::UnInit, DeleteUDP). *)
LeavesNothing ==
  pc = "done" => /\ thr = IF loopers = 0 THEN "none" ELSE "done"
                 /\ owner = "none" /\ ~ctx /\ inflight = 0
=============================================================================
