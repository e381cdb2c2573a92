-------------------------------- MODULE UDPImp --------------------------------
(***************************************************************************)
(* The life of a UDP handle (UDPImp.cc, icommonunication.cc): NewUDP,      *)
(* Init, Send, UnInit and DeleteUDP called by one application thread, and  *)
(* the callbacks libuv makes on the loop thread, which may call Send too.  *)
(* Init builds a CLooper and UnInit deletes it: the steps of both threads  *)
(* in CLooper are those of module Looper.  errmsg_, which only             *)
(* GetLastErrorMsg reads, is left out.                                     *)
(*                                                                         *)
(* Inside Send the search for a buffer and the push of the event are one   *)
(* step here; module SendPath takes them apart, and shows what two Sends   *)
(* at once do to the buffers.                                              *)
(***************************************************************************)
EXTENDS Looper

CONSTANTS
  NumSlots,   (* buffers of send_event_buf_                                *)
  Params,     (* what the application passes to Init                       *)
  MaxInits,   (* bound on the calls of Init                                *)
  MaxSends    (* bound on the calls of Send that find a buffer             *)

(* A destination is the number of the Init that gave it.  Nowhere is any    *)
(* other address: zeros, for want of an Init or because the text of        *)
(* dest_ip_ was no address, or one whose port dest_port_ has been cut to   *)
(* 16 bits.  Cut(n) is what an event keeps of an IPv6 destination n: the   *)
(* sixteen bytes of a struct sockaddr, and then the members after _addr.   *)
Nowhere == 0
Cut(n) == MaxInits + 1 + n

Version == {"v4", "v6", "other"}   (* socket_ver_: a value that is no SOCKET_VER *)
Family == {"v4", "v6"}             (* has no address                            *)
CastType == {"none", "uni", "group"}   (* group: broadcast or multicast, for     *)
                                   (* which options of the socket are set       *)
Param == [ver : Version,           (* socket_ver_                               *)
          dest : {"zero", "good", "bad"},     (* dest_port_ is 0; dest_port_ has  *)
                                   (* 16 bits and dest_ip_ is an address; else  *)
          cast : CastType,
          recv : BOOLEAN,          (* recv_data_ is not null                    *)
          notify : BOOLEAN]        (* send_notify_ is not null                  *)

ASSUME UDPAssumption ==
  /\ NumSlots \in Nat \ {0}
  /\ Params \subseteq Param
  /\ MaxInits \in Nat
  /\ MaxSends \in Nat
  /\ Event = 0 .. Cut(MaxInits)
  /\ MaxQueue = NumSlots

VARIABLES
  app,       (* where the application thread is                            *)
  after,     (* what follows the UnInit under way                          *)
  param,     (* the argument of the last Init                              *)
  initNo,    (* calls of Init so far                                       *)
  initRet,   (* what the last Init returned; NoRet before and after UnInit *)
  ctx,       (* udp_ctx_ is allocated                                      *)
  address,   (* the Init that wrote dest_adress_ of each family            *)
  ver,       (* socket_ver_                                                *)
  dispatch,  (* the Init whose recv_data_ is data_dispatch_, 0 = nullptr   *)
  notify,    (* the Init whose send_notify_ is send_notify_, 0 = nullptr   *)
  used,      (* slots of send_event_buf_ with is_available_ = false        *)
  inflight,  (* uses of send_req_ libuv has not completed                  *)
  sendRet,   (* what the last Send since Init returned                     *)
  sends,     (* calls of Send that found a buffer                          *)
  lost,      (* history: slots marked in use that no event refers to       *)
  called     (* history: of the last callback, whose object it was given   *)
             (* to, whose the last Init named, whether that Init was done  *)

apiVars == <<param, initNo, initRet>>
targetVars == <<address, ver, dispatch, notify>>
poolVars == <<used, sends, lost>>
ioVars == <<inflight, called>>
vars == <<looperVars, app, after, ctx, sendRet, apiVars, targetVars, poolVars, ioVars>>

AppPC == {"gone", "idle", "close", "ctx", "looper", "bind", "cast", "recv",
          "dispatch", "version", "finish"}
After == {"init", "idle", "gone"}
NoRet == 9

Init ==
  /\ LooperInit
  /\ app = "gone"
  /\ after = "idle"
  /\ param = [ver |-> "v4", dest |-> "good", cast |-> "uni", recv |-> FALSE, notify |-> FALSE]
  /\ initNo = 0
  /\ initRet = NoRet
  /\ ctx = FALSE
  /\ address = [f \in Family |-> Nowhere]
  /\ ver = "other"
  /\ dispatch = 0
  /\ notify = 0
  /\ used = 0
  /\ inflight = 0
  /\ sendRet = NoRet
  /\ sends = 0
  /\ lost = 0
  /\ called = [to |-> 0, want |-> 0, done |-> FALSE]

AppGoto(from, to) == app = from /\ app' = to

-----------------------------------------------------------------------------
(* The application thread: construction and destruction.                    *)

(* NewUDP: every member is set but socket_ver_. *)
NewUDP ==
  /\ AppGoto("gone", "idle")
  /\ address' = [f \in Family |-> Nowhere]
  /\ ver' \in Version
  /\ dispatch' = 0
  /\ notify' = 0
  /\ used' = 0
  /\ lost' = 0
  /\ UNCHANGED <<looperVars, after, ctx, sendRet, sends, param, initNo, initRet, ioVars>>

(* A call that begins with UnInit: UnInit, DeleteUDP or Init(p). *)
BeginUnInit(next) ==
  /\ AppGoto("idle", "close")
  /\ after' = next
  /\ initRet' = NoRet
  /\ sendRet' = NoRet

UnInit ==
  /\ BeginUnInit("idle") \/ BeginUnInit("gone")
  /\ UNCHANGED <<looperVars, ctx, param, initNo, targetVars, poolVars, ioVars>>

InitCall ==
  /\ initNo < MaxInits
  /\ BeginUnInit("init")
  /\ initNo' = initNo + 1
  /\ param' \in Params
  /\ UNCHANGED <<looperVars, ctx, targetVars, poolVars, ioVars>>

(* ptrLooper_->Close(), then the steps of delete ptrLooper_. *)
UnInitClose ==
  /\ app = "close"
  /\ Close
  /\ UNCHANGED <<app, after, ctx, sendRet, apiVars, targetVars, poolVars, ioVars>>

UnInitJoin ==
  /\ app = "close"
  /\ Join
  /\ UNCHANGED <<app, after, ctx, sendRet, apiVars, targetVars, poolVars, ioVars>>

(* The queue of the looper goes with it, the flags of the pool stay. *)
UnInitDelete ==
  /\ app = "close"
  /\ UvLoopClose
  /\ lost' = lost + Len(queue)
  /\ UNCHANGED <<app, after, ctx, sendRet, used, sends, apiVars, targetVars, ioVars>>

(* Mutant of UnInitCTX: udp_ctx_ is freed without waiting for the looper. *)
UnInitCTX_First ==
  /\ app = "close"
  /\ ctx' = FALSE
  /\ app' = IF owner # "none" THEN app ELSE IF after = "init" THEN "ctx" ELSE after
  /\ UNCHANGED <<looperVars, after, sendRet, apiVars, targetVars, poolVars, ioVars>>

(* Without a looper, or once it is deleted: DelUDPCTX, and on to what the *)
(* call does next.                                                        *)
UnInitCTX ==
  /\ app = "close"
  /\ owner = "none"
  /\ ctx' = FALSE
  /\ app' = IF after = "init" THEN "ctx" ELSE after
  /\ UNCHANGED <<looperVars, after, sendRet, apiVars, targetVars, poolVars, ioVars>>

-----------------------------------------------------------------------------
(* The application thread: the rest of Init.                                *)

Return(code) == app' = "idle" /\ initRet' = code

(* InitCTX, and the construction of the looper.  Without a looper InitLooper *)
(* returns 0 like with one, so Init goes on to BindSock; nor is a udp_ctx_   *)
(* that could not be allocated noticed.                                      *)
InitCTX ==
  /\ app = "ctx"
  /\ ctx' \in (IF Faults THEN BOOLEAN ELSE {TRUE})
  /\ \/ app' = "looper" /\ NewLooper
     \/ Faults /\ app' = "bind" /\ UNCHANGED looperVars
  /\ UNCHANGED <<after, sendRet, apiVars, targetVars, poolVars, ioVars>>

(* ptrLooper_->InitLooper(), whose result is dropped. *)
InitLooper ==
  /\ app = "looper"
  /\ InitLooperStep \/ InitLooperFails
  /\ UNCHANGED <<app, after, ctx, sendRet, apiVars, targetVars, poolVars, ioVars>>

(* Mutant of UvUdpInit: the handle is added while the looper still starts. *)
UvUdpInit_Early ==
  /\ AppGoto("looper", "bind")
  /\ SetUserHandle("none", "idle")
  /\ undefined' = (undefined \/ ~loopUp)
  /\ UNCHANGED <<owner, thr, flagVars, signal, queue, historyVars,
                 after, ctx, sendRet, apiVars, targetVars, poolVars, ioVars>>

(* uv_udp_init of udp_handle_, with a loop that uv_loop_init has to have set *)
(* up.  If it fails the handle stays as it is, and its result is dropped;    *)
(* without udp_ctx_ there is no handle to give to it.                        *)
UvUdpInit ==
  /\ app = "looper"
  /\ owner = "ready"
  /\ \/ /\ ctx
        /\ app' = "bind"
        /\ SetUserHandle("none", "idle") \/ (Faults /\ UNCHANGED handle)
        /\ undefined' = (undefined \/ ~loopUp)
        /\ UNCHANGED <<owner, thr, flagVars, signal, queue, historyVars>>
     \/ ~ctx /\ UsesUnset /\ UNCHANGED app
  /\ UNCHANGED <<after, ctx, sendRet, apiVars, targetVars, poolVars, ioVars>>

(* uv_udp_bind, which takes the handle for one that uv_udp_init has set up. *)
UvUdpBind ==
  \/ /\ handle["user"] # "none"
     /\ Return(2) \/ (app' = "cast" /\ UNCHANGED initRet)
     /\ UNCHANGED looperVars
  \/ UsesUnset /\ UNCHANGED <<app, initRet>>

Unbindable == param.dest = "zero" \/ param.ver = "other"

(* Mutant of BindSock: the address is left as it was. *)
BindSock_OldAddress ==
  /\ app = "bind"
  /\ \/ Unbindable /\ Return(2) /\ UNCHANGED looperVars
     \/ ~Unbindable /\ UvUdpBind
  /\ UNCHANGED <<after, ctx, sendRet, param, initNo, targetVars, poolVars, ioVars>>

(* BindSock: port 0 or a bad version is refused before the address of the   *)
(* family is written; uv_udp_bind may fail after.  What uv_ip4_addr and    *)
(* uv_ip6_addr return is overwritten, and never looked at.                 *)
BindSock ==
  /\ app = "bind"
  /\ \/ Unbindable /\ Return(2) /\ UNCHANGED <<address, looperVars>>
     \/ /\ ~Unbindable
        /\ address' = [address EXCEPT ![param.ver] = IF param.dest = "good" THEN initNo ELSE Nowhere]
        /\ UvUdpBind
  /\ UNCHANGED <<after, ctx, sendRet, param, initNo, ver, dispatch, notify, poolVars, ioVars>>

(* InitCastType: an unknown kind is refused; for broadcast and multicast a *)
(* socket option may fail.                                                 *)
InitCastType ==
  /\ app = "cast"
  /\ \/ param.cast # "uni" /\ Return(3)
     \/ param.cast # "none" /\ app' = "recv" /\ UNCHANGED initRet
  /\ UNCHANGED <<looperVars, after, ctx, sendRet, param, initNo, targetVars, poolVars, ioVars>>

(* uv_udp_recv_start, only if there is somebody to receive.  From here on   *)
(* the loop thread reads packets.                                           *)
RecvStart ==
  /\ app = "recv"
  /\ \/ ~param.recv /\ app' = "version" /\ UNCHANGED <<handle, initRet>>
     \/ param.recv /\ Return(5) /\ UNCHANGED handle
     \/ /\ param.recv
        /\ app' = "dispatch"
        /\ handle' = [handle EXCEPT !["user"] = "active"]
        /\ UNCHANGED initRet
  /\ UNCHANGED <<owner, thr, flagVars, signal, queue, historyVars, undefined,
                 after, ctx, sendRet, param, initNo, targetVars, poolVars, ioVars>>

(* Mutant of SetDispatch: a dispatcher already set is kept. *)
SetDispatch_KeepsOld ==
  /\ AppGoto("dispatch", "version")
  /\ dispatch' = IF dispatch = 0 THEN initNo ELSE dispatch
  /\ UNCHANGED <<looperVars, after, ctx, sendRet, apiVars, address, ver, notify, poolVars, ioVars>>

(* Only now is the dispatcher stored, and then the version: a packet that   *)
(* comes meanwhile is given to the old dispatcher or none, and what         *)
(* RecvData of the new one sends is sent with the version of before.        *)
SetDispatch ==
  /\ AppGoto("dispatch", "version")
  /\ dispatch' = initNo
  /\ UNCHANGED <<looperVars, after, ctx, sendRet, apiVars, address, ver, notify, poolVars, ioVars>>

(* Mutant of SetVersion: the version is not stored. *)
SetVersion_Not ==
  /\ AppGoto("version", "finish")
  /\ UNCHANGED <<looperVars, after, ctx, sendRet, apiVars, targetVars, poolVars, ioVars>>

SetVersion ==
  /\ AppGoto("version", "finish")
  /\ ver' = param.ver
  /\ UNCHANGED <<looperVars, after, ctx, sendRet, apiVars, address, dispatch, notify, poolVars, ioVars>>

(* The notifier, and the end of Init. *)
InitFinish ==
  /\ app = "finish"
  /\ Return(0)
  /\ notify' = IF param.notify THEN initNo ELSE 0
  /\ UNCHANGED <<looperVars, after, ctx, sendRet, param, initNo, address, ver, dispatch, poolVars, ioVars>>

-----------------------------------------------------------------------------
(* The application thread: Send, by the order of its tests.                 *)

(* The argument is too long (1) or null (5). *)
SendBadArgument ==
  /\ app = "idle"
  /\ sendRet' \in {1, 5}
  /\ UNCHANGED <<looperVars, app, after, ctx, apiVars, targetVars, poolVars, ioVars>>

(* There is no looper. *)
SendNoLooper ==
  /\ app = "idle"
  /\ owner = "none"
  /\ sendRet' = 2
  /\ UNCHANGED <<looperVars, app, after, ctx, apiVars, targetVars, poolVars, ioVars>>

(* EventBuf returns nullptr for an empty message, or for want of a buffer. *)
SendNoBuffer ==
  /\ app = "idle"
  /\ owner # "none"
  /\ sendRet' = 6
  /\ UNCHANGED <<looperVars, app, after, ctx, apiVars, targetVars, poolVars, ioVars>>

(* The rest of Send, on whichever thread: a buffer is taken before the      *)
(* version is looked at, and lost if that is none.                         *)
TakeBuffer ==
  /\ used < NumSlots /\ sends < MaxSends
  /\ used' = used + 1
  /\ sends' = sends + 1

LoseBuffer ==
  /\ TakeBuffer
  /\ ver = "other"
  /\ lost' = lost + 1
  /\ UNCHANGED <<signal, queue, undefined>>

(* The address of an event, as uv_udp_send will read it. *)
EventAddr(f) == IF f = "v4" THEN address[f] ELSE Cut(address[f])

(* Mutant of QueueEvent: a buffer is taken although none is free. *)
QueueEvent_NoCheck ==
  /\ sends < MaxSends
  /\ used' = used + 1
  /\ sends' = sends + 1
  /\ ver # "other"
  /\ PushEvent(EventAddr(ver))
  /\ UNCHANGED lost

(* The event is queued with the address of the family of socket_ver_. *)
QueueEvent ==
  /\ TakeBuffer
  /\ ver # "other"
  /\ PushEvent(EventAddr(ver))
  /\ UNCHANGED lost

SendBadVersion ==
  /\ app = "idle"
  /\ owner # "none"
  /\ LoseBuffer
  /\ sendRet' = 3
  /\ UNCHANGED <<owner, thr, flagVars, handle, historyVars, app, after, ctx, apiVars, targetVars, ioVars>>

SendQueued ==
  /\ app = "idle"
  /\ owner # "none"
  /\ QueueEvent
  /\ sendRet' = 0
  /\ UNCHANGED <<owner, thr, flagVars, handle, historyVars, app, after, ctx, apiVars, targetVars, ioVars>>

Send == SendBadArgument \/ SendNoLooper \/ SendNoBuffer \/ SendBadVersion \/ SendQueued

-----------------------------------------------------------------------------
(* The loop thread.                                                         *)

appVars == <<app, after, ctx, sendRet, apiVars, targetVars>>

(* WorkThread, uv_run and the callbacks of the async handles. *)
LoopRun == RunStep /\ UNCHANGED <<appVars, poolVars, ioVars>>

(* Mutant of DoEventSend: a send that fails keeps its slot. *)
DoEventSend_ErrorKeepsSlot ==
  /\ DoEvent
  /\ \/ used' = used - 1 /\ inflight' = inflight + 1
     \/ UNCHANGED <<used, inflight>>
  /\ UNCHANGED <<appVars, sends, lost, called>>

(* UDPImp::DoEvent: uv_udp_send with the one request, and the slot is free  *)
(* whether or not that succeeds.  An Init that failed can have left a handle *)
(* that uv_udp_init has not set up.                                         *)
DoEventSend ==
  \/ /\ handle["user"] # "none"
     /\ DoEvent
     /\ used' = used - 1
     /\ inflight' \in {inflight, inflight + 1}
     /\ UNCHANGED <<appVars, sends, lost, called>>
  \/ /\ thr = "draining"
     /\ queue # <<>>
     /\ UsesUnset
     /\ UNCHANGED <<appVars, poolVars, ioVars>>

(* An object of the application, if there is one, is called, and may in its *)
(* turn call Send.                                                         *)
Call(to, want) ==
  /\ called' = [to |-> to, want |-> want, done |-> initRet = 0]
  /\ \/ to # 0 /\ (LoseBuffer \/ QueueEvent)
     \/ UNCHANGED <<signal, queue, undefined, poolVars>>
  /\ UNCHANGED <<owner, thr, flagVars, handle, historyVars, appVars>>

(* UDPImp::AfterSend, for some of the overlapping uses of the request, also *)
(* those that the closing of the handle cancels.                           *)
AfterSend ==
  /\ thr = "polling"
  /\ \E k \in 1 .. inflight : inflight' = inflight - k
  /\ Call(notify, IF param.notify THEN initNo ELSE 0)

(* UDPImp::AfterRecv with nRead > 0: RecvData of the dispatcher there is, *)
(* and nothing if there is none.                                          *)
AfterRecv ==
  /\ thr = "polling"
  /\ handle["user"] = "active"
  /\ Call(dispatch, initNo)
  /\ UNCHANGED inflight

(* A handle is closed when its sends have been completed. *)
FinishClosing ==
  /\ UvFinishClosing
  /\ handle["user"] = "closing" => inflight = 0
  /\ UNCHANGED <<appVars, poolVars, ioVars>>

-----------------------------------------------------------------------------
(* The steps of a call that has begun. *)
AppStep ==
  \/ UnInitClose \/ UnInitJoin \/ UnInitDelete \/ UnInitCTX
  \/ InitCTX \/ InitLooper \/ UvUdpInit \/ BindSock \/ InitCastType \/ RecvStart
  \/ SetDispatch \/ SetVersion \/ InitFinish

LoopThread == LoopRun \/ DoEventSend \/ FinishClosing

Next ==
  /\ ~undefined
  /\ \/ NewUDP \/ InitCall \/ UnInit \/ Send
     \/ AppStep
     \/ LoopThread \/ AfterSend \/ AfterRecv

SafeSpec == Init /\ [][Next]_vars

(* Both threads are scheduled, libuv completes every send and an iteration  *)
(* of uv_run calls back every signalled handle; calls and packets come as  *)
(* they please.                                                            *)
Fairness ==
  /\ WF_vars(~undefined /\ AppStep)
  /\ WF_vars(~undefined /\ LoopThread)
  /\ SF_vars(~undefined /\ AsyncCB /\ LoopRun)
  /\ SF_vars(~undefined /\ AfterSend)

Spec == SafeSpec /\ Fairness

TypeOK ==
  /\ LooperTypeOK
  /\ app \in AppPC
  /\ after \in After
  /\ param \in Param
  /\ initNo \in 0 .. MaxInits
  /\ initRet \in {0, 2, 3, 5, NoRet}
  /\ ctx \in BOOLEAN
  /\ address \in [Family -> 0 .. MaxInits]
  /\ ver \in Version
  /\ dispatch \in 0 .. MaxInits
  /\ notify \in 0 .. MaxInits
  /\ used \in 0 .. NumSlots
  /\ inflight \in Nat
  /\ sendRet \in {0, 1, 2, 3, 5, 6, NoRet}
  /\ sends \in 0 .. MaxSends
  /\ lost \in 0 .. NumSlots
  /\ called \in [to : 0 .. MaxInits, want : 0 .. MaxInits, done : BOOLEAN]

-----------------------------------------------------------------------------
(* While the loop thread can still make a callback, the looper exists and   *)
(* the handle is not deleted, and so do the buffers and request of udp_ctx_ *)
(* if there is something for a callback to use them for: a handle in the    *)
(* loop, an event to send or a send to complete (UnInit, ~UDPImp).          *)
CallbacksHaveContext ==
  thr \notin {"none", "done"} =>
    /\ owner # "none" /\ app # "gone"
    /\ handle["user"] # "none" \/ queue # <<>> \/ inflight > 0 => ctx

(* A send in flight has its request and buffer, and none outlives UnInit.   *)
InflightHasContext == inflight > 0 => ctx /\ owner # "none"

(* The flags account for every buffer: in use are those of queued events    *)
(* and those lost with a deleted queue or a bad version, and no others; so  *)
(* no error of uv_udp_send and no failed Init costs a buffer.               *)
PoolAccounts == used = Len(queue) + lost

(* After a successful Init for IPv4 messages go to the destination of that  *)
(* Init, whatever Inits came before it and however they ended (BindSock,    *)
(* SetVersion, Send).                                                       *)
Queues(v) == initRet = 0 /\ param.ver = v /\ param.dest = "good" /\ Len(queue') > Len(queue)
QueuedWhereInitSaid == Queues("v4") => queue'[Len(queue')] = initNo
SentWhereInitSaid == [][QueuedWhereInitSaid]_vars

(* Once Init has succeeded, packets and reports go to the objects that Init *)
(* named, or to nobody if it named none, never to those of an earlier one   *)
(* (AfterRecv, AfterSend, Init).                                            *)
CallbacksGoToLastInit == called.done => called.to = called.want

(* "3 - the socket_ver of Init was wrong" (icommonunication.h, Send): after *)
(* a successful Init no Send is refused for its version or for want of a    *)
(* looper, whatever was left by earlier Inits.                              *)
InitServesSend == initRet = 0 => sendRet \notin {2, 3}

(* Towards CLooper the handle is an owner as module Looper describes it:    *)
(* it touches the loop only between InitLooper and Close, and destroys only *)
(* what it has closed.  What is proved of every owner holds of this one.    *)
OwnsLooperProperly == LooperSafeSpec

(* Every call of UnInit, DeleteUDP and Init returns (Close, ~CLooper).      *)
CallsReturn == app \notin {"idle", "gone"} ~> app \in {"idle", "gone"} \/ undefined

(* What was queued while the loop is served is sent, or the handle is shut  *)
(* down meanwhile (PushEvent, DoEvent).                                     *)
QueuedIsSent ==
  served /\ queue # <<>> /\ app = "idle" ~> queue = <<>> \/ app = "close" \/ undefined

-----------------------------------------------------------------------------
(* Both IPv4 and IPv6 are supported, and IPv6 for receiving and sending     *)
(* (README.md:8, 139-141): messages go where an Init for IPv6 said, too.    *)
SentToIPv6 == [][Queues("v6") => queue'[Len(queue')] = initNo]_vars
=============================================================================
