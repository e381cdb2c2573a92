-------------------------------- MODULE Looper --------------------------------
(***************************************************************************)
(* uv::CLooper (Looper.cc): a libuv loop, the thread that runs it, the two *)
(* async handles through which other threads reach that thread, and the    *)
(* queue of events for it.                                                 *)
(*                                                                         *)
(* Two threads act.  The owner constructs the looper, starts it with       *)
(* InitLooper, adds a handle of its own to the loop, pushes events, and    *)
(* closes and deletes the looper; the loop thread is created by InitLooper *)
(* and runs uv_run.  libuv itself is modelled from how it is used here:    *)
(* uv_run returns as soon as no handle keeps the loop alive, and runs the  *)
(* callbacks of the async handles and of the handles being closed.         *)
(*                                                                         *)
(* The steps of the owner take part in a larger program: UDPImp composes   *)
(* them with its own.  LooperSpec is the looper under the most general     *)
(* owner.                                                                  *)
(***************************************************************************)
EXTENDS Naturals, Sequences

CONSTANTS
  Event,       (* what can be pushed                                       *)
  MaxQueue,    (* bound on the events an owner has queued at once          *)
  MaxLoopers,  (* bound on the loopers constructed one after the other     *)
  Faults       (* whether allocations, and calls of libuv that set up a    *)
               (* loop or a handle, may fail                               *)

ASSUME LooperAssumption ==
  /\ MaxQueue \in Nat
  /\ MaxLoopers \in Nat
  /\ Faults \in BOOLEAN

Handle == {"close", "event", "user"}   (* _async_looper_close,                *)
                                       (* _async_event_handle, the owner's    *)
Own == {"close", "event"}

VARIABLES
  owner,      (* where the owner is in the life of the looper               *)
  thr,        (* where the loop thread is                                   *)
  inited,     (* _inited                                                    *)
  isClosed,   (* _is_closed                                                 *)
  handle,     (* the state of each handle in the loop                       *)
  signal,     (* the async handles signalled and not yet called back        *)
  queue,      (* _event_queue                                               *)
  served,     (* history: uv_run found the loop alive                       *)
  initOK,     (* history: what InitLooper returned                          *)
  loopUp,     (* history: uv_loop_init succeeded                            *)
  undefined,  (* history: a member was used before it was initialised       *)
  loopers     (* loopers constructed so far                                 *)

flagVars == <<inited, isClosed>>
loopVars == <<handle, signal, queue>>
historyVars == <<served, initOK, loopUp, loopers>>
looperVars == <<owner, thr, flagVars, loopVars, historyVars, undefined>>

OwnerPC == {"none", "new", "loop", "thread", "async", "wait", "ready", "join", "unloop"}
ThreadPC == {"none", "created", "inited", "polling", "draining", "left", "done"}
HandleState == {"none", "idle", "active", "closing", "closed"}

LooperInit ==
  /\ owner = "none"
  /\ thr = "none"
  /\ inited = FALSE
  /\ isClosed = FALSE
  /\ handle = [h \in Handle |-> "none"]
  /\ signal = {}
  /\ queue = <<>>
  /\ served = FALSE
  /\ initOK = FALSE
  /\ loopUp = FALSE
  /\ undefined = FALSE
  /\ loopers = 0

OwnerGoto(from, to) == owner = from /\ owner' = to

-----------------------------------------------------------------------------
(* The owner: construction and InitLooper.                                  *)

(* new CLooper *)
NewLooper ==
  /\ OwnerGoto("none", "new")
  /\ loopers < MaxLoopers
  /\ loopers' = loopers + 1
  /\ thr' = "none"
  /\ inited' = FALSE
  /\ isClosed' = FALSE
  /\ handle' = [h \in Handle |-> "none"]
  /\ signal' = {}
  /\ queue' = <<>>
  /\ served' = FALSE
  /\ initOK' = FALSE
  /\ loopUp' = FALSE
  /\ UNCHANGED undefined

(* InitLooper gives up at its current step and returns false. *)
InitLooperFails ==
  /\ Faults
  /\ owner \in {"new", "loop", "thread", "async"}
  /\ owner' = "ready"
  /\ UNCHANGED <<thr, flagVars, loopVars, undefined, historyVars>>

UvLoopInit ==
  /\ OwnerGoto("new", "loop")
  /\ loopUp' = TRUE
  /\ UNCHANGED <<thr, flagVars, loopVars, served, initOK, undefined, loopers>>

UvThreadCreate ==
  /\ OwnerGoto("loop", "thread")
  /\ thr' = "created"
  /\ UNCHANGED <<flagVars, loopVars, undefined, historyVars>>

(* uv_async_init of _async_looper_close.  The loop thread may already be *)
(* inside uv_run, or have left it.                                       *)
UvAsyncInitClose ==
  /\ OwnerGoto("thread", "async")
  /\ handle' = [handle EXCEPT !["close"] = "active"]
  /\ UNCHANGED <<thr, flagVars, signal, queue, undefined, historyVars>>

UvAsyncInitEvent ==
  /\ OwnerGoto("async", "wait")
  /\ handle' = [handle EXCEPT !["event"] = "active"]
  /\ UNCHANGED <<thr, flagVars, signal, queue, undefined, historyVars>>

(* InitLooper sleeps until the loop thread has set _inited. *)
WaitInited ==
  /\ OwnerGoto("wait", "ready")
  /\ inited
  /\ initOK' = TRUE
  /\ UNCHANGED <<thr, flagVars, loopVars, served, undefined, loopUp, loopers>>

InitLooperStep ==
  UvLoopInit \/ UvThreadCreate \/ UvAsyncInitClose \/ UvAsyncInitEvent \/ WaitInited

-----------------------------------------------------------------------------
(* The owner: use and destruction.                                          *)

(* The owner adds a handle to GetLooper(), or makes it active there. *)
SetUserHandle(from, to) ==
  /\ handle["user"] = from
  /\ handle' = [handle EXCEPT !["user"] = to]

(* Mutant of PushEvent: the loop is not signalled. *)
PushEvent_NoSignal(e) ==
  /\ thr # "draining"
  /\ queue' = Append(queue, e)
  /\ UNCHANGED <<signal, undefined>>

(* PushEvent holds the mutex that DoEvent holds while it drains the queue.  *)
(* uv_async_send is for a handle that is initialised and not being closed. *)
PushEvent(e) ==
  /\ thr # "draining"
  /\ queue' = Append(queue, e)
  /\ signal' = signal \cup {"event"}
  /\ undefined' = (undefined \/ handle["event"] # "active")

(* Mutant of Close: the flag is set but the loop is not signalled. *)
Close_NoSignal ==
  /\ OwnerGoto("ready", "join")
  /\ isClosed' = TRUE
  /\ UNCHANGED <<signal, undefined, thr, inited, handle, queue, historyVars>>

(* Close, and the Close of the destructor, which finds _is_closed set. *)
Close ==
  /\ OwnerGoto("ready", "join")
  /\ isClosed' = TRUE
  /\ IF isClosed
       THEN UNCHANGED <<signal, undefined>>
       ELSE /\ signal' = signal \cup {"close"}
            /\ undefined' = (undefined \/ handle["close"] = "none")
  /\ UNCHANGED <<thr, inited, handle, queue, historyVars>>

(* Mutant of Join: the destructor does not wait for the loop thread. *)
Join_NoWait ==
  /\ OwnerGoto("join", "unloop")
  /\ UNCHANGED <<undefined, thr, flagVars, loopVars, historyVars>>

(* uv_thread_join in the destructor: waits for the end of the loop thread, *)
(* which there must be.                                                    *)
Join ==
  /\ OwnerGoto("join", "unloop")
  /\ thr \in {"none", "done"}
  /\ undefined' = (undefined \/ thr = "none")
  /\ UNCHANGED <<thr, flagVars, loopVars, historyVars>>

(* uv_loop_close, whose result is ignored, and the end of the object: its *)
(* queue and its handles go with it, and the loop the owner's was in.     *)
UvLoopClose ==
  /\ OwnerGoto("unloop", "none")
  /\ handle' = [h \in Handle |-> "none"]
  /\ signal' = {}
  /\ queue' = <<>>
  /\ UNCHANGED <<thr, flagVars, undefined, historyVars>>

DestroyStep == Join \/ UvLoopClose

-----------------------------------------------------------------------------
(* The loop thread.                                                         *)

ThreadGoto(from, to) == thr = from /\ thr' = to

(* uv__loop_alive: some handle is active or has yet to be closed. *)
Alive == \E h \in Handle : handle[h] \in {"active", "closing"}

(* Mutant of WorkThread: _inited is not set. *)
WorkThread_NotInited ==
  /\ ThreadGoto("created", "inited")
  /\ UNCHANGED <<inited, owner, isClosed, loopVars, undefined, historyVars>>

(* WorkThread announces itself and goes on to run(). *)
WorkThread ==
  /\ ThreadGoto("created", "inited")
  /\ inited' = TRUE
  /\ UNCHANGED <<owner, isClosed, loopVars, undefined, historyVars>>

(* uv_run looks for a live handle before its first iteration. *)
RunEnter ==
  /\ thr = "inited"
  /\ thr' = IF Alive THEN "polling" ELSE "left"
  /\ served' = Alive
  /\ UNCHANGED <<owner, flagVars, loopVars, initOK, undefined, loopUp, loopers>>

(* Mutant of AsyncCB: the walk closes only the looper's own handles. *)
AsyncCB_OwnOnly ==
  /\ thr = "polling"
  /\ "close" \in signal
  /\ signal' = signal \ {"close"}
  /\ handle' = [h \in Handle |->
                  IF h \in Own /\ handle[h] \in {"idle", "active"} THEN "closing" ELSE handle[h]]
  /\ UNCHANGED <<owner, thr, flagVars, queue, undefined, historyVars>>

(* AsyncCB walks the loop and CloseWalkCB closes every handle that is not  *)
(* already closing: its own directly, the owner's through OnHandleClose.   *)
AsyncCB ==
  /\ thr = "polling"
  /\ "close" \in signal
  /\ signal' = signal \ {"close"}
  /\ handle' = [h \in Handle |->
                  IF handle[h] \in {"idle", "active"} THEN "closing" ELSE handle[h]]
  /\ UNCHANGED <<owner, thr, flagVars, queue, undefined, historyVars>>

(* AsyncEvent is called if its handle is not being closed; it takes the *)
(* mutex of the queue.                                                  *)
AsyncEvent ==
  /\ ThreadGoto("polling", "draining")
  /\ "event" \in signal
  /\ handle["event"] = "active"
  /\ signal' = signal \ {"event"}
  /\ UNCHANGED <<owner, flagVars, handle, queue, undefined, historyVars>>

(* One iteration of DoEvent: the front event is given to its client and *)
(* removed.                                                             *)
DoEvent ==
  /\ thr = "draining"
  /\ queue # <<>>
  /\ queue' = Tail(queue)
  /\ UNCHANGED <<owner, thr, flagVars, handle, signal, undefined, historyVars>>

DoEventDone ==
  /\ ThreadGoto("draining", "polling")
  /\ queue = <<>>
  /\ UNCHANGED <<owner, flagVars, loopVars, undefined, historyVars>>

(* libuv finishes the closing of handles at the end of an iteration. *)
UvFinishClosing ==
  /\ thr = "polling"
  /\ \E h \in Handle : handle[h] = "closing"
  /\ handle' = [h \in Handle |-> IF handle[h] = "closing" THEN "closed" ELSE handle[h]]
  /\ UNCHANGED <<owner, thr, flagVars, signal, queue, undefined, historyVars>>

(* uv_run returns when nothing keeps the loop alive. *)
RunLeave ==
  /\ ThreadGoto("polling", "left")
  /\ ~Alive
  /\ UNCHANGED <<owner, flagVars, loopVars, undefined, historyVars>>

(* run() sets _is_closed and the thread ends. *)
RunReturn ==
  /\ ThreadGoto("left", "done")
  /\ isClosed' = TRUE
  /\ UNCHANGED <<owner, inited, loopVars, undefined, historyVars>>

RunStep == WorkThread \/ RunEnter \/ AsyncCB \/ AsyncEvent \/ DoEventDone \/ RunLeave \/ RunReturn

-----------------------------------------------------------------------------
(* The looper under the most general owner. *)

OwnerUses ==
  /\ owner = "ready"
  /\ \/ /\ SetUserHandle("none", "idle")
        /\ undefined' = (undefined \/ ~loopUp)
        /\ UNCHANGED <<signal, queue>>
     \/ /\ SetUserHandle("idle", "active")
        /\ UNCHANGED <<signal, queue, undefined>>
     \/ /\ Len(queue) < MaxQueue
        /\ \E e \in Event : PushEvent(e)
        /\ UNCHANGED handle
  /\ UNCHANGED <<owner, thr, flagVars, historyVars>>

(* A callback of the owner's handle, on the loop thread, may push too, also *)
(* while the owner waits for the thread to end.                            *)
CallbackUses ==
  /\ thr = "polling"
  /\ owner \in {"ready", "join"}
  /\ Len(queue) < MaxQueue
  /\ \E e \in Event : PushEvent(e)
  /\ UNCHANGED <<owner, thr, flagVars, handle, historyVars>>

(* libuv did not set up the handle of the owner, who, or a callback of whom, *)
(* uses it all the same.                                                    *)
UsesUnset ==
  /\ Faults
  /\ handle["user"] = "none"
  /\ undefined' = TRUE
  /\ UNCHANGED <<owner, thr, flagVars, loopVars, historyVars>>

LooperNext ==
  /\ ~undefined
  /\ \/ NewLooper \/ InitLooperStep \/ InitLooperFails \/ OwnerUses \/ UsesUnset
     \/ Close \/ DestroyStep
     \/ RunStep \/ DoEvent \/ UvFinishClosing \/ CallbackUses

(* Both threads are scheduled; the owner may keep the looper for ever.  An  *)
(* iteration of uv_run calls back every signalled handle, so the drains of *)
(* the queue do not keep AsyncCB waiting.                                  *)
LooperFairness ==
  /\ WF_looperVars(~undefined /\ InitLooperStep)
  /\ WF_looperVars(~undefined /\ DestroyStep)
  /\ WF_looperVars(~undefined /\ (RunStep \/ DoEvent \/ UvFinishClosing))
  /\ SF_looperVars(~undefined /\ AsyncCB)

LooperSafeSpec == LooperInit /\ [][LooperNext]_looperVars

LooperSpec == LooperSafeSpec /\ LooperFairness

LooperTypeOK ==
  /\ owner \in OwnerPC
  /\ thr \in ThreadPC
  /\ inited \in BOOLEAN
  /\ isClosed \in BOOLEAN
  /\ handle \in [Handle -> HandleState]
  /\ signal \subseteq Own
  /\ queue \in Seq(Event)
  /\ served \in BOOLEAN
  /\ initOK \in BOOLEAN
  /\ loopUp \in BOOLEAN
  /\ undefined \in BOOLEAN
  /\ loopers \in 0 .. MaxLoopers

-----------------------------------------------------------------------------
(* The loop thread never outlives the looper: wherever it still has to      *)
(* touch the loop, the mutex or _is_closed, the object exists (~CLooper).   *)
NoUseAfterFree == thr \notin {"none", "done"} => owner # "none"

(* A loop that was served is empty when it is closed: uv_run came back      *)
(* only after every handle of the looper and of its owner was closed, so    *)
(* the ignored result of uv_loop_close is success (AsyncCB, CloseWalkCB).   *)
NothingLeftOpen ==
  owner = "unloop" /\ served /\ ~undefined => \A h \in Handle : handle[h] \in {"none", "closed"}

(* A signal of Close is not lost, even one sent before uv_run was entered:  *)
(* until the thread has left uv_run the signal is pending or the walk has   *)
(* closed the handles.                                                      *)
CloseIsHeard ==
  owner = "join" /\ ~undefined /\ thr \in {"created", "inited", "polling", "draining"} =>
    "close" \in signal \/ \A h \in Handle : handle[h] \in {"none", "closing", "closed"}

(* Unless an allocation or libuv fails, the owner uses nothing that is not  *)
(* there: only a callback that pushes while the looper is being destroyed  *)
(* signals a handle it may not (InitLooper, Close, PushEvent).             *)
UsesOnlyStarted == undefined => Faults \/ owner = "join"

(* The destructor returns (Close, WorkThread, ~CLooper). *)
DestructorReturns == owner = "join" ~> owner = "none" \/ undefined

(* InitLooper returns (WorkThread, InitLooper). *)
InitLooperReturns == owner = "new" ~> owner = "ready" \/ undefined

-----------------------------------------------------------------------------
(* "connect thread, run until use close the client" (Looper.h:28): the      *)
(* thread of a looper that InitLooper started is in uv_run until Close.     *)
LoopRunsUntilClose ==
  owner = "ready" /\ initOK => thr \notin {"left", "done"}
=============================================================================
