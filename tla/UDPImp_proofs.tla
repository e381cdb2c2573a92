----------------------------- MODULE UDPImp_proofs -----------------------------
(***************************************************************************)
(* Theorems about modules Looper, UDPImp and Example, for any number of    *)
(* Inits, sends and buffers, and whether or not libuv fails while a looper *)
(* starts.                                                                 *)
(*                                                                         *)
(* The invariant LooperInv holds for every owner that uses a CLooper as    *)
(* LooperNext allows, any number of loopers one after the other.  The      *)
(* handle is such an owner: every step of it keeps LooperInv (MapStep),    *)
(* and the invariant of the handle builds on it.                           *)
(***************************************************************************)
EXTENDS Example, SequenceTheorems, TLAPS

(* The life of a looper before its Close, and after. *)
Before == {"new", "loop", "thread", "async", "wait", "ready"}
AfterClose == {"join", "unloop"}

InRun == {"polling", "draining"}          (* inside uv_run          *)
Ended == {"none", "done"}                 (* no thread, or finished *)

(* No handle is left to close, or every handle has been closed. *)
Walked == \A h \in Handle : handle[h] \in {"none", "closing", "closed"}
AllClosed == \A h \in Handle : handle[h] \in {"none", "closed"}

(* The thread begins after uv_loop_init and ends before the object does. *)
ThreadLife ==
  /\ owner \in {"new", "loop"} => thr = "none"
  /\ owner \in {"unloop", "none"} => thr \in Ended

(* Before Close nothing is closed, and uv_run does not return once it has *)
(* found the loop alive.                                                  *)
BeforeClose ==
  owner \in Before =>
    /\ \A h \in Handle : handle[h] \in {"none", "idle", "active"}
    /\ handle["close"] # "idle"
    /\ "close" \notin signal
    /\ isClosed => thr = "done"
    /\ thr \in InRun => Alive
    /\ served => thr \in InRun

(* After a Close that touched only initialised handles, the signal waits   *)
(* for AsyncCB on a handle that keeps the loop alive, or the walk is done. *)
Closing ==
  owner \in AfterClose /\ ~undefined =>
    /\ "close" \in signal => handle["close"] = "active"
    /\ thr \in {"created", "inited"} \cup InRun => "close" \in signal \/ Walked
    /\ served => thr \in InRun \cup {"left", "done"}
    /\ served /\ thr \in {"left", "done"} => AllClosed

(* If nothing fails, each step of InitLooper has made what the steps *)
(* after it use, and it is there until Close.                              *)
Started ==
  ~Faults =>
    /\ owner \in {"loop", "thread", "async", "wait", "ready"} => loopUp
    /\ owner \in {"thread", "async", "wait", "ready", "join"} => thr # "none"
    /\ owner \in {"async", "wait", "ready"} => handle["close"] = "active"
    /\ owner \in {"wait", "ready"} => handle["event"] = "active"
    /\ undefined => owner = "join"

LooperInv == LooperTypeOK /\ ThreadLife /\ BeforeClose /\ Closing /\ Started

LEMMA LooperInvInit == LooperInit => LooperInv
  <1> SUFFICES ASSUME LooperInit PROVE LooperInv
    OBVIOUS
  <1>1. inited \in BOOLEAN /\ isClosed \in BOOLEAN /\ served \in BOOLEAN /\ initOK \in BOOLEAN
        /\ loopUp \in BOOLEAN /\ undefined \in BOOLEAN
    BY DEF LooperInit
  <1>2. queue \in Seq(Event)
    BY EmptySeq DEF LooperInit
  <1>3. loopers \in 0 .. MaxLoopers
    BY LooperAssumption DEF LooperInit
  <1>4. handle \in [Handle -> HandleState] /\ signal \subseteq Own /\ owner \in OwnerPC
        /\ thr \in ThreadPC
    BY DEF LooperInit, HandleState, OwnerPC, ThreadPC
  <1>5. LooperTypeOK
    BY <1>1, <1>2, <1>3, <1>4 DEF LooperTypeOK
  <1>6. ThreadLife /\ BeforeClose /\ Closing /\ Started
    BY DEF LooperInit, ThreadLife, BeforeClose, Closing, Started, Before, AfterClose, Ended
  <1>. QED  BY <1>5, <1>6 DEF LooperInv

(* The types of the flags and histories, apart from the rest. *)
BoolsOK ==
  /\ inited \in BOOLEAN
  /\ isClosed \in BOOLEAN
  /\ served \in BOOLEAN
  /\ initOK \in BOOLEAN
  /\ loopUp \in BOOLEAN
  /\ undefined \in BOOLEAN

RestOK ==
  /\ owner \in OwnerPC
  /\ thr \in ThreadPC
  /\ handle \in [Handle -> HandleState]
  /\ signal \subseteq Own
  /\ loopers \in 0 .. MaxLoopers

LEMMA BoolStep == BoolsOK /\ [LooperNext]_looperVars => BoolsOK'
  <1> SUFFICES ASSUME BoolsOK, [LooperNext]_looperVars PROVE BoolsOK'
    OBVIOUS
  <1> USE DEF BoolsOK, flagVars, loopVars, historyVars, OwnerGoto, ThreadGoto
  <1>1. CASE InitLooperStep \/ InitLooperFails
    BY <1>1 DEF InitLooperStep, InitLooperFails, UvLoopInit, UvThreadCreate, UvAsyncInitClose,
       UvAsyncInitEvent, WaitInited
  <1>2. CASE NewLooper
    BY <1>2 DEF NewLooper
  <1>3. CASE OwnerUses \/ CallbackUses \/ UsesUnset
    BY <1>3 DEF OwnerUses, CallbackUses, UsesUnset, SetUserHandle, PushEvent
  <1>4. CASE Close \/ DestroyStep
    BY <1>4 DEF Close, DestroyStep, Join, UvLoopClose
  <1>5. CASE RunStep
    BY <1>5 DEF RunStep, WorkThread, RunEnter, AsyncCB, AsyncEvent, DoEventDone, RunLeave, RunReturn, Alive
  <1>6. CASE DoEvent \/ UvFinishClosing
    BY <1>6 DEF DoEvent, UvFinishClosing
  <1>7. CASE UNCHANGED looperVars
    BY <1>7 DEF looperVars
  <1>. QED
    BY <1>1, <1>2, <1>3, <1>4, <1>5, <1>6, <1>7 DEF LooperNext

LEMMA QueueStep == queue \in Seq(Event) /\ [LooperNext]_looperVars => queue' \in Seq(Event)
  <1> SUFFICES ASSUME queue \in Seq(Event), [LooperNext]_looperVars PROVE queue' \in Seq(Event)
    OBVIOUS
  <1> USE DEF flagVars, loopVars, historyVars, OwnerGoto, ThreadGoto
  <1>1. CASE InitLooperStep \/ InitLooperFails
    BY <1>1 DEF InitLooperStep, InitLooperFails, UvLoopInit, UvThreadCreate, UvAsyncInitClose,
       UvAsyncInitEvent, WaitInited
  <1>2. CASE NewLooper
    BY <1>2, EmptySeq DEF NewLooper
  <1>3. CASE OwnerUses \/ CallbackUses \/ UsesUnset
    BY <1>3, AppendProperties DEF OwnerUses, CallbackUses, UsesUnset, PushEvent
  <1>4. CASE Close \/ DestroyStep
    BY <1>4, EmptySeq DEF Close, DestroyStep, Join, UvLoopClose
  <1>5. CASE RunStep
    BY <1>5 DEF RunStep, WorkThread, RunEnter, AsyncCB, AsyncEvent, DoEventDone, RunLeave, RunReturn, Alive
  <1>6. CASE DoEvent \/ UvFinishClosing
    BY <1>6, HeadTailProperties DEF DoEvent, UvFinishClosing
  <1>7. CASE UNCHANGED looperVars
    BY <1>7 DEF looperVars
  <1>. QED
    BY <1>1, <1>2, <1>3, <1>4, <1>5, <1>6, <1>7 DEF LooperNext

LEMMA RestStep == RestOK /\ [LooperNext]_looperVars => RestOK'
  <1> SUFFICES ASSUME RestOK, [LooperNext]_looperVars PROVE RestOK'
    OBVIOUS
  <1> USE LooperAssumption
          DEF RestOK, OwnerPC, ThreadPC, HandleState, Handle, Own, flagVars, loopVars,
              historyVars, OwnerGoto, ThreadGoto
  <1>1. CASE InitLooperStep \/ InitLooperFails
    BY <1>1 DEF InitLooperStep, InitLooperFails, UvLoopInit, UvThreadCreate, UvAsyncInitClose,
       UvAsyncInitEvent, WaitInited
  <1>2. CASE NewLooper
    BY <1>2 DEF NewLooper
  <1>3. CASE OwnerUses \/ CallbackUses \/ UsesUnset
    BY <1>3 DEF OwnerUses, CallbackUses, UsesUnset, SetUserHandle, PushEvent
  <1>4. CASE Close \/ DestroyStep
    BY <1>4 DEF Close, DestroyStep, Join, UvLoopClose
  <1>5. CASE RunStep
    BY <1>5 DEF RunStep, WorkThread, RunEnter, AsyncCB, AsyncEvent, DoEventDone, RunLeave, RunReturn, Alive
  <1>6. CASE DoEvent \/ UvFinishClosing
    BY <1>6 DEF DoEvent, UvFinishClosing
  <1>7. CASE UNCHANGED looperVars
    BY <1>7 DEF looperVars
  <1>. QED
    BY <1>1, <1>2, <1>3, <1>4, <1>5, <1>6, <1>7 DEF LooperNext

LEMMA TypeStep == LooperTypeOK /\ [LooperNext]_looperVars => LooperTypeOK'
  BY BoolStep, QueueStep, RestStep DEF LooperTypeOK, BoolsOK, RestOK

LEMMA ThreadLifeStep == LooperInv /\ [LooperNext]_looperVars => ThreadLife'
  <1> SUFFICES ASSUME LooperInv, [LooperNext]_looperVars PROVE ThreadLife'
    OBVIOUS
  <1> USE DEF LooperInv, ThreadLife, BeforeClose, Closing, Alive, LooperNext,
              LooperTypeOK, Before, AfterClose, InRun, Ended, Walked, AllClosed,
              Handle, Own, HandleState, flagVars, loopVars, historyVars, OwnerGoto, ThreadGoto
  <1>1. CASE InitLooperStep \/ InitLooperFails
    BY <1>1 DEF InitLooperStep, InitLooperFails, UvLoopInit, UvThreadCreate, UvAsyncInitClose,
       UvAsyncInitEvent, WaitInited
  <1>2. CASE NewLooper
    BY <1>2 DEF NewLooper
  <1>3. CASE OwnerUses \/ CallbackUses \/ UsesUnset
    BY <1>3 DEF OwnerUses, CallbackUses, UsesUnset, SetUserHandle, PushEvent
  <1>4. CASE Close \/ DestroyStep
    BY <1>4 DEF Close, DestroyStep, Join, UvLoopClose
  <1>5. CASE RunStep
    BY <1>5 DEF RunStep, WorkThread, RunEnter, AsyncCB, AsyncEvent, DoEventDone, RunLeave, RunReturn, Alive
  <1>6. CASE DoEvent \/ UvFinishClosing
    BY <1>6 DEF DoEvent, UvFinishClosing
  <1>7. CASE UNCHANGED looperVars
    BY <1>7 DEF looperVars
  <1>. QED
    BY <1>1, <1>2, <1>3, <1>4, <1>5, <1>6, <1>7 DEF LooperNext

LEMMA BeforeCloseStep == LooperInv /\ [LooperNext]_looperVars => BeforeClose'
  <1> SUFFICES ASSUME LooperInv, [LooperNext]_looperVars PROVE BeforeClose'
    OBVIOUS
  <1> USE DEF LooperInv, ThreadLife, BeforeClose, Closing, Alive, LooperNext,
              LooperTypeOK, Before, AfterClose, InRun, Ended, Walked, AllClosed,
              Handle, Own, HandleState, flagVars, loopVars, historyVars, OwnerGoto, ThreadGoto
  <1>1. CASE InitLooperStep \/ InitLooperFails
    BY <1>1 DEF InitLooperStep, InitLooperFails, UvLoopInit, UvThreadCreate, UvAsyncInitClose,
       UvAsyncInitEvent, WaitInited
  <1>2. CASE NewLooper
    BY <1>2 DEF NewLooper
  <1>3. CASE OwnerUses \/ CallbackUses \/ UsesUnset
    BY <1>3 DEF OwnerUses, CallbackUses, UsesUnset, SetUserHandle, PushEvent
  <1>4. CASE Close \/ DestroyStep
    BY <1>4 DEF Close, DestroyStep, Join, UvLoopClose
  <1>5. CASE RunStep
    BY <1>5 DEF RunStep, WorkThread, RunEnter, AsyncCB, AsyncEvent, DoEventDone, RunLeave, RunReturn, Alive
  <1>6. CASE DoEvent \/ UvFinishClosing
    BY <1>6 DEF DoEvent, UvFinishClosing
  <1>7. CASE UNCHANGED looperVars
    BY <1>7 DEF looperVars
  <1>. QED
    BY <1>1, <1>2, <1>3, <1>4, <1>5, <1>6, <1>7 DEF LooperNext

LEMMA ClosingStep == LooperInv /\ [LooperNext]_looperVars => Closing'
  <1> SUFFICES ASSUME LooperInv, [LooperNext]_looperVars PROVE Closing'
    OBVIOUS
  <1> USE DEF LooperInv, ThreadLife, BeforeClose, Closing, Alive, LooperNext,
              LooperTypeOK, Before, AfterClose, InRun, Ended, Walked, AllClosed,
              Handle, Own, HandleState, flagVars, loopVars, historyVars, OwnerGoto, ThreadGoto
  <1>1. CASE InitLooperStep \/ InitLooperFails
    BY <1>1 DEF InitLooperStep, InitLooperFails, UvLoopInit, UvThreadCreate, UvAsyncInitClose,
       UvAsyncInitEvent, WaitInited
  <1>2. CASE NewLooper
    BY <1>2 DEF NewLooper
  <1>3. CASE OwnerUses \/ CallbackUses \/ UsesUnset
    BY <1>3 DEF OwnerUses, CallbackUses, UsesUnset, SetUserHandle, PushEvent
  <1>4. CASE Close \/ DestroyStep
    BY <1>4 DEF Close, DestroyStep, Join, UvLoopClose
  <1>5. CASE RunStep
    BY <1>5 DEF RunStep, WorkThread, RunEnter, AsyncCB, AsyncEvent, DoEventDone, RunLeave, RunReturn, Alive
  <1>6. CASE DoEvent \/ UvFinishClosing
    BY <1>6 DEF DoEvent, UvFinishClosing
  <1>7. CASE UNCHANGED looperVars
    BY <1>7 DEF looperVars
  <1>. QED
    BY <1>1, <1>2, <1>3, <1>4, <1>5, <1>6, <1>7 DEF LooperNext

LEMMA StartedStep == LooperInv /\ [LooperNext]_looperVars => Started'
  <1> SUFFICES ASSUME LooperInv, [LooperNext]_looperVars PROVE Started'
    OBVIOUS
  <1> USE DEF LooperInv, ThreadLife, BeforeClose, Started, Alive, LooperNext,
              LooperTypeOK, Before, AfterClose, InRun, Ended, Walked, AllClosed,
              Handle, Own, HandleState, flagVars, loopVars, historyVars, OwnerGoto, ThreadGoto
  <1>1. CASE InitLooperStep \/ InitLooperFails
    BY <1>1 DEF InitLooperStep, InitLooperFails, UvLoopInit, UvThreadCreate, UvAsyncInitClose,
       UvAsyncInitEvent, WaitInited
  <1>2. CASE NewLooper
    BY <1>2 DEF NewLooper
  <1>3. CASE OwnerUses \/ CallbackUses \/ UsesUnset
    BY <1>3 DEF OwnerUses, CallbackUses, UsesUnset, SetUserHandle, PushEvent
  <1>4. CASE Close \/ DestroyStep
    <2>1. CASE UNCHANGED looperVars
      BY <2>1 DEF looperVars
    <2>2. CASE ~undefined
      <3>1. CASE Close
        BY <2>2, <3>1 DEF Close
      <3>2. CASE Join \/ UvLoopClose
        BY <2>2, <3>2 DEF Join, UvLoopClose
      <3>. QED  BY <1>4, <3>1, <3>2 DEF DestroyStep
    <2>. QED  BY <2>1, <2>2
  <1>5. CASE RunStep
    BY <1>5 DEF RunStep, WorkThread, RunEnter, AsyncCB, AsyncEvent, DoEventDone, RunLeave, RunReturn, Alive
  <1>6. CASE DoEvent \/ UvFinishClosing
    BY <1>6 DEF DoEvent, UvFinishClosing
  <1>7. CASE UNCHANGED looperVars
    BY <1>7 DEF looperVars
  <1>. QED
    BY <1>1, <1>2, <1>3, <1>4, <1>5, <1>6, <1>7 DEF LooperNext

LEMMA LooperInvStep == LooperInv /\ [LooperNext]_looperVars => LooperInv'
  BY TypeStep, ThreadLifeStep, BeforeCloseStep, ClosingStep, StartedStep DEF LooperInv

LEMMA LooperInvariant == LooperSafeSpec => []LooperInv
  BY LooperInvInit, LooperInvStep, PTL DEF LooperSafeSpec

(* Every variable of the looper keeps its type. *)
THEOREM LooperTypeCorrect == LooperSafeSpec => []LooperTypeOK
  BY LooperInvariant, PTL DEF LooperInv

(* ~CLooper frees nothing that the loop thread has yet to touch. *)
THEOREM LooperOutlivesThread == LooperSafeSpec => []NoUseAfterFree
  <1>1. LooperInv => NoUseAfterFree
    BY DEF LooperInv, ThreadLife, NoUseAfterFree, Ended
  <1>. QED  BY <1>1, LooperInvariant, PTL

(* The signal of Close reaches a loop thread wherever it is. *)
THEOREM CloseHeard == LooperSafeSpec => []CloseIsHeard
  <1>1. LooperInv => CloseIsHeard
    BY DEF LooperInv, Closing, CloseIsHeard, AfterClose, InRun, Walked
  <1>. QED  BY <1>1, LooperInvariant, PTL

(* A loop that ran is closed with no handle left open. *)
THEOREM LoopClosedEmpty == LooperSafeSpec => []NothingLeftOpen
  <1>1. LooperInv => NothingLeftOpen
    BY DEF LooperInv, ThreadLife, Closing, NothingLeftOpen, AfterClose, Ended, InRun, AllClosed
  <1>. QED  BY <1>1, LooperInvariant, PTL

(* If nothing fails that sets up a loop or a handle, no owner uses what is  *)
(* not there before it destroys the looper.                                *)
THEOREM StartedBeforeUse == LooperSafeSpec => []UsesOnlyStarted
  <1>1. LooperInv => UsesOnlyStarted
    BY DEF LooperInv, Started, UsesOnlyStarted
  <1>. QED  BY <1>1, LooperInvariant, PTL

-----------------------------------------------------------------------------
(* The handle. *)
Configuring == {"cast", "recv", "dispatch", "version", "finish"}   (* in Init, after BindSock *)

(* The variables of the handle have their types. *)
HandleTypeOK ==
  /\ app \in AppPC
  /\ after \in After
  /\ param \in Param
  /\ initNo \in 0 .. MaxInits
  /\ initRet \in {0, 2, 3, 5, NoRet}
  /\ address \in [Family -> 0 .. MaxInits]
  /\ ver \in Version
  /\ dispatch \in 0 .. MaxInits
  /\ notify \in 0 .. MaxInits
  /\ inflight \in Nat
  /\ sendRet \in {0, 1, 2, 3, 5, 6, NoRet}
  /\ sends \in 0 .. MaxSends
  /\ called \in [to : 0 .. MaxInits, want : 0 .. MaxInits, done : BOOLEAN]

(* The buffers in use are those of queued events and those lost. *)
PoolInv ==
  /\ PoolAccounts
  /\ used \in 0 .. NumSlots
  /\ lost \in 0 .. NumSlots

(* Where the application thread is tells how far its looper has come. *)
Positions ==
  /\ app \in {"gone", "ctx"} => owner = "none"
  /\ app = "idle" => owner \in {"none", "ready"}
  /\ app = "looper" => owner \in Before /\ handle["user"] = "none"
  /\ app = "bind" => \/ owner = "ready" /\ handle["user"] = "idle"
                     \/ Faults /\ owner \in {"none", "ready"} /\ handle["user"] = "none"
  /\ app \in Configuring => owner = "ready" /\ handle["user"] # "none"
  /\ app \in {"cast", "recv"} => handle["user"] = "idle"
  /\ app = "close" => owner \in {"none", "ready"} \cup AfterClose
  /\ owner = "ready" /\ app # "looper" => Faults \/ handle["user"] # "none"
  /\ owner = "none" => handle["user"] = "none"
  /\ ctx \in BOOLEAN
  /\ ~Faults /\ app = "looper" => ctx
  /\ owner # "none" /\ app # "looper" => ctx

(* A send in flight was begun by a served loop, on a handle not yet closed. *)
Flight ==
  /\ inflight > 0 => served /\ owner # "none" /\ handle["user"] \in {"idle", "active", "closing"}
  /\ thr \in InRun => served
  /\ thr = "draining" => handle["event"] = "active"
  /\ handle["event"] = "active" => handle["user"] \in {"none", "idle", "active"}
  /\ queue # <<>> => Faults \/ handle["user"] # "none"

(* What the last Init returned stands only between calls. *)
Returned ==
  /\ app # "idle" => initRet = NoRet
  /\ app \notin {"idle", "gone"} => sendRet = NoRet

(* When Init has succeeded, callbacks go to the objects it named. *)
Receiving ==
  /\ CallbacksGoToLastInit
  /\ initRet = 0 => notify = IF param.notify THEN initNo ELSE 0
  /\ initRet = 0 /\ handle["user"] = "active" => dispatch = initNo
  /\ app \in {"version", "finish"} /\ handle["user"] = "active" => dispatch = initNo

(* Init has written the address by the time it stores the version. *)
Target ==
  /\ owner = "none" \/ app = "looper" => queue = <<>>
  /\ app \in Configuring =>
       param.ver # "other" /\ (param.dest = "good" => address[param.ver] = initNo)
  /\ app = "finish" => ver = param.ver
  /\ initRet = 0 => /\ owner = "ready"
                    /\ ver = param.ver /\ ver # "other"
                    /\ param.dest = "good" => address[ver] = initNo
                    /\ InitServesSend

UDPInv ==
  LooperInv /\ HandleTypeOK /\ PoolInv /\ Positions /\ Flight /\ Returned /\ Receiving /\ Target

LEMMA EventAddrType ==
  ASSUME HandleTypeOK, ver # "other" PROVE EventAddr(ver) \in Event
  <1>1. address[ver] \in 0 .. MaxInits
    BY DEF HandleTypeOK, Version, Family
  <1>. QED  BY <1>1, UDPAssumption DEF EventAddr, Cut

(* Taking a buffer keeps the balance of the pool. *)
LEMMA TakeStep ==
  ASSUME UDPInv, LoseBuffer \/ QueueEvent
  PROVE  PoolInv' /\ sends' \in 0 .. MaxSends
  <1> USE UDPAssumption DEF UDPInv, PoolInv, PoolAccounts, LooperInv, LooperTypeOK, TakeBuffer
  <1>1. Len(queue) \in Nat /\ queue \in Seq(Event)
    BY LenProperties
  <1>2. sends' \in 0 .. MaxSends
    BY DEF LoseBuffer, QueueEvent, HandleTypeOK
  <1>3. CASE LoseBuffer
    BY <1>1, <1>2, <1>3 DEF LoseBuffer
  <1>4. CASE QueueEvent
    <2>1. Len(queue') = Len(queue) + 1
      BY <1>1, <1>4, EventAddrType, AppendProperties DEF QueueEvent, PushEvent
    <2>. QED  BY <1>1, <1>2, <1>4, <2>1 DEF QueueEvent
  <1>. QED  BY <1>3, <1>4

(* When a callback runs, the looper is in use or being destroyed. *)
LEMMA CallbackOwner ==
  ASSUME LooperInv, HandleTypeOK, Positions, Flight, AfterSend \/ AfterRecv
  PROVE  thr = "polling" /\ owner \in {"ready", "join"} /\ handle["user"] # "none"
  <1>1. thr = "polling" /\ handle["user"] # "none"
    BY DEF AfterSend, AfterRecv, Flight, HandleTypeOK
  <1>2. app # "looper"
    BY <1>1 DEF Positions
  <1>3. owner \notin {"unloop", "none"}
    BY <1>1 DEF LooperInv, ThreadLife, Ended
  <1>. QED  BY <1>1, <1>2, <1>3 DEF Positions, HandleTypeOK, AppPC, Configuring, AfterClose

LEMMA MapStep ==
  LooperInv /\ HandleTypeOK /\ PoolInv /\ Positions /\ Flight /\ [Next]_vars => [LooperNext]_looperVars
  <1>1. CASE UNCHANGED vars
    BY <1>1 DEF vars
  <1>2. SUFFICES ASSUME LooperInv, HandleTypeOK, PoolInv, Positions, Flight, Next
                 PROVE  LooperNext \/ UNCHANGED looperVars
    BY <1>1
  <1>3. ~undefined
    BY <1>2 DEF Next
  <1>p. QueueEvent => Len(queue) < MaxQueue /\ (\E e \in Event : PushEvent(e))
    <2>1. Len(queue) \in Nat
      BY <1>2, LenProperties DEF LooperInv, LooperTypeOK
    <2>2. QueueEvent => Len(queue) < MaxQueue
      BY <1>2, <2>1, UDPAssumption DEF QueueEvent, TakeBuffer, PoolInv, PoolAccounts
    <2>. QED  BY <1>2, <2>2, EventAddrType DEF QueueEvent
  <1>4. CASE NewUDP \/ InitCall \/ UnInit
    BY <1>4 DEF NewUDP, InitCall, UnInit
  <1>5. CASE Send
    <2>1. CASE SendBadArgument \/ SendNoLooper \/ SendNoBuffer \/ SendBadVersion
      BY <2>1 DEF SendBadArgument, SendNoLooper, SendNoBuffer, SendBadVersion, LoseBuffer,
                  looperVars, loopVars
    <2>2. CASE SendQueued
      <3>1. owner = "ready"
        BY <1>2, <2>2 DEF SendQueued, Positions
      <3>2. OwnerUses
        BY <1>p, <2>2, <3>1 DEF SendQueued, OwnerUses, QueueEvent
      <3>. QED  BY <3>2, <1>3 DEF LooperNext
    <2>. QED  BY <1>5, <2>1, <2>2 DEF Send
  <1>6. CASE UnInitClose \/ UnInitJoin \/ UnInitDelete \/ UnInitCTX
    BY <1>3, <1>6 DEF UnInitClose, UnInitJoin, UnInitDelete, UnInitCTX, DestroyStep, LooperNext
  <1>7. CASE InitCTX \/ InitLooper
    BY <1>3, <1>7 DEF InitCTX, InitLooper, LooperNext
  <1>u. UsesUnset => LooperNext
    BY <1>3 DEF LooperNext
  <1>8. CASE UvUdpInit
    <2>1. CASE ~ctx /\ UsesUnset
      BY <2>1, <1>u
    <2>2. CASE SetUserHandle("none", "idle") /\ ctx
      <3>1. OwnerUses
        BY <1>8, <2>2 DEF UvUdpInit, UsesUnset, OwnerUses
      <3>. QED  BY <1>3, <3>1 DEF LooperNext
    <2>3. CASE Faults /\ UNCHANGED handle /\ ctx
      <3>b. undefined = FALSE /\ loopUp \in BOOLEAN
        BY <1>2, <1>3 DEF LooperInv, LooperTypeOK
      <3>1. handle["user"] = "none" /\ undefined' = (undefined \/ ~loopUp)
        BY <1>2, <1>8, <2>3, Zenon DEF UvUdpInit, Positions
      <3>2. UNCHANGED <<owner, thr, flagVars, loopVars, historyVars>>
        BY <1>8, <2>3 DEF UvUdpInit, loopVars
      <3>3. CASE loopUp
        <4>1. undefined' = FALSE
          BY <3>b, <3>1, <3>3
        <4>. QED  BY <3>b, <3>2, <4>1 DEF looperVars
      <3>4. CASE ~loopUp
        <4>1. undefined' = TRUE
          BY <3>b, <3>1, <3>4
        <4>. QED  BY <3>1, <3>2, <4>1, <2>3, <1>u DEF UsesUnset
      <3>. QED  BY <3>3, <3>4
    <2>. QED  BY <1>8, <2>1, <2>2, <2>3 DEF UvUdpInit
  <1>9. CASE BindSock \/ InitCastType \/ SetDispatch \/ SetVersion \/ InitFinish
    BY <1>9, <1>u DEF BindSock, UvUdpBind, InitCastType, SetDispatch, SetVersion, InitFinish
  <1>10. CASE RecvStart
    <2>1. owner = "ready" /\ handle["user"] = "idle"
      BY <1>2, <1>10 DEF RecvStart, Positions, Configuring
    <2>2. CASE UNCHANGED handle
      BY <1>10, <2>2 DEF RecvStart, looperVars, loopVars
    <2>3. CASE handle' = [handle EXCEPT !["user"] = "active"]
      <3>1. OwnerUses
        BY <1>10, <2>1, <2>3 DEF RecvStart, OwnerUses, SetUserHandle
      <3>. QED  BY <1>3, <3>1 DEF LooperNext
    <2>. QED  BY <1>10, <2>2, <2>3 DEF RecvStart
  <1>11. CASE LoopThread
    BY <1>3, <1>u, <1>11 DEF LoopThread, LoopRun, DoEventSend, FinishClosing, LooperNext
  <1>12. CASE AfterSend \/ AfterRecv
    <2>1. thr = "polling" /\ owner \in {"ready", "join"}
      BY <1>2, <1>12, CallbackOwner
    <2>2. UNCHANGED <<owner, thr, flagVars, handle, historyVars>>
      BY <1>12 DEF AfterSend, AfterRecv, Call
    <2>3. CASE QueueEvent
      <3>1. CallbackUses
        BY <1>p, <2>1, <2>2, <2>3 DEF CallbackUses
      <3>. QED  BY <3>1, <1>3 DEF LooperNext
    <2>4. CASE LoseBuffer \/ UNCHANGED <<signal, queue, undefined>>
      BY <2>2, <2>4 DEF LoseBuffer, looperVars, loopVars
    <2>. QED  BY <1>12, <2>3, <2>4 DEF AfterSend, AfterRecv, Call
  <1>. QED
    BY <1>2, <1>4, <1>5, <1>6, <1>7, <1>8, <1>9, <1>10, <1>11, <1>12 DEF Next, AppStep
LEMMA HandleTypeStep == UDPInv /\ [Next]_vars => HandleTypeOK'
  <1>1. SUFFICES ASSUME UDPInv, Next PROVE HandleTypeOK'
    <2>1. UDPInv /\ UNCHANGED vars => HandleTypeOK'
      BY DEF UDPInv, HandleTypeOK, vars, looperVars, loopVars, historyVars, apiVars, targetVars,
             poolVars, ioVars, Param, Version, Family, AppPC, After
    <2>. QED  BY <2>1
  <1>2. ~undefined
    BY <1>1 DEF Next
  <1>n. MaxInits \in Nat /\ MaxSends \in Nat
    BY UDPAssumption
  <1> USE <1>1, <1>2, <1>n
         DEF UDPInv, HandleTypeOK, Version, Family, AppPC, After,
             OwnerGoto, AppGoto, flagVars, loopVars, historyVars, looperVars, apiVars,
             targetVars, poolVars, ioVars, appVars
  <1>c. ASSUME NEW to \in 0 .. MaxInits, NEW want \in 0 .. MaxInits, Call(to, want), inflight' \in Nat
        PROVE  HandleTypeOK'
    <2>1. (initRet = 0) \in BOOLEAN
      OBVIOUS
    <2>2. called' \in [to : 0 .. MaxInits, want : 0 .. MaxInits, done : BOOLEAN]
      BY <2>1, <1>c DEF Call
    <2>3. sends' \in 0 .. MaxSends
      BY <1>c, TakeStep DEF Call
    <2>. QED  BY <2>2, <2>3, <1>c DEF Call
  <1>3. CASE NewUDP
    BY <1>3 DEF NewUDP, Nowhere
  <1>4. CASE InitCall
    <2>1. param' \in Param
      BY <1>4, UDPAssumption DEF InitCall
    <2>. QED  BY <2>1, <1>4 DEF InitCall, BeginUnInit
  <1>5. CASE UnInit
    BY <1>5 DEF UnInit, BeginUnInit
  <1>6. CASE SendBadArgument \/ SendNoLooper \/ SendNoBuffer
    BY <1>6 DEF SendBadArgument, SendNoLooper, SendNoBuffer
  <1>7. CASE SendBadVersion \/ SendQueued
    <2>1. sends' \in 0 .. MaxSends
      BY <1>7, TakeStep DEF SendBadVersion, SendQueued
    <2>. QED  BY <2>1, <1>7 DEF SendBadVersion, SendQueued
  <1>8. CASE UnInitClose \/ UnInitJoin
    BY <1>8 DEF UnInitClose, UnInitJoin
  <1>9. CASE UnInitDelete
    BY <1>9 DEF UnInitDelete
  <1>10. CASE UnInitCTX
    BY <1>10 DEF UnInitCTX
  <1>11. CASE InitCTX
    BY <1>11 DEF InitCTX, NewLooper
  <1>12. CASE InitLooper
    BY <1>12 DEF InitLooper, InitLooperStep, InitLooperFails, UvLoopInit, UvThreadCreate,
                 UvAsyncInitClose, UvAsyncInitEvent, WaitInited
  <1>13. CASE UvUdpInit
    BY <1>13 DEF UvUdpInit, UsesUnset, SetUserHandle
  <1>14. CASE BindSock
    <2>1. address' \in [Family -> 0 .. MaxInits]
      BY <1>14 DEF BindSock, UvUdpBind, UsesUnset, Nowhere
    <2>2. app' \in AppPC /\ initRet' \in {0, 2, 3, 5, NoRet}
      BY <1>14 DEF BindSock, UvUdpBind, UsesUnset, Return
    <2>. QED  BY <2>1, <2>2, <1>14 DEF BindSock
  <1>15. CASE InitCastType
    BY <1>15 DEF InitCastType, Return
  <1>16. CASE RecvStart
    BY <1>16 DEF RecvStart, Return
  <1>17. CASE SetDispatch \/ SetVersion \/ InitFinish
    <2>1. CASE SetDispatch
      BY <2>1 DEF SetDispatch
    <2>2. CASE SetVersion
      <3>1. ver' \in Version
        BY <2>2 DEF SetVersion, Param
      <3>. QED  BY <3>1, <2>2 DEF SetVersion
    <2>3. CASE InitFinish
      <3>1. notify' \in 0 .. MaxInits
        BY <2>3 DEF InitFinish
      <3>. QED  BY <3>1, <2>3 DEF InitFinish, Return
    <2>. QED  BY <1>17, <2>1, <2>2, <2>3
  <1>18. CASE LoopRun
    BY <1>18 DEF LoopRun, RunStep, WorkThread, RunEnter, AsyncCB, AsyncEvent, DoEventDone,
                 RunLeave, RunReturn, ThreadGoto, Alive
  <1>19. CASE DoEventSend
    <2>1. CASE UsesUnset /\ UNCHANGED <<appVars, poolVars, ioVars>>
      BY <2>1 DEF UsesUnset
    <2>2. CASE inflight' \in {inflight, inflight + 1} /\ UNCHANGED <<appVars, sends, lost, called>>
      BY <2>2
    <2>. QED  BY <1>19, <2>1, <2>2 DEF DoEventSend
  <1>20. CASE FinishClosing
    BY <1>20 DEF FinishClosing, UvFinishClosing
  <1>21. CASE AfterSend
    <2>1. inflight' \in Nat
      BY <1>21 DEF AfterSend
    <2>2. (IF param.notify THEN initNo ELSE 0) \in 0 .. MaxInits
      OBVIOUS
    <2>. QED  BY <1>c, <2>1, <2>2, <1>21 DEF AfterSend
  <1>22. CASE AfterRecv
    BY <1>c, <1>22 DEF AfterRecv
  <1>. QED
    BY <1>3, <1>4, <1>5, <1>6, <1>7, <1>8, <1>9, <1>10, <1>11,
       <1>12, <1>13, <1>14, <1>15, <1>16, <1>17, <1>18, <1>19, <1>20, <1>21, <1>22
    DEF Next, AppStep, LoopThread, Send

LEMMA PoolStep == UDPInv /\ [Next]_vars => PoolInv'
  <1>1. SUFFICES ASSUME UDPInv, Next PROVE PoolInv'
    <2>1. UDPInv /\ UNCHANGED vars => PoolInv'
      BY DEF UDPInv, PoolInv, vars, looperVars, loopVars, historyVars, apiVars, targetVars,
             poolVars, ioVars, PoolAccounts, LooperInv, LooperTypeOK
    <2>. QED  BY <2>1
  <1>2. ~undefined
    BY <1>1 DEF Next
  <1>q. Len(queue) \in Nat /\ queue \in Seq(Event)
    BY <1>1, LenProperties DEF UDPInv, LooperInv, LooperTypeOK
  <1> USE <1>1, <1>2, <1>q, UDPAssumption
         DEF UDPInv, PoolInv, PoolAccounts, LooperInv, LooperTypeOK,
             OwnerGoto, AppGoto, flagVars, loopVars, historyVars, looperVars, apiVars,
             targetVars, poolVars, ioVars, appVars
  <1>3. CASE NewUDP
    <2>1. Len(queue) = 0
      BY <1>3, EmptySeq DEF NewUDP, Positions, Target
    <2>. QED  BY <2>1, <1>3 DEF NewUDP
  <1>4. CASE InitCall \/ UnInit
    BY <1>4 DEF InitCall, UnInit
  <1>5. CASE SendBadArgument \/ SendNoLooper \/ SendNoBuffer
    BY <1>5 DEF SendBadArgument, SendNoLooper, SendNoBuffer
  <1>6. CASE SendBadVersion \/ SendQueued
    BY <1>6, TakeStep DEF SendBadVersion, SendQueued
  <1>7. CASE UnInitClose \/ UnInitJoin
    BY <1>7 DEF UnInitClose, UnInitJoin, Close, Join
  <1>8. CASE UnInitDelete
    <2>1. Len(queue') = 0
      BY <1>8, EmptySeq DEF UnInitDelete, UvLoopClose
    <2>. QED  BY <2>1, <1>8 DEF UnInitDelete
  <1>9. CASE UnInitCTX
    BY <1>9 DEF UnInitCTX
  <1>10. CASE InitCTX
    <2>1. Len(queue) = 0 /\ Len(queue') = 0
      BY <1>10, EmptySeq DEF InitCTX, NewLooper, Positions, Target
    <2>. QED  BY <2>1, <1>10 DEF InitCTX
  <1>11. CASE InitLooper
    BY <1>11 DEF InitLooper, InitLooperStep, InitLooperFails, UvLoopInit, UvThreadCreate,
                 UvAsyncInitClose, UvAsyncInitEvent, WaitInited
  <1>12. CASE UvUdpInit
    BY <1>12 DEF UvUdpInit, UsesUnset, SetUserHandle
  <1>13. CASE BindSock \/ InitCastType
    BY <1>13 DEF BindSock, UvUdpBind, UsesUnset, InitCastType, Return
  <1>14. CASE RecvStart
    BY <1>14 DEF RecvStart, Return
  <1>15. CASE SetDispatch \/ SetVersion \/ InitFinish
    BY <1>15 DEF SetDispatch, SetVersion, InitFinish, Return
  <1>16. CASE LoopRun
    BY <1>16 DEF LoopRun, RunStep, WorkThread, RunEnter, AsyncCB, AsyncEvent, DoEventDone,
                 RunLeave, RunReturn, ThreadGoto, Alive
  <1>17. CASE DoEventSend
    <2>1. CASE UsesUnset /\ UNCHANGED <<appVars, poolVars, ioVars>>
      BY <2>1 DEF UsesUnset
    <2>2. CASE DoEvent /\ used' = used - 1 /\ UNCHANGED lost
      <3>1. Len(queue) >= 1 /\ Len(queue') = Len(queue) - 1
        BY <2>2, HeadTailProperties, EmptySeq DEF DoEvent
      <3>. QED  BY <3>1, <2>2
    <2>. QED  BY <1>17, <2>1, <2>2 DEF DoEventSend
  <1>18. CASE FinishClosing
    BY <1>18 DEF FinishClosing, UvFinishClosing
  <1>19. CASE AfterSend \/ AfterRecv
    <2>1. CASE UNCHANGED <<signal, queue, undefined, poolVars>>
      BY <2>1
    <2>. QED  BY <2>1, <1>19, TakeStep DEF AfterSend, AfterRecv, Call
  <1>. QED
    BY <1>3, <1>4, <1>5, <1>6, <1>7, <1>8, <1>9, <1>10, <1>11,
       <1>12, <1>13, <1>14, <1>15, <1>16, <1>17, <1>18, <1>19
    DEF Next, AppStep, LoopThread, Send

(* What the steps of the looper do to its handles. *)
LEMMA RunHandles ==
  ASSUME LooperInv, ~undefined, RunStep
  PROVE  /\ UNCHANGED <<owner, queue, undefined>>
         /\ owner \in Before => UNCHANGED handle
         /\ \/ handle'["user"] = handle["user"]
            \/ handle["user"] \in {"idle", "active"} /\ handle'["user"] = "closing"
         /\ served /\ owner # "none" => served'
         /\ thr' \in InRun => thr \in InRun \/ served'
         /\ thr' = "draining" => handle'["event"] = "active"
         /\ handle'["event"] = "active" => UNCHANGED handle
  <1> USE DEF LooperInv, LooperTypeOK, BeforeClose, Closing, Before, AfterClose, Handle,
              HandleState, OwnerPC, InRun,
              flagVars, loopVars, historyVars, ThreadGoto
  <1>1. CASE WorkThread
    BY <1>1 DEF WorkThread
  <1>2. CASE RunEnter
    BY <1>2 DEF RunEnter, Alive
  <1>3. CASE AsyncCB
    BY <1>3 DEF AsyncCB
  <1>4. CASE AsyncEvent
    BY <1>4 DEF AsyncEvent
  <1>5. CASE DoEventDone
    BY <1>5 DEF DoEventDone
  <1>6. CASE RunLeave
    BY <1>6 DEF RunLeave
  <1>7. CASE RunReturn
    BY <1>7 DEF RunReturn
  <1>. QED  BY <1>1, <1>2, <1>3, <1>4, <1>5, <1>6, <1>7 DEF RunStep

LEMMA ClosingHandles ==
  ASSUME LooperInv, UvFinishClosing
  PROVE  /\ UNCHANGED <<owner, thr, queue, served, undefined>>
         /\ thr = "polling"
         /\ owner \notin Before
         /\ \/ handle'["user"] = handle["user"]
            \/ handle["user"] = "closing" /\ handle'["user"] = "closed"
         /\ handle["user"] = "closing" => handle'["user"] = "closed"
         /\ handle'["event"] = "active" => handle["event"] = "active"
  BY DEF LooperInv, LooperTypeOK, BeforeClose, Before, Handle, HandleState, UvFinishClosing,
         flagVars, loopVars, historyVars

LEMMA InitHandles ==
  ASSUME LooperInv, InitLooperStep \/ InitLooperFails
  PROVE  /\ UNCHANGED <<queue, undefined, served>>
         /\ owner \in Before
         /\ owner' \in Before
         /\ handle'["user"] = handle["user"]
         /\ thr' \in InRun => thr \in InRun
         /\ thr' = "draining" => thr = "draining"
         /\ handle["event"] = "active" => handle'["event"] = "active"
         /\ handle["user"] \in {"none", "idle", "active"}
  BY DEF LooperInv, LooperTypeOK, BeforeClose, Before, Handle, HandleState, InRun,
         InitLooperStep, InitLooperFails, UvLoopInit, UvThreadCreate, UvAsyncInitClose,
         UvAsyncInitEvent, WaitInited, OwnerGoto, flagVars, loopVars, historyVars

LEMMA PositionsStep == UDPInv /\ [Next]_vars => Positions'
  <1>1. SUFFICES ASSUME UDPInv, Next PROVE Positions'
    <2>1. UDPInv /\ UNCHANGED vars => Positions'
      BY DEF UDPInv, Positions, vars, looperVars, loopVars, historyVars, apiVars, targetVars,
             poolVars, ioVars, Configuring, AfterClose, Before, Handle
    <2>. QED  BY <2>1
  <1>2. ~undefined
    BY <1>1 DEF Next
  <1>h. handle \in [Handle -> HandleState] /\ LooperInv
    BY <1>1 DEF UDPInv, LooperInv, LooperTypeOK
  <1> USE <1>1, <1>2, <1>h
         DEF UDPInv, Positions, Configuring, AfterClose, Before, Handle,
             OwnerGoto, AppGoto, flagVars, loopVars, historyVars, looperVars, apiVars,
             targetVars, poolVars, ioVars, appVars
  <1>3. CASE NewUDP \/ InitCall \/ UnInit
    BY <1>3 DEF NewUDP, InitCall, UnInit, BeginUnInit
  <1>4. CASE Send
    BY <1>4 DEF Send, SendBadArgument, SendNoLooper, SendNoBuffer, SendBadVersion, SendQueued,
                 LoseBuffer, QueueEvent, PushEvent
  <1>5. CASE UnInitClose \/ UnInitJoin
    BY <1>5 DEF UnInitClose, UnInitJoin, Close, Join
  <1>6. CASE UnInitDelete
    BY <1>6 DEF UnInitDelete, UvLoopClose
  <1>7. CASE UnInitCTX
    BY <1>7 DEF UnInitCTX, HandleTypeOK, After
  <1>8. CASE InitCTX
    BY <1>8 DEF InitCTX, NewLooper
  <1>9. CASE InitLooper
    BY <1>9, InitHandles DEF InitLooper
  <1>10. CASE UvUdpInit
    BY <1>10 DEF UvUdpInit, UsesUnset, SetUserHandle
  <1>11. CASE BindSock \/ InitCastType
    BY <1>11 DEF BindSock, UvUdpBind, UsesUnset, InitCastType, Return
  <1>12. CASE RecvStart
    BY <1>12 DEF RecvStart, Return
  <1>13. CASE SetDispatch \/ SetVersion \/ InitFinish
    BY <1>13 DEF SetDispatch, SetVersion, InitFinish, Return
  <1>14. CASE LoopRun
    BY <1>14, RunHandles DEF LoopRun
  <1>15. CASE DoEventSend
    BY <1>15 DEF DoEventSend, UsesUnset, DoEvent
  <1>16. CASE FinishClosing
    BY <1>16, ClosingHandles DEF FinishClosing
  <1>17. CASE AfterSend \/ AfterRecv
    BY <1>17 DEF AfterSend, AfterRecv, Call
  <1>. QED
    BY <1>3, <1>4, <1>5, <1>6, <1>7, <1>8, <1>9, <1>10, <1>11,
       <1>12, <1>13, <1>14, <1>15, <1>16, <1>17
    DEF Next, AppStep, LoopThread, Send

LEMMA FlightStep == UDPInv /\ [Next]_vars => Flight'
  <1>1. SUFFICES ASSUME UDPInv, Next PROVE Flight'
    <2>1. UDPInv /\ UNCHANGED vars => Flight'
      BY DEF UDPInv, Flight, vars, looperVars, loopVars, historyVars, apiVars, targetVars,
             poolVars, ioVars, InRun, Handle
    <2>. QED  BY <2>1
  <1>2. ~undefined
    BY <1>1 DEF Next
  <1>h. handle \in [Handle -> HandleState] /\ LooperInv
    BY <1>1 DEF UDPInv, LooperInv, LooperTypeOK
  <1> USE <1>1, <1>2, <1>h
         DEF UDPInv, Flight, InRun, Handle,
             OwnerGoto, AppGoto, flagVars, loopVars, historyVars, looperVars, apiVars,
             targetVars, poolVars, ioVars, appVars
  <1>3. CASE NewUDP \/ InitCall \/ UnInit
    BY <1>3 DEF NewUDP, InitCall, UnInit, BeginUnInit
  <1>4. CASE SendBadArgument \/ SendNoLooper \/ SendNoBuffer \/ SendBadVersion
    BY <1>4 DEF SendBadArgument, SendNoLooper, SendNoBuffer, SendBadVersion, LoseBuffer
  <1>5. CASE SendQueued
    <2>1. Faults \/ handle["user"] # "none"
      BY <1>5 DEF SendQueued, Positions
    <2>. QED  BY <2>1, <1>5 DEF SendQueued
  <1>6. CASE UnInitClose \/ UnInitJoin
    BY <1>6 DEF UnInitClose, UnInitJoin, Close, Join
  <1>7. CASE UnInitDelete
    <2>1. inflight = 0
      BY <1>7 DEF UnInitDelete, UvLoopClose, LooperInv, ThreadLife, Closing, Ended, AfterClose,
               AllClosed, HandleTypeOK
    <2>2. thr \notin InRun
      BY <1>7 DEF UnInitDelete, UvLoopClose, LooperInv, ThreadLife, Ended
    <2>. QED  BY <2>1, <2>2, <1>7 DEF UnInitDelete, UvLoopClose
  <1>8. CASE UnInitCTX
    BY <1>8 DEF UnInitCTX, HandleTypeOK, After
  <1>9. CASE InitCTX
    BY <1>9 DEF InitCTX, NewLooper
  <1>10. CASE InitLooper
    BY <1>10, InitHandles DEF InitLooper, Before
  <1>11. CASE UvUdpInit
    BY <1>11 DEF UvUdpInit, UsesUnset, SetUserHandle
  <1>12. CASE BindSock \/ InitCastType
    BY <1>12 DEF BindSock, UvUdpBind, UsesUnset, InitCastType, Return
  <1>13. CASE RecvStart
    BY <1>13 DEF RecvStart, Return
  <1>14. CASE SetDispatch \/ SetVersion \/ InitFinish
    BY <1>14 DEF SetDispatch, SetVersion, InitFinish, Return
  <1>15. CASE LoopRun
    <2>1. ASSUME inflight > 0
          PROVE  served' /\ owner' # "none" /\ handle'["user"] \in {"idle", "active", "closing"}
      <3>1. served /\ owner # "none" /\ handle["user"] \in {"idle", "active", "closing"}
        BY <2>1 DEF HandleTypeOK
      <3>. QED  BY <3>1, <1>15, RunHandles DEF LoopRun
    <2>2. thr' \in InRun => served'
      BY <1>15, RunHandles DEF LoopRun, LooperInv, ThreadLife, Ended
    <2>3. thr' = "draining" => handle'["event"] = "active"
      BY <1>15, RunHandles DEF LoopRun
    <2>4. handle'["event"] = "active" => handle'["user"] \in {"none", "idle", "active"}
      BY <1>15, RunHandles DEF LoopRun
    <2>5. queue' # <<>> => Faults \/ handle'["user"] # "none"
      BY <1>15, RunHandles DEF LoopRun
    <2>. QED  BY <2>1, <2>2, <2>3, <2>4, <2>5, <1>15 DEF LoopRun
  <1>16. CASE DoEventSend
    <2>1. CASE UsesUnset /\ UNCHANGED <<appVars, poolVars, ioVars>>
      BY <2>1 DEF UsesUnset
    <2>2. CASE DoEvent /\ handle["user"] # "none"
      <3>1. served /\ owner # "none" /\ handle["user"] \in {"idle", "active", "closing"}
        BY <2>2 DEF DoEvent, LooperInv, ThreadLife, Ended
      <3>. QED  BY <3>1, <2>2 DEF DoEvent
    <2>. QED  BY <1>16, <2>1, <2>2 DEF DoEventSend
  <1>17. CASE FinishClosing
    BY <1>17, ClosingHandles DEF FinishClosing
  <1>18. CASE AfterSend \/ AfterRecv
    <2>1. inflight' > 0 => inflight > 0
      BY <1>18 DEF AfterSend, AfterRecv, HandleTypeOK
    <2>2. handle["user"] # "none"
      BY <1>18, CallbackOwner
    <2>. QED  BY <2>1, <2>2, <1>18 DEF AfterSend, AfterRecv, Call
  <1>. QED
    BY <1>3, <1>4, <1>5, <1>6, <1>7, <1>8, <1>9, <1>10, <1>11,
       <1>12, <1>13, <1>14, <1>15, <1>16, <1>17, <1>18
    DEF Next, AppStep, LoopThread, Send

LEMMA ReturnedStep == UDPInv /\ [Next]_vars => Returned'
  <1>1. SUFFICES ASSUME UDPInv, Next PROVE Returned'
    <2>1. UDPInv /\ UNCHANGED vars => Returned'
      BY DEF UDPInv, Receiving, Returned, vars, looperVars, loopVars, historyVars, apiVars, targetVars,
             poolVars, ioVars, NoRet, Handle
    <2>. QED  BY <2>1
  <1>2. ~undefined
    BY <1>1 DEF Next
  <1>h. handle \in [Handle -> HandleState] /\ LooperInv
    BY <1>1 DEF UDPInv, LooperInv, LooperTypeOK
  <1> USE <1>1, <1>2, <1>h
         DEF UDPInv, Returned, NoRet, Handle,
             OwnerGoto, AppGoto, flagVars, loopVars, historyVars, looperVars, apiVars,
             targetVars, poolVars, ioVars, appVars
  <1>3. CASE NewUDP \/ InitCall \/ UnInit
    BY <1>3 DEF NewUDP, InitCall, UnInit, BeginUnInit
  <1>4. CASE Send
    BY <1>4 DEF Send, SendBadArgument, SendNoLooper, SendNoBuffer, SendBadVersion, SendQueued,
                 LoseBuffer, QueueEvent, PushEvent
  <1>5. CASE UnInitClose \/ UnInitJoin
    BY <1>5 DEF UnInitClose, UnInitJoin, Close, Join
  <1>6. CASE UnInitDelete
    BY <1>6 DEF UnInitDelete, UvLoopClose
  <1>7. CASE UnInitCTX
    BY <1>7 DEF UnInitCTX, HandleTypeOK, After
  <1>8. CASE InitCTX
    BY <1>8 DEF InitCTX, NewLooper
  <1>9. CASE InitLooper
    BY <1>9, InitHandles DEF InitLooper
  <1>10. CASE UvUdpInit
    BY <1>10 DEF UvUdpInit, UsesUnset, SetUserHandle
  <1>11. CASE BindSock \/ InitCastType
    BY <1>11 DEF BindSock, UvUdpBind, UsesUnset, InitCastType, Return
  <1>12. CASE RecvStart
    <2>1. handle["user"] = "idle" /\ initRet # 0
      BY <1>12 DEF RecvStart, Positions
    <2>. QED  BY <2>1, <1>12 DEF RecvStart, Return
  <1>13. CASE SetDispatch \/ SetVersion \/ InitFinish
    BY <1>13 DEF SetDispatch, SetVersion, InitFinish, Return
  <1>14. CASE LoopRun
    BY <1>14, RunHandles DEF LoopRun
  <1>15. CASE DoEventSend
    BY <1>15 DEF DoEventSend, UsesUnset, DoEvent
  <1>16. CASE FinishClosing
    BY <1>16, ClosingHandles DEF FinishClosing
  <1>17. CASE AfterSend \/ AfterRecv
    BY <1>17 DEF AfterSend, AfterRecv, Call
  <1>. QED
    BY <1>3, <1>4, <1>5, <1>6, <1>7, <1>8, <1>9, <1>10, <1>11,
       <1>12, <1>13, <1>14, <1>15, <1>16, <1>17
    DEF Next, AppStep, LoopThread, Send

LEMMA ReceivingStep == UDPInv /\ [Next]_vars => Receiving'
  <1>1. SUFFICES ASSUME UDPInv, Next PROVE Receiving'
    <2>1. UDPInv /\ UNCHANGED vars => Receiving'
      BY DEF UDPInv, Receiving, Returned, vars, looperVars, loopVars, historyVars, apiVars, targetVars,
             poolVars, ioVars, CallbacksGoToLastInit, NoRet, Handle
    <2>. QED  BY <2>1
  <1>2. ~undefined
    BY <1>1 DEF Next
  <1>h. handle \in [Handle -> HandleState] /\ LooperInv
    BY <1>1 DEF UDPInv, LooperInv, LooperTypeOK
  <1> USE <1>1, <1>2, <1>h
         DEF UDPInv, Receiving, Returned, CallbacksGoToLastInit, NoRet, Handle,
             OwnerGoto, AppGoto, flagVars, loopVars, historyVars, looperVars, apiVars,
             targetVars, poolVars, ioVars, appVars
  <1>3. CASE NewUDP \/ InitCall \/ UnInit
    BY <1>3 DEF NewUDP, InitCall, UnInit, BeginUnInit
  <1>4. CASE Send
    BY <1>4 DEF Send, SendBadArgument, SendNoLooper, SendNoBuffer, SendBadVersion, SendQueued,
                 LoseBuffer, QueueEvent, PushEvent
  <1>5. CASE UnInitClose \/ UnInitJoin
    BY <1>5 DEF UnInitClose, UnInitJoin, Close, Join
  <1>6. CASE UnInitDelete
    BY <1>6 DEF UnInitDelete, UvLoopClose
  <1>7. CASE UnInitCTX
    BY <1>7 DEF UnInitCTX, HandleTypeOK, After
  <1>8. CASE InitCTX
    BY <1>8 DEF InitCTX, NewLooper
  <1>9. CASE InitLooper
    BY <1>9, InitHandles DEF InitLooper
  <1>10. CASE UvUdpInit
    BY <1>10 DEF UvUdpInit, UsesUnset, SetUserHandle
  <1>11. CASE BindSock \/ InitCastType
    BY <1>11 DEF BindSock, UvUdpBind, UsesUnset, InitCastType, Return
  <1>12. CASE RecvStart
    <2>1. handle["user"] = "idle" /\ initRet # 0
      BY <1>12 DEF RecvStart, Positions
    <2>. QED  BY <2>1, <1>12 DEF RecvStart, Return
  <1>13. CASE SetDispatch \/ SetVersion \/ InitFinish
    BY <1>13 DEF SetDispatch, SetVersion, InitFinish, Return
  <1>14. CASE LoopRun
    BY <1>14, RunHandles DEF LoopRun
  <1>15. CASE DoEventSend
    BY <1>15 DEF DoEventSend, UsesUnset, DoEvent
  <1>16. CASE FinishClosing
    BY <1>16, ClosingHandles DEF FinishClosing
  <1>17. CASE AfterSend
    <2>1. called'.done => called'.to = called'.want
      BY <1>17 DEF AfterSend, Call
    <2>. QED  BY <2>1, <1>17 DEF AfterSend, Call
  <1>18. CASE AfterRecv
    <2>1. called'.done => called'.to = called'.want
      BY <1>18 DEF AfterRecv, Call
    <2>. QED  BY <2>1, <1>18 DEF AfterRecv, Call
  <1>. QED
    BY <1>3, <1>4, <1>5, <1>6, <1>7, <1>8, <1>9, <1>10, <1>11,
       <1>12, <1>13, <1>14, <1>15, <1>16, <1>17, <1>18
    DEF Next, AppStep, LoopThread, Send

LEMMA TargetStep == UDPInv /\ [Next]_vars => Target'
  <1>1. SUFFICES ASSUME UDPInv, Next PROVE Target'
    <2>1. UDPInv /\ UNCHANGED vars => Target'
      BY DEF UDPInv, Target, Returned, InitServesSend, vars, looperVars, loopVars, historyVars, apiVars, targetVars,
             poolVars, ioVars, Configuring, NoRet, Handle
    <2>. QED  BY <2>1
  <1>2. ~undefined
    BY <1>1 DEF Next
  <1>h. handle \in [Handle -> HandleState] /\ LooperInv
    BY <1>1 DEF UDPInv, LooperInv, LooperTypeOK
  <1> USE <1>1, <1>2, <1>h
         DEF UDPInv, Target, Returned, InitServesSend, Configuring, NoRet, Handle,
             OwnerGoto, AppGoto, flagVars, loopVars, historyVars, looperVars, apiVars,
             targetVars, poolVars, ioVars, appVars
  <1>3. CASE NewUDP \/ InitCall \/ UnInit
    BY <1>3 DEF NewUDP, InitCall, UnInit, BeginUnInit
  <1>4. CASE Send
    BY <1>4 DEF Send, SendBadArgument, SendNoLooper, SendNoBuffer, SendBadVersion, SendQueued,
                 LoseBuffer, QueueEvent, PushEvent
  <1>5. CASE UnInitClose \/ UnInitJoin
    BY <1>5 DEF UnInitClose, UnInitJoin, Close, Join
  <1>6. CASE UnInitDelete
    BY <1>6 DEF UnInitDelete, UvLoopClose
  <1>7. CASE UnInitCTX
    BY <1>7 DEF UnInitCTX, HandleTypeOK, After
  <1>8. CASE InitCTX
    BY <1>8 DEF InitCTX, NewLooper
  <1>9. CASE InitLooper
    BY <1>9, InitHandles DEF InitLooper
  <1>10. CASE UvUdpInit
    BY <1>10 DEF UvUdpInit, UsesUnset, SetUserHandle
  <1>11. CASE BindSock
    <2>1. initRet' # 0
      BY <1>11 DEF BindSock, UvUdpBind, UsesUnset, Return
    <2>2. app \notin Configuring \cup {"looper"} /\ app' \notin {"looper", "finish"}
      BY <1>11 DEF BindSock, UvUdpBind, Return
    <2>3. UNCHANGED <<owner, queue>>
      BY <1>11 DEF BindSock, UvUdpBind, UsesUnset
    <2>4. CASE app' \in Configuring
      <3>1. param.ver \in Family /\ address' = [address EXCEPT ![param.ver] =
                                      IF param.dest = "good" THEN initNo ELSE Nowhere]
        BY <2>2, <2>4, <1>11 DEF BindSock, UvUdpBind, Unbindable, Return, HandleTypeOK, Param,
                                 Version, Family
      <3>2. param.ver # "other" /\ (param.dest = "good" => address'[param.ver] = initNo)
        BY <3>1 DEF HandleTypeOK, Family
      <3>. QED  BY <3>2, <2>1, <2>2, <2>3, <1>11 DEF BindSock
    <2>5. CASE app' \notin Configuring
      BY <2>1, <2>2, <2>3, <2>5, <1>11 DEF BindSock
    <2>. QED  BY <2>4, <2>5
  <1>12. CASE InitCastType
    BY <1>12 DEF InitCastType, Return
  <1>13. CASE RecvStart
    BY <1>13 DEF RecvStart, Return
  <1>14. CASE SetDispatch \/ SetVersion \/ InitFinish
    <2>1. owner = "ready" /\ UNCHANGED <<owner, queue, address, param, initNo>> /\ initRet # 0
      BY <1>14 DEF SetDispatch, SetVersion, InitFinish, Positions
    <2>2. sendRet = NoRet /\ sendRet' = sendRet
      BY <1>14 DEF SetDispatch, SetVersion, InitFinish
    <2>3. param.ver # "other" /\ (param.dest = "good" => address[param.ver] = initNo)
      BY <1>14 DEF SetDispatch, SetVersion, InitFinish
    <2>4. CASE SetDispatch
      BY <2>1, <2>2, <2>3, <2>4 DEF SetDispatch
    <2>5. CASE SetVersion
      BY <2>1, <2>2, <2>3, <2>5 DEF SetVersion
    <2>6. CASE InitFinish
      BY <2>1, <2>2, <2>3, <2>6 DEF InitFinish, Return
    <2>. QED  BY <1>14, <2>4, <2>5, <2>6
  <1>15. CASE LoopRun
    BY <1>15, RunHandles DEF LoopRun
  <1>16. CASE DoEventSend
    BY <1>16 DEF DoEventSend, UsesUnset, DoEvent
  <1>17. CASE FinishClosing
    BY <1>17, ClosingHandles DEF FinishClosing
  <1>18. CASE AfterSend \/ AfterRecv
    <2>1. owner # "none" /\ app # "looper"
      BY <1>18, CallbackOwner DEF Positions
    <2>. QED  BY <2>1, <1>18 DEF AfterSend, AfterRecv, Call
  <1>. QED
    BY <1>3, <1>4, <1>5, <1>6, <1>7, <1>8, <1>9, <1>10, <1>11,
       <1>12, <1>13, <1>14, <1>15, <1>16, <1>17, <1>18
    DEF Next, AppStep, LoopThread, Send

LEMMA UDPInvInit == Init => UDPInv
  <1> SUFFICES ASSUME Init PROVE UDPInv
    OBVIOUS
  <1>1. LooperInv
    BY LooperInvInit DEF Init
  <1>2. MaxInits \in Nat /\ MaxSends \in Nat /\ NumSlots \in Nat
    BY UDPAssumption
  <1>3. HandleTypeOK
    <2>1. param \in Param
      <3>1. FALSE \in BOOLEAN /\ "v4" \in Version
            /\ "good" \in {"zero", "good", "bad"} /\ "uni" \in CastType
        BY DEF Version, CastType
      <3>. QED  BY <3>1, Zenon DEF Init, Param
    <2>2. called \in [to : 0 .. MaxInits, want : 0 .. MaxInits, done : BOOLEAN]
      BY <1>2 DEF Init
    <2>3. address \in [Family -> 0 .. MaxInits]
      BY <1>2 DEF Init, Nowhere
    <2>. QED  BY <1>2, <2>1, <2>2, <2>3 DEF Init, HandleTypeOK, AppPC, After, Version
  <1>4. PoolInv
    <2>1. Len(queue) = 0
      BY EmptySeq DEF Init, LooperInit
    <2>. QED  BY <1>2, <2>1 DEF Init, PoolInv, PoolAccounts
  <1>5. Positions
    BY DEF Init, LooperInit, Positions, Configuring, Handle
  <1>6. Flight /\ Target
    BY DEF Init, LooperInit, Flight, Target, InRun, Handle, NoRet, Configuring
  <1>7. Receiving /\ Returned
    BY DEF Init, LooperInit, Receiving, Returned, CallbacksGoToLastInit, NoRet
  <1>. QED  BY <1>1, <1>3, <1>4, <1>5, <1>6, <1>7 DEF UDPInv

LEMMA UDPInvStep == UDPInv /\ [Next]_vars => UDPInv' /\ [LooperNext]_looperVars
  <1> SUFFICES ASSUME UDPInv, [Next]_vars PROVE UDPInv' /\ [LooperNext]_looperVars
    OBVIOUS
  <1>1. [LooperNext]_looperVars
    BY MapStep DEF UDPInv
  <1>2. LooperInv'
    BY <1>1, LooperInvStep DEF UDPInv
  <1>. QED
    BY <1>1, <1>2, HandleTypeStep, PoolStep, PositionsStep, FlightStep, ReturnedStep,
       ReceivingStep, TargetStep
    DEF UDPInv

LEMMA UDPInvariant == SafeSpec => []UDPInv
  BY UDPInvInit, UDPInvStep, PTL DEF SafeSpec

(* A handle is a proper owner of its loopers: whatever the application      *)
(* calls, the looper sees only a behaviour that LooperSafeSpec allows, so   *)
(* the theorems about the looper hold of every UDPImp.                     *)
THEOREM OwnsLooper == SafeSpec => OwnsLooperProperly
  <1>1. Init => LooperInit
    BY DEF Init
  <1>. QED
    BY <1>1, UDPInvInit, UDPInvStep, PTL DEF SafeSpec, OwnsLooperProperly, LooperSafeSpec

(* Every variable of the handle and of its looper keeps its type; no call   *)
(* of Send takes more buffers than there are.                               *)
THEOREM UDPTypeCorrect == SafeSpec => []TypeOK
  <1>1. UDPInv => TypeOK
    BY DEF UDPInv, LooperInv, HandleTypeOK, PoolInv, Positions, TypeOK
  <1>. QED  BY <1>1, UDPInvariant, PTL

(* UnInit frees udp_ctx_ and the looper only after the loop thread's last   *)
(* callback.                                                                *)
THEOREM ContextOutlivesCallbacks == SafeSpec => []CallbacksHaveContext
  <1>1. UDPInv => CallbacksHaveContext
    BY DEF UDPInv, LooperInv, ThreadLife, Ended, Positions, Flight, Target, HandleTypeOK,
           CallbacksHaveContext
  <1>. QED  BY <1>1, UDPInvariant, PTL

(* A send that libuv has not completed has its request and its buffer.      *)
THEOREM ContextOutlivesSends == SafeSpec => []InflightHasContext
  <1>1. UDPInv => InflightHasContext
    BY DEF UDPInv, Flight, Positions, InflightHasContext
  <1>. QED  BY <1>1, UDPInvariant, PTL

(* Every buffer whose flag says in use is queued, or was lost with a        *)
(* looper or by a Send without a version.                                   *)
THEOREM PoolAccounted == SafeSpec => []PoolAccounts
  <1>1. UDPInv => PoolAccounts
    BY DEF UDPInv, PoolInv
  <1>. QED  BY <1>1, UDPInvariant, PTL

(* Only Send, on either thread, makes the queue longer. *)
LEMMA QueueGrows ==
  ASSUME UDPInv, Next, Len(queue') > Len(queue)
  PROVE  QueueEvent
  <1>1. queue \in Seq(Event) /\ Len(queue) \in Nat
    BY LenProperties DEF UDPInv, LooperInv, LooperTypeOK
  <1>2. queue' # queue
    BY <1>1
  <1> USE <1>1, <1>2 DEF flagVars, loopVars, historyVars, looperVars, poolVars
  <1>3. CASE NewUDP \/ InitCall \/ UnInit
    BY <1>3 DEF NewUDP, InitCall, UnInit
  <1>4. CASE Send
    BY <1>4 DEF Send, SendBadArgument, SendNoLooper, SendNoBuffer, SendBadVersion, SendQueued, LoseBuffer
  <1>5. CASE UnInitClose \/ UnInitJoin \/ UnInitCTX
    BY <1>5 DEF UnInitClose, UnInitJoin, UnInitCTX, Close, Join
  <1>6. CASE UnInitDelete \/ InitCTX
    <2>1. queue' = <<>> \/ queue' = queue
      BY <1>6 DEF UnInitDelete, InitCTX, UvLoopClose, NewLooper
    <2>. QED  BY <2>1, EmptySeq
  <1>7. CASE InitLooper
    BY <1>7, InitHandles DEF InitLooper, UDPInv
  <1>8. CASE UvUdpInit \/ BindSock \/ InitCastType \/ RecvStart \/ SetDispatch \/ SetVersion \/ InitFinish
    BY <1>8 DEF UvUdpInit, UsesUnset, BindSock, UvUdpBind, InitCastType, RecvStart,
                SetDispatch, SetVersion, InitFinish
  <1>9. CASE LoopRun
    BY <1>9, RunHandles DEF LoopRun, UDPInv, Next
  <1>10. CASE DoEventSend
    BY <1>10, HeadTailProperties DEF DoEventSend, UsesUnset, DoEvent
  <1>11. CASE FinishClosing
    BY <1>11 DEF FinishClosing, UvFinishClosing
  <1>12. CASE AfterSend \/ AfterRecv
    BY <1>12 DEF AfterSend, AfterRecv, Call, LoseBuffer
  <1>. QED
    BY <1>3, <1>4, <1>5, <1>6, <1>7, <1>8, <1>9, <1>10, <1>11, <1>12 DEF Next, AppStep, LoopThread

(* After a successful Init for IPv4 every message is queued for the         *)
(* destination that Init named, if it named one.                            *)
THEOREM Destination == SafeSpec => SentWhereInitSaid
  <1>1. ASSUME UDPInv, Next PROVE QueuedWhereInitSaid
    <2>1. SUFFICES ASSUME Queues("v4") PROVE queue'[Len(queue')] = initNo
      BY DEF QueuedWhereInitSaid
    <2>2. ver = "v4" /\ address[ver] = initNo
      BY <1>1, <2>1 DEF UDPInv, Target, Queues
    <2>3. EventAddr(ver) = initNo
      BY <2>2 DEF EventAddr
    <2>4. queue' = Append(queue, EventAddr(ver)) /\ EventAddr(ver) \in Event
      BY <1>1, <2>1, QueueGrows, EventAddrType DEF QueueEvent, PushEvent, UDPInv, Target, Queues
    <2>5. queue \in Seq(Event)
      BY <1>1 DEF UDPInv, LooperInv, LooperTypeOK
    <2>6. queue'[Len(queue')] = EventAddr(ver)
      BY <2>4, <2>5, AppendProperties, LenProperties
    <2>. QED  BY <2>3, <2>6
  <1>. QED  BY <1>1, UDPInvariant, PTL DEF SafeSpec, SentWhereInitSaid

(* After a successful Init packets and reports reach the objects it named.  *)
THEOREM CallbacksDirected == SafeSpec => []CallbacksGoToLastInit
  <1>1. UDPInv => CallbacksGoToLastInit
    BY DEF UDPInv, Receiving
  <1>. QED  BY <1>1, UDPInvariant, PTL

(* After a successful Init no Send lacks a looper or a version.             *)
THEOREM SendsServed == SafeSpec => []InitServesSend
  <1>1. UDPInv => InitServesSend
    BY DEF UDPInv, Target, InitServesSend
  <1>. QED  BY <1>1, UDPInvariant, PTL

(* If nothing fails that sets up a loop or a handle, nothing is used that   *)
(* is not there, unless a callback sends while UnInit destroys the looper.  *)
THEOREM HandleStartedBeforeUse == SafeSpec => []UsesOnlyStarted
  <1>1. UDPInv => UsesOnlyStarted
    BY DEF UDPInv, LooperInv, Started, UsesOnlyStarted
  <1>. QED  BY <1>1, UDPInvariant, PTL

-----------------------------------------------------------------------------
(* The example program, for any number of rounds, makes only calls that     *)
(* module UDPImp allows (MainMapsToNext), so UDPInv holds there too; what   *)
(* main has done so far says the rest.                                     *)

(* A looper that was destroyed had a thread, and its end was waited for: a  *)
(* uv_thread_join of a thread that never was is undefined.                 *)
Joined ==
  /\ loopers = 0 => owner = "none" /\ thr = "none"
  /\ loopers > 0 /\ owner \in {"unloop", "none"} /\ ~undefined => thr = "done"

(* What the handle is doing, by how far main has come. *)
MainAt ==
  /\ pc \in {"start", "new", "init", "send", "sleep", "delete", "done"}
  /\ app = "gone" => ~ctx
  /\ pc = "start" => app = "gone"
  /\ pc \in {"new", "send", "sleep"} => app = "idle"
  /\ pc = "init" => app # "gone" /\ after = "init"
  /\ pc = "delete" => app \in {"close", "gone"} /\ after = "gone"
  /\ pc = "done" => app = "gone" /\ LeavesNothing

MainInv == UDPInv /\ Joined /\ MainAt

(* The calls of main are calls the application may make. *)
LEMMA MainMapsToNext == ExampleNext => [Next]_vars
  <1> SUFFICES ASSUME ExampleNext PROVE [Next]_vars
    OBVIOUS
  <1>1. CASE Construct \/ CallInit
    BY <1>1 DEF ExampleNext, Next, Construct, CallInit
  <1>2. CASE InitReturned \/ Return0
    BY <1>2 DEF InitReturned, Return0
  <1>3. CASE SendRound
    BY <1>3 DEF ExampleNext, Next, SendRound, Send
  <1>4. CASE Destroy
    BY <1>4 DEF ExampleNext, Next, Destroy, UnInit
  <1>5. CASE AppStep \/ LoopThread \/ Callbacks
    BY <1>5 DEF ExampleNext, Next, Callbacks
  <1>. QED
    BY <1>1, <1>2, <1>3, <1>4, <1>5 DEF ExampleNext, Main

(* Of the steps that main does not choose, what the looper allows. *)
LEMMA JoinedStep ==
  ASSUME LooperInv, Joined, [LooperNext]_looperVars
  PROVE  Joined'
  <1>t. loopers \in Nat
    BY DEF LooperInv, LooperTypeOK
  <1> USE <1>t DEF Joined, OwnerGoto, ThreadGoto, flagVars, loopVars, historyVars
  <1>1. CASE InitLooperStep \/ InitLooperFails
    BY <1>1 DEF InitLooperStep, InitLooperFails, UvLoopInit, UvThreadCreate, UvAsyncInitClose,
       UvAsyncInitEvent, WaitInited
  <1>2. CASE NewLooper
    BY <1>2 DEF NewLooper
  <1>3. CASE OwnerUses \/ CallbackUses \/ UsesUnset
    BY <1>3 DEF OwnerUses, CallbackUses, UsesUnset
  <1>4. CASE Close
    BY <1>4 DEF Close
  <1>5. CASE Join
    <2>1. ~undefined' => thr # "none"
      BY <1>5, Zenon DEF Join
    <2>. QED  BY <1>5, <2>1 DEF Join
  <1>6. CASE UvLoopClose
    BY <1>6 DEF UvLoopClose
  <1>7. CASE RunStep
    BY <1>7 DEF RunStep, WorkThread, RunEnter, AsyncCB, AsyncEvent, DoEventDone, RunLeave, RunReturn
  <1>8. CASE DoEvent \/ UvFinishClosing
    BY <1>8 DEF DoEvent, UvFinishClosing
  <1>9. CASE UNCHANGED looperVars
    BY <1>9 DEF looperVars
  <1>. QED
    BY <1>1, <1>2, <1>3, <1>4, <1>5, <1>6, <1>7, <1>8, <1>9 DEF LooperNext, DestroyStep

LEMMA MainInvInit == ExampleInit => MainInv
  <1> SUFFICES ASSUME ExampleInit PROVE MainInv
    OBVIOUS
  <1>1. UDPInv
    BY UDPInvInit DEF ExampleInit
  <1>. QED
    BY <1>1 DEF ExampleInit, Init, LooperInit, MainInv, Joined, MainAt, LeavesNothing

LEMMA MainAtStep ==
  ASSUME MainInv, UDPInv', Joined', ExampleNext
  PROVE  MainAt'
  <1>t. loopers \in Nat /\ loopers' \in Nat
    BY DEF MainInv, UDPInv, LooperInv, LooperTypeOK
  <1> USE <1>t DEF MainInv, MainAt, MainGoto, AppGoto, mainVars
  <1>1. CASE Construct
    BY <1>1 DEF Construct, NewUDP
  <1>2. CASE CallInit
    BY <1>2 DEF CallInit, InitCall, BeginUnInit
  <1>3. CASE InitReturned
    BY <1>3 DEF InitReturned, vars, looperVars, historyVars, apiVars
  <1>4. CASE SendRound
    BY <1>4 DEF SendRound, SendNoLooper, SendNoBuffer, SendBadVersion, SendQueued, historyVars
  <1>5. CASE Destroy
    BY <1>5 DEF Destroy, BeginUnInit, looperVars, historyVars
  <1>6. CASE Return0
    <2>1. LeavesNothing'
      <3>1. owner = "none" /\ ~ctx /\ thr = IF loopers = 0 THEN "none" ELSE "done"
        BY <1>6 DEF Return0, ExampleNext, UDPInv, Positions, Joined, Target
      <3>2. inflight = 0
        BY <3>1 DEF UDPInv, Flight, HandleTypeOK
      <3>3. UNCHANGED <<thr, owner, loopers, ctx, inflight>>
        BY <1>6 DEF Return0, vars, looperVars, historyVars, ioVars
      <3>. QED  BY <3>1, <3>2, <3>3 DEF LeavesNothing
    <2>. QED  BY <1>6, <2>1 DEF Return0, vars, looperVars, historyVars
  <1>7. ASSUME AppStep, UNCHANGED mainVars PROVE MainAt'
    <2>1. app \notin {"gone", "idle"}
      BY <1>7 DEF AppStep, UnInitClose, UnInitJoin, UnInitDelete, UnInitCTX, InitCTX, InitLooper,
                  UvUdpInit, BindSock, InitCastType, RecvStart, SetDispatch, SetVersion, InitFinish
    <2>2. pc = "init" \/ (pc = "delete" /\ app = "close")
      BY <2>1
    <2>3. CASE UnInitClose \/ UnInitJoin \/ UnInitDelete
      BY <1>7, <2>2, <2>3 DEF UnInitClose, UnInitJoin, UnInitDelete
    <2>4. CASE UnInitCTX
      BY <1>7, <2>2, <2>4 DEF UnInitCTX, looperVars, historyVars
    <2>5. CASE InitCTX
      BY <1>7, <2>2, <2>5 DEF InitCTX, NewLooper
    <2>6. CASE InitLooper \/ UvUdpInit
      BY <1>7, <2>2, <2>6 DEF InitLooper, UvUdpInit
    <2>7. CASE BindSock \/ InitCastType \/ RecvStart \/ SetDispatch \/ SetVersion \/ InitFinish
      BY <1>7, <2>2, <2>7 DEF BindSock, UvUdpBind, UsesUnset, InitCastType, RecvStart, SetDispatch, SetVersion, InitFinish, Return
    <2>. QED
      BY <1>7, <2>3, <2>4, <2>5, <2>6, <2>7 DEF AppStep
  <1>8. ASSUME LoopThread \/ Callbacks, UNCHANGED mainVars PROVE MainAt'
    <2>1. thr \notin Ended /\ UNCHANGED <<app, after, ctx>>
      BY <1>8 DEF Ended, LoopThread, LoopRun, DoEventSend, FinishClosing, Callbacks, AfterSend, Call, appVars,
         RunStep, WorkThread, RunEnter, AsyncCB, AsyncEvent, DoEventDone, RunLeave, RunReturn,
         DoEvent, UvFinishClosing, ThreadGoto
    <2>2. pc # "done"
      BY <2>1 DEF LeavesNothing, Ended
    <2>. QED  BY <1>8, <2>1, <2>2
  <1>. QED
    BY <1>1, <1>2, <1>3, <1>4, <1>5, <1>6, <1>7, <1>8 DEF ExampleNext, Main

LEMMA MainInvStep == MainInv /\ [ExampleNext]_<<vars, mainVars>> => MainInv'
  <1> SUFFICES ASSUME MainInv, [ExampleNext]_<<vars, mainVars>> PROVE MainInv'
    OBVIOUS
  <1>1. [Next]_vars
    BY MainMapsToNext
  <1>2. UDPInv' /\ [LooperNext]_looperVars
    BY <1>1, UDPInvStep DEF MainInv
  <1>3. Joined'
    BY <1>2, JoinedStep DEF MainInv, UDPInv
  <1>4. MainAt'
    <2>1. CASE ExampleNext
      BY <1>2, <1>3, <2>1, MainAtStep
    <2>2. CASE UNCHANGED <<vars, mainVars>>
      BY <2>2 DEF MainInv, MainAt, LeavesNothing, vars, mainVars, looperVars, historyVars, ioVars
    <2>. QED  BY <2>1, <2>2
  <1>. QED  BY <1>2, <1>3, <1>4 DEF MainInv

(* When the example program ends, the loop thread has ended before, and     *)
(* with its looper, its udp_ctx_ and its sends nothing is left (NetUDP,     *)
(* DeleteUDP), however many messages it sent and whatever failed in Init.   *)
THEOREM ExampleLeavesNothing == ExampleSpec => []LeavesNothing
  <1>1. MainInv => LeavesNothing
    BY DEF MainInv, MainAt, LeavesNothing
  <1>. QED
    BY <1>1, MainInvInit, MainInvStep, PTL DEF ExampleSpec
=============================================================================
