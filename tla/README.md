# lib_udp in TLA+

This directory holds a formal model of [lib_udp](../src/README.md), a C++ library
that gives a program asynchronous UDP over libuv: what its parts do, the model
checking of small instances with TLC, and proofs for all instances with TLAPS.
File names below are relative to `src/lib_udp/`.

    tlc -config UDPImp_life.cfg MCUDPImp.tla      # one run
    tlapm UDPImp_proofs.tla                       # one module of proofs

## 1. The system

An application owns a handle (`IUDP`, made by `NewUDP`, deleted by `DeleteUDP`)
and calls `Init`, `Send` and `UnInit` on it. Each successful stretch between
`Init` and `UnInit` has its own `CLooper`: a libuv loop with a thread that runs
it. Received packets and results of sends come back through two callback
interfaces, on that thread.

| component | code | state | operations | correct when |
|---|---|---|---|---|
| send path | `include/UDPImp.h` 73-338, `src/Looper.cc` 89-140, `src/UDPImp.cc` 149-300, 561-589 | ten event buffers with their flags, the event queue and its mutex, the pending wakeup, one request `send_req_` with one buffer `send_buf_` | `Send`, `EventBuf`, `PushEvent`, `AsyncEvent`, `DoEvent`, `SendInline`, `AfterSend` | no buffer has two users, no wakeup is lost, messages leave once and in order, a send is refused only for want of a buffer |
| looper | `src/Looper.cc`, `include/Looper.h` | loop, thread, two async handles, `_inited`, `_is_closed` | `InitLooper`, `Close`, the destructor; `WorkThread`, `run`, `AsyncCB`, `CloseWalkCB` | starting and destroying end, the thread does not outlive the object, no handle is left in the loop |
| UDP handle | `src/UDPImp.cc`, `include/UDPImp.h`, `src/icommonunication.cc` 14-40 | `udp_ctx_`, `ptrLooper_`, addresses, `socket_ver_`, `data_dispatch_`, `send_notify_` | `NewUDP`, `Init`, `Send`, `UnInit`, `DeleteUDP`, and the callbacks | callbacks find what they use alive; traffic follows the last successful `Init`; buffers are accounted for; calls return |
| ring buffer | `include/uv_utils.h` 111-330 | storage, two positions, two flags | `write`, `read`, `clear`, `size` | a bounded queue |
| packet reassembly | `include/Packet.h` 1-158 | receive buffer | `OnRecvData` | what is delivered does not depend on how the stream was cut |
| thread wrapper | `include/uv_utils.h` 338-386 | thread, running flag | `Start`, `Stop`, the destructor | joins exactly the threads it started |
| interface addresses | `src/icommonunication.cc` 42-187 | none | `IPV4`, `IPV6`, `IPAll`, `Format` | each list has the addresses of its family |
| mutex | `include/uv_utils.h` 20-75 | a `uv_mutex_t` | lock, unlock | (part of the send path) |
| allocation | `include/Packet.h` 43-86, 160-197, `include/UDPImp.h` 115-185, `src/UDPImp.cc` 12-58, and the `malloc`s of the other parts | the blocks of `malloc` and who points to them | `CreateUvEvent`, `FreeUvEvent`, `NewUDPCTX`, `DelUDPCTX`, `SetCount`, ... | `free` gets only what `malloc` gave, and every block but `_data`, whichever `malloc` fails |
| example program | `example/main.cc` | a handle and a loop index | `main`, `NetUDP` | ends, and leaves nothing behind |
| trees | `ext/lib_uv/vc14/x64/include/uv/tree.h` | nodes with links and colours | `RB_INSERT`, ..., `SPLAY_FOREACH` | an ordered set, and a balanced one |
| error texts, logging | `include/uv_utils.h` | none | | text only |
| libuv | the rest of `ext/` (declarations only) | loop, handles, requests | | external |

**How they interact.** The application thread calls into the handle and, through
it, into the looper: it constructs the looper, adds the UDP handle to its loop,
appends to the event queue under the mutex and wakes the loop with
`uv_async_send`. The loop thread runs libuv's callbacks: it drains the queue under
the same mutex, calls `uv_udp_send`, marks buffers free, reads packets, and closes
the handles. Shared without a lock are the flags of the buffers,
`data_dispatch_`, `send_notify_`, `_inited`, `_is_closed` and libuv's own loop.

**What is hard.** The flags of the pool are raced on by design; the queue's
wakeups are merged by libuv; a signal to close may be sent before the loop runs;
`Init` ignores some of its failures and leaves parts of an earlier `Init` in
place; `UnInit` drops what is queued; one request serves all sends. `hazards` in
`PROJECT.json` lists these at their lines, with the properties that watch them.

## 2. The modules

### SendChannel, SendPath, SendPath_proofs

`SendPath` takes the send path apart to single accesses to shared memory, or the
worth of one critical section.

| in the model | in the code |
|---|---|
| `isAvailable`, `buff` | `is_available_` and `_buff` of each `UvEvent` in `map_event_plus_` |
| `eventQueue`, `mutex`, `wakeup` | `_event_queue`, `_event_queue_mutex`, a pending `uv_async_send` |
| `pc`, `slot`, `msg` of a sender | where a thread is in `Send` and its locals |
| `loop` | where the loop thread is in `AsyncEvent` and `DoEvent` |
| `sendBuf`, `unsent` | the content of `send_buf_`; the sends libuv keeps, because the system would not take them at once |
| `inflight` | uses of `send_req_` whose completion libuv has not seen |
| `SendCall`, `EventBufSkip`, `EventBufFound`, `EventBufNone`, `EventBufClaim`, `EventBufFill`, `SendBadVersion`, `PushEvent`, `PushEventWake` | `UDPImp::Send`, `SendEventPlus_::EventBuf`, `CLooper::PushEvent` in their order |
| `AsyncEvent`, `DoEventLock`, `SendInline`, `UpdateEventStatus`, `PopEvent`, `DoEventUnlock` | `CLooper::AsyncEvent`, `CLooper::DoEvent`, `UDPImp::DoEvent` and `SendInline` |
| `UvUdpSend`, `UvSend` | what libuv does with the one request and the one buffer: the data are taken at once, or kept by reference and sent later, or the call fails |
| `AfterSend` | the completion callback |

The test of a flag (`EventBufFound`) and its clearing (`EventBufClaim`) are two
steps, because in the code they are two accesses with nothing between them and a
second thread. `UpdateEventStatus` comes before `PopEvent`, as in the code: a
buffer is offered again while its event is still at the front of the queue.

A callback may send too: `Loop` may be one of the `Senders`. It then calls `Send`
only where libuv runs callbacks (`MayCall`), and the loop goes on when the call has
returned (`CallbackReturned`). It is still a second sender: an application thread may
be anywhere in `Send` meanwhile. `Lock` and `UnLock` are `CAutoLock`.

With `BadVersion` the version that `Send` finds may be none: it returns 3 with the
slot it has claimed. `sawFull`, `handed` and `lost` (the slots taken so) are history: no
guard reads them.

`SendChannel` is what all this is for: a bounded queue between calls of `Send`
and `uv_udp_send`, in which a call ends by being accepted once or refused and
accepted messages leave in order. `ImplementsChannel` in `SendPath` states the
implementation. The map: a call is open until its event is in the queue or it was
refused, for want of a buffer or for its version, and the channel holds the queued events whose buffer has not been read yet.

### Looper

`Looper` has the steps of the owner (construction, each step of `InitLooper`,
`Close`, the two blocking steps of the destructor) and those of the loop thread
(before, in and after `uv_run`). `handle` gives each handle in the loop
a state: not there, there but not active (a UDP handle that does not receive),
active, closing, closed. From libuv come only three facts, each from how the code
relies on it: `uv_run` returns when no handle is active or closing (`RunEnter`,
`RunLeave`), a signalled async handle is called back once for any number of
signals (`AsyncCB`, `AsyncEvent`), and a handle being closed is closed at the end
of the iteration (`UvFinishClosing`).

The owner is left as general as it can be: it may add one handle, activate it,
push events and close at any time after `InitLooper` has returned, whatever that
returned. Module `UDPImp` EXTENDS `Looper` and builds its own actions out of these
steps; its property `OwnsLooperProperly` is `LooperSafeSpec` itself, so a UDP
handle is one of the owners for which the looper was checked and proved.

Where the code goes on to use a member that was never initialised (`Close` after
an `InitLooper` that failed before `uv_async_init`; `uv_thread_join` of a thread that
was never made; a UDP handle that `uv_udp_init` did not set up, `UsesUnset`), the variable `undefined` becomes true and the behaviour stops
there: nothing after that point can be claimed of the program, and each property
says where it excuses such an end. `UsesOnlyStarted` says when it is reached: only
after a failure of libuv or of an allocation (`Faults`), or by a push that a callback makes while
the looper is being destroyed.

### UDPImp, MCUDPImp, UDPImp_proofs

`UDPImp_proofs` has the theorems about the looper, the handle and the example, since each
is proved from those of the one before.

One application thread calls the handle. A call of `Init` is cut where it fails or
where the loop thread can see it: `UnInitClose`, `UnInitJoin`, `UnInitDelete`,
`UnInitCTX` (the `UnInit` it starts with), `InitCTX` (which may get no memory for
`udp_ctx_` or the looper), `InitLooper`, `UvUdpInit` (which may fail, unnoticed),
`BindSock`, `InitCastType`, `RecvStart`, and the three assignments `SetDispatch`,
`SetVersion` and `InitFinish`, between which packets may come. `Send` is one step here, by
its return value, since `SendPath` has the detail. `DoEventSend`, `AfterSend`,
`AfterRecv` and `FinishClosing` are the loop thread's; the two callbacks call an
object of the application, if there is one, and that may call `Send` (`Call`).

Values are replaced by where they come from: an address is the number of the
`Init` that wrote it, and so are `data_dispatch_` and `send_notify_`. That
is what the properties ask about. Two more addresses are told apart. `Nowhere` is
zeros: from a `dest_ip_` that is no address (what `uv_ip4_addr` returns is
overwritten), from a `dest_port_` that is cut to 16 bits, or for want of an `Init`.
`Cut(n)` is what an event keeps of an IPv6 address in its `struct sockaddr`: the first
sixteen bytes; `uv_udp_send` reads the rest from the members that follow.

`param` keeps of `UDPInit_` what `Init` branches on: the version (valid or not), the
destination (port zero, good, or bad), the kind of cast, whether there is a receiver
and whether a notifier. Every libuv call that can fail may fail. `lost` counts the
buffers that were marked in use and that no event refers to any more; it is history,
as are `called` (the last callback: whose object it was given to, and whose it should
have been) and, of the looper, `served`, `initOK` and `loopUp`.

`inflight` is not part of `Alive`, by which `uv_run` decides to stay: the one
request is in flight only while its UDP handle is active or closing, or while
the looper's own handles are, so it would change nothing.

### BoundedFifo, CircularBuffer, CircularBuffer_proofs

`CircularBuffer` follows the three layouts that `write` and `read` tell apart by
the positions alone, with the flags set as the code sets them. `BoundedFifo` is
the queue. `call` records what a call was given, in both; so `ImplementsFifo` compares
the returned count and the elements read of each call with those of the same call on
the queue, for calls that ask for more than fits too.

### PacketSync, PacketSync_proofs

`OnRecvData` appends a piece to the buffer (`OnRecvData`) and then loops:
`CutPacket`, `Resync` (no flag where one should be: everything is discarded),
`Return`. Only the first byte of a header matters, and it is represented by the
`dataSize` of that header; `PackSize` is the 32-bit sum. Payloads may look like
headers. `Border` is the reference: where packets begin in the whole stream, however
it was cut. A border lies behind a packet only if its length fits in `pack_size`.

### Example, MCExample

`main` of the example, its two variants (`example_01` on a bare handle, `example_02`
through `NetUDP`), each step a step of the application thread of `UDPImp`.

### Kits, Storage, Kits_proofs, MCParts

`Kits` is a `CUVThread` whose function is `BaseKits::IPAll`: the owner's `Start`,
`Stop` and destructor, and the thread that walks the interfaces with the one `buf` it
reuses. `Storage` is every `malloc`, `realloc` and `free` of the repository, with an
action for each function that calls them. It keeps apart what a member points to
(`pointer`) and the blocks `malloc` gave for it (`blocks`), since the two part ways: `Send`
writes its handle over the pointer to the byte of `_data`, and a `realloc` that fails
overwrites the pointer to a block that is still there. Which `malloc`s succeed is their
choice; some results are written through without a look (`crashed`). Of parameters of
requests `AllocParam(o)` and `FreeParam(o)` stand for two pairs of functions that are
alike line for line.

`PacketSync`, `Kits` and `Storage` share nothing, and `MCParts` checks them in one run;
`MCContainers` does so for the ring and the trees.

### OrderedSet, TreeNodes, RBTree, SplayTree, TreeNodes_proofs, RBTree_proofs, SplayTree_proofs, MCContainers

`uv/tree.h` is vendored and the library does not include it by itself (`uv.h` of the
Windows build does); it is modelled because it is the only file under `ext/` that
holds code rather than declarations, and because its rotations are the sort of
algorithm a test samples thinly. `TreeNodes` has what both trees share, `RBTree`
and `SplayTree` translate the macros one by one, and a call of a macro is one step. The
loops of both are the iterations of their body (`Repeat`), which the proofs need; a loop
that did not end would have no value. `OrderedSet` is what both are for. Every
call leaves its name, argument and result, so the refinement compares results call by
call and not only the elements.

The element `__node` on the stack of `SPLAY`, whose links collect what lies below and
above the element sought, is one more element, `Stack`; and the code's `__left` and
`__right`, the ends of what was collected, are the record `ends`. `SPLAY_FOREACH`
splays at each step, so it changes the tree it walks; the walk that removes what it
visits (`SplayDrain`) is written with `SPLAY_MIN` and `SPLAY_REMOVE`, since the header
has no safe walk for this tree.

## 3. The runs

| run | asks | instance |
|---|---|---|
| `send_one` | with one sending thread, does the path implement the channel, with its liveness? | 3 buffers, 6 calls, bad versions |
| `send_two` | do wakeups and draining survive an application thread and callbacks that both send? | 2 buffers, 4 calls, bad versions |
| `send_race` | *violated*: does a buffer have one user when two threads send? | 2 buffers, 2 calls |
| `send_overwrite` | *violated*: does a datagram leave with the message it was handed? | 2 buffers, 3 calls |
| `looper_life` | does a looper start, run and die in every interleaving, and when steps of `InitLooper` fail? | 2 loopers in turn, 2 events |
| `looper_race` | *violated*: does a started looper serve its loop until closed? | 1 looper |
| `udp_life` | over two `Init`s with every kind of argument and outcome: lifetimes, buffers, destinations, callbacks, use of the looper | 2 loopers, 2 buffers, 3 sends |
| `udp_live` | do calls return and queued messages leave, also when libuv or an allocation fails and while callbacks send? | 1 looper, 2 sends, faults |
| `udp_v6` | *violated*: does a message go where an `Init` for IPv6 said? | 1 looper, 1 send |
| `containers` | is the ring a bounded queue, are the trees ordered sets, and is the red-black one balanced? | ring of 3, calls of up to 4 elements of 2 kinds; trees of 8 elements, 7 in the splay tree |
| `parts` | is the stream cut at its borders, whatever the pieces? are threads joined once, lists complete, blocks given back? | all streams of up to 5 bytes, header 2, integers of 3 bits, first buffer 3; 2 starts, up to 2 of 4 interfaces; 2 pools of 2 in turn |
| `example` | does the example end and clean up? | both variants, 6 messages, 2 buffers |

A violated run states something the repository's text says and the code does not
do; `findings` in `PROJECT.json` quotes the text. They are:

- two threads in `Send`, or one and a callback that sends, can take the same buffer
  (`include/UDPImp.h:215`), which the changelog already lists as open;
- an event overwrites `send_buf_` while an earlier send is still to leave from there
  (`src/UDPImp.cc:272`);
- the loop thread may find an empty loop and end while `InitLooper` returns true
  (`src/Looper.cc:29`);
- of an IPv6 destination the event keeps the first sixteen bytes, though the README of
  the library says IPv6 is supported (`src/UDPImp.cc:178`).

**What the models contain besides.** The properties of passing runs are worded around
behaviour that the code does have and a reader may not expect; the models keep it,
and this is where to see it:

- A send that `uv_udp_send` refuses is never reported, and overlapping uses of the
  one request may share a report (`src/UDPImp.cc:277`): no property counts reports.
- `Init` returns 0 when the looper did not start, when `uv_udp_init` failed, and when there
  was no memory for the looper or for `udp_ctx_` (`src/UDPImp.cc:324`, `:327`, `:335`,
  `:351`): `QueuedIsSent` speaks of a loop that is `served`, `UsesOnlyStarted` excepts
  such failures, and the liveness properties end where what was not set up is used.
- A packet that arrives between `uv_udp_recv_start` and the assignment of
  `data_dispatch_` goes to the receiver of an earlier `Init`, or to nobody, and what the
  new one sends before `socket_ver_` is assigned goes out with the old version:
  `CallbacksGoToLastInit` and `SentWhereInitSaid` speak of what comes once `Init` is done
  (`src/UDPImp.cc:137`, `:140`).
- Buffers of events that are queued at `UnInit` stay marked in use, and so does one
  taken by a `Send` with a bad version: `PoolAccounts` and `FlagsTellUse` count them in `lost`.
- A `dest_ip_` that is no address, or a `dest_port_` that does not fit 16 bits, gives a
  destination of zeros and `Init` returns 0: `SentWhereInitSaid` speaks of good ones,
  and of IPv4.
- A packet without data at the end of what came waits for more; a wrong flag discards
  what follows in the buffer; a `dataSize` of 2^32 - 12 makes `pack_size` 0 and
  `OnRecvData` never returns (`include/Packet.h:118`, `:124`): `CutsAtBorders` and
  `Returns` name these.
- `SetCount`, `CreateUvEvent`, `AllocWriteParam` and `OnRecvData` write through results
  they have not looked at: `OnlyDataLost` ends with a program that crashed. The byte of
  `_data` is never freed (`include/UDPImp.h:132`, `:179`), and it must not be, once
  `Send` has put its handle there: `FreesOnlyBlocks`.
- `CUVThread::Start` ignores a failure of `uv_thread_create` and joins all the same
  (`include/uv_utils.h:358`): `JoinsItsThread` excepts it.
- A push from a callback while `UnInit` closes the looper may reach an async handle
  that is closed.

**Bounds.** `NumSlots` is 2 or 3 for the code's 10: three make a scan pass used
slots, stop at a free one behind them, and be overtaken by the loop; two are
enough to fill the pool. `MaxSends` is twice `NumSlots` in `send_one`, and above it in `udp_life`, so
that every buffer is reused. Two loopers and two `Init`s show anything one
leaves to the next, and a third has nothing new to inherit: members are
overwritten, `lost` only grows. Where an argument of `Init` makes it fail, the
fields it has not come to yet have one value (`MCParams`). The ring's capacity of 3 with counts up to 4
reaches every layout, calls that end exactly at the end of the ring and calls larger
than the ring. `MaxQueue` is `NumSlots` under `UDPImp`, since each event has a
buffer. Five bytes with a header of two hold two packets of each size, with and
without data, and one that never becomes complete; three bits are enough for a sum
that wraps to 0, and to something smaller than a header. Removal from a red-black tree of eight
elements has to be repaired over two levels, in each of its cases and their mirror
images. Seven elements give `SPLAY` paths in which it turns and links on both sides more
than once. A pool of two shows that some of its blocks were had and some not, and a second pool that the first has left its bytes.
`udp_life` is without faults, so that `UsesOnlyStarted` says something there; `udp_live` and
`looper_life` have them. In the example `NumSlots` of two is less than its six messages, so it meets a full pool.

**Deadlock** is not checked where calls are bounded: once they are spent, or after
`DeleteUDP`, the system rightly stops, and liveness properties exclude a stop
anywhere else; the rest of `parts` may stop too. The ring and the trees never stop and are checked for it.

**Fairness** is on the threads and on libuv: an application thread inside a call and
the loop thread are scheduled (weakly fair). Calls of the application, packets and
messages sent by callbacks have none. The mutex needs no stronger assumption: the
loop holds it for a drain that ends, since a push waits meanwhile, and a sender holds
it for two steps. In `UDPImp` and `Looper`, where the loop thread may be kept busy by
packets and reports whose callbacks send again, two steps are strongly fair: the
callback of a signalled async handle, because an iteration of `uv_run` calls back every
one of them before it polls again; and the completion of a send, because the kernel
completes it whatever else arrives. Each failure of a libuv call is a choice, never
forced or forbidden by fairness.

**Mutants.** Each property of a passing run has a mutant beside the action it
changes: a bug one could write there, under which the run must fail.

## 4. What is proved

The theorems hold for every number of senders, buffers, calls, loopers and every
capacity. The assumptions are those named in the modules: sizes are positive
naturals, and, for theorems about the pool, `OneSender` (at most one thread is in
`Send`), without which they are false, as `send_race` shows.

- **Send path** (`SendPath_proofs`). `BaseInv` is the types with three facts
  about the two critical sections: the mutex is held by a sender at `wake` or by the
  loop while it drains, and by nobody else; the loop at `release` or `pop` has an
  event at the front of the queue; a slot a sender reads or writes is one of the pool.
  It makes `NoLostWakeup` inductive: a push and its signal are one critical
  section, and a drain that consumed a signal ends only with an empty queue.
  With one sender, `PoolInv` says where each buffer is: the sender has it, it is
  queued once, or it is free; and the one at the front of the queue may be
  free and queued at once, between `UpdateEventStatus` and `PopEvent`. That
  clause is what makes the unlocked pool work: the sender may take that
  buffer and even append it again, but the loop has stopped reading it. From
  `PoolInv` come `ExclusiveSlot`, `FlagsTellUse`, `RefusedOnlyWhenFull` and
  the safety half of `ImplementsChannel`, step by step, with slots lost to bad versions.
- **Looper** (`UDPImp_proofs`). `LooperInv` relates where the owner is to what it has
  made, and the pending close signal to the handles. It gives `NoUseAfterFree`,
  `CloseIsHeard`, `NothingLeftOpen` and `UsesOnlyStarted`, with faults.
- **Handle** (`UDPImp_proofs`). First `OwnsLooper`: every step of the handle is
  a step of `Looper` or leaves its variables alone, so `LooperInv` is preserved
  without going through the looper's actions again. `UDPInv` adds to it where the
  application thread can be for each state of the looper (`Positions`), that sends
  are in flight only with a live handle (`Flight`), the balance of the pool, and
  that after a successful `Init` IPv4 messages are queued for its destination and nothing
  is read for another one (`Target`, `Receiving`). Its consequences are the safety properties
  of `udp_life`.
- **Ring** (`CircularBuffer_proofs`). `RingInv`: positions in range, and the flags
  in agreement with them. `RingIsFifo`, the refinement of `BoundedFifo`, needs it for
  the size: `SizeOf` elements from the read position on end at the write position
  (`SizeFacts`). `WriteShape` and `ReadShape` reduce the layouts to two: one piece, or
  around the end. In both the new elements follow the old ones (`GrowsRing`), and those
  that are read are the first ones (`RingRead`).
- **Packets** (`PacketSync_proofs`). For every stream, header length and width:
  the buffer is the received bytes not yet taken (`BufferIsInput`), and packets begin
  at headers, are as long as these say and do not overlap (`PacketsInOrder`). A packet is
  cut off where `taken` is, and what `buffer` shows there is the stream's, so the
  two are proved in this order. `PacketsAtBorders` is about a stream that is one packet
  after another: `CutSoFar` says that `taken` is a border and that the packets cut off
  are those that begin at the borders before it. Each packet leads to the next border
  (`NextBorder`), and no border lies inside a packet that begins at one (`NoneCrossed`),
  so none is passed over and `Resync` never happens. `Border` is a recursive function: that it has
  the value its definition says is proved from the least set that is closed under
  its equation (`ReachedFixpoint`, `BorderEquation`), with induction in the form that a
  set of naturals with a member has a least one (`LeastOf`).
- **Threads, addresses and storage** (`Kits_proofs`). `ThreadJoined`
  needs that `thread_` is the last thread started while the flag is set, and that only
  that one can still run. `AddressesListed` needs what the list is in the middle of a
  walk: the part of `wanted` for the earlier queries and for the interfaces from `i` up
  (`ListSoFar`), and that `buf` is empty between rounds. `Addresses` gives each address by
  its rank from the end, and `LastFirstExtends` says that one interface more, going
  down, adds one item at the end or none. `FreesAreSound` and `NothingElseLost` come from
  one invariant: nothing points anywhere for an object that is gone, since making it again
  would otherwise forget blocks, and each pointer but `_data` is null or the one block there is.
- **Example** (`UDPImp_proofs`). Every step of `main` is a step of `UDPImp`
  (`MainMapsToNext`), so `UDPInv` holds without going through the handle's actions again.
  `MainInv` adds that the thread of a looper that is gone was joined (`Joined`) and what
  `main` has at each of its lines (`MainAt`). `ExampleLeavesNothing` holds with faults of libuv too.
- **Splay tree** (`SplayTree_proofs`). `SplayIsTree` is the invariant: the tree is a
  search tree. `SplayRefines` is the refinement of `OrderedSet`, for any number of
  elements: every call ends, returns what it should and keeps the rest in order. That
  links form a tree is said without paths or induction: `Labelled` gives each element
  two labels, the elements (or ends of the order) between which a search finds it; the
  root lies between the ends, and the child on a side between its parent and the
  parent's label on that side. `Descends` turns this into induction over the tree: what
  holds of the root and of the children of each element it holds of, holds of all. Left
  and right are treated alike (`side`, `Before`). In the middle of `SPLAY` the elements
  are in two parts, and `Split` says how they fit: the tree below the root lies between the
  two `ends`, which have an open link to it, and a label that is not known before the
  loop ends stands for the element that will be root. Turning (`SplitTurns`), linking
  (`SplitLinks`) and assembling (`SplitAssembles`) keep it. `RepeatEnds` (in
  `TreeNodes_proofs`, with what else both trees need) shows that a loop ends if each
  iteration shrinks a finite set: for `SPLAY`, what lies between the
  ends; for `Leftmost`, the walk and the draining, what is left to visit. Insertion
  and removal take a search tree `Apart` at its root and put two `Together`; a walk
  has at each step visited, in order, what lies below where it is (`Ordered`,
  `OrderedNext`).

- **Red-black tree** (`RBTree_proofs`). `RBIsSound` is the invariant, `IsRB`; from it
  come `RBIsBalanced` and the refinement of `OrderedSet`, `RBRefines`, for any number of
  elements. `IsRB` has four parts. `Shape`: every element has its two labels, as in the
  splay tree, and links up and down agree. `Heights`: there is a number for each link,
  the black elements on any path down from it. `RedRule`: a red element has a black
  parent. The root is black. In the middle of a call one part fails at one place. During
  `RB_INSERT_COLOR` the rule may fail for one element and its parent (`Grown`); recolouring
  moves that up (`RedGoesUp`), a rotation or two ends it (`OuterTurns`, `InnerTurns`).
  During `RB_REMOVE_COLOR` one link is a black element short (`Shrunk`, `Lacking`); a red
  sibling is turned up (`RedRaised`), a black one without red children is
  reddened and the lack goes up (`SiblingReddened`), else `FarReddened` and
  `SiblingRaised` end it. The loops end because there are fewer elements of a colour, or
  more room around where they are. `ShapeRotates` is the one lemma about rotations: `Shape`
  holds again with one label changed on either element. Removal of an element with two children
  renames it to its successor (`ShapeRenamed`, `HeightsRenamed`, `RedRenamed`). Of the
  queries, `SuccessorIs`, `ClimbIs` and `CeilingIs` say that an element is the
  neighbour or the bound asked for; the walks follow from `NeighbourIs`. `CountsUp` turns
  the numbers of `Heights`, which look down, into the count from the root by which
  `Balanced` is stated.

Only model-checked: liveness (`DestructorReturns`, `InitLooperReturns`, `CallsReturn`,
`QueuedIsSent`, `QueueDrains`, `Returns`, `MainReturns`, and the fairness of
`ImplementsChannel`), which the prover's backends do not reach. Every safety property
of a passing run is a theorem.

## 5. What is not modelled

- Steps inside libuv. A call of `uv_async_init` or `uv_udp_*` on the application
  thread is atomic, though the loop thread works on the same loop. Of the headers of
  libuv all but `tree.h` are declarations and constants: there is no behaviour in them.
- Error texts (`GetUVError`, and `errmsg_`, which only `GetLastErrorMsg` reads), logging (`LogUv`), the text that `Format` prints, and what
  is printed by the example; its `call_uv_timer`, and `CMutex::TryLock`, which nothing
  calls.
- A second application thread on one handle outside `SendPath`, and callbacks that
  call `UnInit` or `DeleteUDP`: the loop thread would join itself.
- The payload of packets, and `example_02`'s object as a receiver: `NetUDP` implements
  `IDataDispatch` but is never passed as `recv_data_`.

## 6. Plan

Done: `SendChannel` and `SendPath`, with callbacks that send; `Looper`; `UDPImp` over
`Looper` with the arguments of `Init`; `BoundedFifo` and `CircularBuffer`;
`PacketSync`; `Example`; `Kits`; `Storage`; the trees; the proofs of section 4.

Next: `SendPath` under `UDPImp`, so that `DoEventSend` and `SendQueued` are what the
fine-grained path does; a second application thread in `UDPImp`, to say which pairs of
calls are safe.
