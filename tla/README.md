# Verification of MovidiusTest

TLA+ models of the host side of MovidiusTest, the Android port of the Intel
Movidius Neural Compute SDK (`src/ncsdk`) and its test application
(`src/app`), with the TLC configurations that check them and the TLAPS proofs
of what holds for every size.

Paths below are relative to `src/ncsdk/src/main/jni/movidious/` unless they
start with `src/`.

## 1. The system

```
  MainActivity (Java)                      USB attach / permission / camera callbacks
     |  MvNcAPI, UsbDataLink (Java)        native handles and their release
     |  serenegiant_ncsdk_*.cpp (JNI)
  +--+---------------------------+   +-----------------------------------+
  | MvNcApi (NCAPI v1)           |   | ncsdk2/mvnc_api.cpp (NCAPI v2)    |
  |   devices, graphs, pipeline  |   |   devices, graphs, fifos          |
  | UsbDataLink                  |   | ncsdk2/XLink.cpp: streams         |
  |   synchronous exchanges      |   | ncsdk2/XLinkDispatcher.cpp: events|
  +--+---------------------------+   | ncsdk2/XLinkPlatform.cpp: USB     |
     |                               +--+--------------------------------+
   Neural Compute Stick               Neural Compute Stick (runs XLink, too)
```

| component | state | operations | what must be right |
|---|---|---|---|
| **XLink dispatcher** (`ncsdk2/XLinkDispatcher.cpp`) | two rings of event slots with cursors, a pool of completion semaphores with reference counts, `addEventSem`, `notifyDispatcherSem`, `resetXLink`; a scheduler and a reader thread per link | add an event, wait for it, take the next event, serve, block, unblock, answer, reset, start | every event is processed once, its caller is woken once and by it, nothing is woken too early or never, no semaphore is destroyed under a waiter, reset comes to its end |
| **XLink streams** (`ncsdk2/XLink.cpp`) | per stream and end: identifier, write and read size, remote and local fill level, packets received and held, `closeStreamInitiated`, a semaphore; `nextUniqueStreamId` | open, look up, write, read, release, close; local, remote and response handlers | the writer's credit is exact, no packet is lost or reordered, the two ends agree on sizes and identifiers, blocked writes and closes return |
| **XLink platform** (`ncsdk2/XLinkPlatform.cpp`) | USB handles | find, boot, read, write | delivers bytes or fails |
| **NCAPI v2** (`ncsdk2/mvnc_api.cpp`) | device list, graphs, fifos with counters of elements and user parameters, one global and several local mutexes | open, close, destroy devices; allocate, queue, destroy graphs; allocate, write, read, destroy fifos; options | locks are released on every path, nothing is used after its destruction, fifo counters match the elements |
| **NCAPI v1** (`mvnc_api.cpp`) | device list, one graph per device with `have_data`, `input_idx`, `output_idx`, `user_param[2]`, `failed`; a list lock and one lock per device | add, remove devices; allocate, deallocate graphs; load_tensor, get_result; options; soft_reset | at most two tensors in flight, each result paired with its own parameter, locks released on every path |
| **USB data link** (`usb_data_link.cpp`) | device handle, `active` | connect, disconnect, status, set_data, get_data in 10 MB chunks | the exchange of header, permit and data stays in step |
| **JNI glue** (`serenegiant_ncsdk_*.cpp`) | native pointers in Java fields | create, destroy, forward | no call on a destroyed object |
| **Java wrappers** (`src/ncsdk/src/main/java/.../ncsdk`) | native handle, list of links | add, remove, open, close, release | release once, not under a call |
| **Application** (`src/app/.../MainActivity.java`) | camera state, USB control blocks | attach, connect, disconnect, cancel, destroy callbacks | returns to a state from which the camera can be opened |
| **fp16** (`test/fp16.cpp`) | none | half2float, float2half | round to nearest, special values |

How they interact: an XLink call of an application thread builds an event and
hands it to the dispatcher of its link (shared ring, one semaphore to wait on).
The scheduler thread takes it, calls back into `XLink.cpp` for what the
protocol says of it, and either completes it, parks it as blocked, or sends it
and parks it as pending until the peer's response. The reader thread turns USB
messages into events of the second ring; for written data it adds the packet
to the stream before it queues the event. NCAPI v2 opens streams for each
device, graph and fifo and calls XLink with its own mutexes held. NCAPI v1 uses
no dispatcher: a call holds the device lock across a synchronous exchange.

What is hard here: completions cross three threads without a common lock; a
slot of the ring is SERVED both when it is free and when it holds an event that
nobody took yet; semaphores are shared by reference count; the two ends of a
stream keep each other's fill level up to date with messages only; a close must
wait for data that another thread is still reading; the link may fail or be
reset in the middle of all this. `PROJECT.json` lists each hazard at its line.

## 2. The modules

| module | models | state |
|---|---|---|
| `XLinkDispatcher` | `XLinkDispatcher.cpp`, with the callers of `XLink.cpp` reduced to add, wait, return | one link: both rings slot by slot, the semaphore pool, all threads |
| `StreamChannel` | the promise of a stream, no code | per writer: capacity, queued and held packets |
| `Totals` | the sum of a sequence, for what `StreamChannel` and `XLinkStream` say of bytes | none |
| `XLinkStream` | `XLink.cpp` at both ends of one stream | descriptors, packets, requests, messages, threads of two peers |
| `TensorPipe` | the promise of a graph of NCAPI v1, no code | the tensors in flight and the tensor whose result is there |
| `MvNcApi` | `mvnc_api.cpp` for one device, with what its exchanges in `usb_data_link.cpp` do to the stick | locks, device, graphs by address, threads, stick |
| `HalfFloat` | `test/fp16.cpp`: `half2float`, `float2half` on sign and magnitude | none |
| `TensorLayout` | layouts, strides and the conversion of tensors in `ncsdk2/mvnc_api.cpp` | none |
| `NcApi2` | `ncsdk2/mvnc_api.cpp` for one device: open to destroy, graphs, fifos, tensors | mutexes, device, lists, graphs, fifos, threads, stick |
| `CameraApp` | `MainActivity.java`, the Java wrappers, the JNI functions and native lists below them | camera state, tasks, four threads, links, lists |
| `MCDispatcher`, `MCStream`, `MCMvNc`, `MCNcApi2`, `MCCamera` | instances for TLC | |
| `XLinkDispatcherProofs`, `XLinkCallProofs` | theorems about `XLinkDispatcher`, the second on the first | |
| `XLinkStreamProofs` | theorems about `XLinkStream` and that it implements `StreamChannel` | |
| `MvNcApiProofs` | theorems about `MvNcApi` and that it implements `TensorPipe` | |
| `NcApi2Proofs`, `NcApi2PipeProofs`, `NcApi2ParamProofs` | theorems about `NcApi2`, each on the one before | |
| `CameraAppProofs` | theorems about `CameraApp` | |

### XLinkDispatcher

Variables are the fields of `xLinkSchedulerState_t`: `lq`/`lcur`/`lproc` and
`rq`/`rcur`/`rproc` are the rings with `cur` and `curProc`; `refs`, `owner`,
`posted`, `semaphores` the pool `eventSemaphores`; `addSem` and `notify` the
two semaphores. `fresh` is a history variable: the local slots that were added
and not yet taken, which the code cannot tell from completed ones. `lapped` is
one, too: an event was added to a slot in use, or to a ring without room for it,
which no line tests. Findings 1 and 2 come from there and from a second connection;
`Orderly` (neither has happened) is the premise of the properties about slots and
waiters, and `Serving` (the link has neither failed nor been reset) of those that
a reset cancels. `fault` records the first failed assertion or null pointer; the process stops there,
because `ASSERT_X_LINK` ends it.

| actions | code |
|---|---|
| `Call`, `AddEvent`, `AddNoSem`, `Post` | `dispatcherAddEvent`: the part under `addEventSem`, then the post of `notifyDispatcherSem`, which is a step of its own because the event can already be seen |
| `Lookup`, `Wait`, `Return` | `dispatcherWaitEventComplete`: the search for the thread's semaphore, the wait, the use of the event by the caller |
| `FetchReady`, `FetchNext` | `dispatcherGetNextEvent` |
| `HandleServe`, `HandleBlock`, `HandleRefuse`, `HandleSend`, `FinishServe` | `dispatcherRequestServe` and `markEventServed`, which posts the waiter *before* it marks the slot |
| `HandleRemoteRequest`, `HandleResponse` | remote events: unblocking, `dispatcherResponseServe` |
| `Receive`, `ReaderPost`, `ReaderNext`, `ReceiveFails`, `ReaderGivesUp`, `ReaderMark` | `eventReader` and `dispatcherEventReceive` |
| `StartReset`, `FetchNext("drain")`, `FlushPending`, `FinishReset` | `dispatcherReset` |
| `Connect`, `Disconnect`, `LinkFails` | `dispatcherStart` and the environment |

What the protocol handlers decide (serve, block, refuse, send) is
nondeterministic here, within what `dispatcherLocalEventGetResponse` can answer
for each type (`Outcomes`).

### XLinkStream

Both peers run the same code, so the module has every variable twice
(`[Peers -> ...]`). The dispatcher is reduced to what `XLinkDispatcher` shows
of it when its hazards are out of the way: a request is handled once, ready
requests first, local ones before the peer's (`Turn`, `Incoming`), and is
completed by its own response. Each handler is one action: `LocalCreate`,
`LocalWrite`, `LocalRead`, `LocalRelease`, `LocalClose` for local requests,
`RemoteWrite`, `RemoteRelease`, `RemoteCreate`, `RemoteClose` for the peer's,
`ResponseCreate`, `ResponseClose` for answers. The reader adds received data in
`ReceiveData`, between the handlers of the scheduler, with only the stream's
semaphore between them. Bytes are counted in units of packets of size 1 and 2
against a buffer of 2 or 3; `MaxPackets` is `USB_LINK_MAX_PACKETS_PER_STREAM`.

`usage` is the way the API is used in a behaviour, chosen once from the constant
`Uses`: the operations of each thread, the sizes and bounds of the calls, and
`careful`, what the applications agree on, since the code promises nothing
without it: `"local"` (no call on a stream that another thread of the same end
is closing) and `"peer"` (no open while the other end closes, no read of what
was not written). Each property says which discipline it needs.

### StreamChannel and the refinement

`StreamChannel` is the abstract specification: in each direction a FIFO of
packets that never holds more than the buffer opened for it, and that is closed
only when it is empty. `XLinkStream!IsChannel` instantiates it with a
refinement mapping: the capacity of a direction is the writer's `ws`, its queue
is what the reader's end has not read followed by the data on the wire, its
held packets are those read and not released. TLC checks that every step of
`XLinkStream` is a step of `StreamChannel` or a stutter: that is where credit,
packet ring, ordering and close come together. `StreamIsChannel` proves it for all sizes.

### MvNcApi, TensorPipe

A call of NCAPI v1 is a sequence of critical sections of `MvNcApi::lock` (`lock`)
and `Device::lock` (`devLock`); every place where a thread may be held up is a
program counter, and an exchange with the stick lasts from the step that begins
it to the step that ends it. `graph` has a `Graph` object for each address, so
that a graph that is gone, and a new one at its address, can be told apart by
the properties and not by the code. `usage` is chosen from `Usages` as above:
who calls what, which exchanges may fail, whether the stick may be slower than
the timeout, whether the heap reuses addresses. `OneLoads`, `OneGets` and
`OneResets` say of `usage` what the code relies on and `MvNcApi::run` keeps to: one
thread loads, one gets results, `soft_reset` is not called beside them. Each
property names those it needs.

| actions | code |
|---|---|
| `LoadEnter`, `LoadOptions`, `LoadTest`, `LoadAgain`, `LoadDevice`, `LoadSend`, `LoadSendFails`, `LoadCount` | `load_tensor`; the write of `have_data++` is a step of its own because a `get_result` that gives up does not hold the device's lock |
| `GetEnter`, `GetTest`, `GetAgain`, `GetDevice`, `GetOutput`, `GetBusy`, `GetFails`, `GetAux`, `GetRetry`, `GetLate`, `GetDrop` | `get_result`, with its two loops, its errors and its timeout |
| `AllocEnter`, `Alloc`, `DeallocEnter`, `Dealloc`, `OptionEnter`, `Option` | `allocate_graph`, `deallocate_graph`, `set_graph_option`, `get_graph_option` |
| `ResetEnter`, `Reset`, `Add`, `RemoveErase`, `RemoveDelete` | `soft_reset`, `add`, `remove` and the destructor of the device, which runs after the list lock is free |
| `Started`, `StickDone` | the stick, as `load_tensor` and `get_result` take it to be: two inputs, one inference at a time, `host_ready` to start the next |

`TensorPipe` is a queue of two tensors whose results are returned in order. The
mapping of `IsPipe` takes the queue from `user_param`, `output_idx` and
`have_data` and the result from `output_data`, until the graph is gone or one
of its results was given up (`clean`, a history variable), and while `OneLoads` and
`OneResets` hold (`Followed`): otherwise the code promises nothing.

### HalfFloat, TensorLayout, NcApi2

A number is a pair of its sign and its remaining bits, so that all of
`float2half` is arithmetic on naturals. `TensorLayout` has tensors as functions
on positions and memory as functions on offsets; `Transfer` is the path of a
tensor from a host descriptor to the descriptor of the graph or back, with the
copy that the code makes when layout and type look the same.

`NcApi2` has a call as a sequence of steps between which other threads run: each
mutex (`globalMutex`, `dev_data_m`, `graph_streamm` and one
`fifo_mutex` each) is a key of `mutex`, each request on the graph monitor stream
appends the answer that a later step reads from `resp`, the lists of graphs and
fifos are linked lists (`head`, `next`), as in the code, because insertion and
removal are under different mutexes. A fifo carries its counters, the parameters
`in` and `out`, and on the stick its buffer and outputs (`stick`). Streams are
the FIFOs of `StreamChannel`. A walk of a list that finds nothing and does not come to a
last object (`Endless`: the list is empty or a circle) is a null pointer or a loop without
an end; the thread is then `crashed`. `usage` is chosen from `Usages`: what each thread
calls, which exits fail, what exists at first, descriptors and tensors.

| actions | code |
|---|---|
| `Open...`, `Close...`, `Destroy...` | `ncDeviceOpen`, `ncDeviceClose`, `ncDeviceDestroy` |
| `GAlloc...`, `GDestroy...`, `State...` | `ncGraphAllocate`, `ncGraphDestroy`, `ncGraphGetOption`, which sets the state of the graph (`StateSet`) after its mutex is free |
| `FAlloc...`, `FDestroy...`, `SetDesc`, `SetType` | `ncFifoAllocate`, `ncFifoDestroy`, `ncFifoSetOption` |
| `WriteEnter`, `WriteSend`, `WriteCount` | `ncFifoWriteElem`, `pushUserParam` |
| `QueueEnter`, `QueueIn`, `QueueDrain`, `QueueTake`, `QueueOut`, `QueueSend`, `QueueCheck` | `ncGraphQueueInference`, with the last consumer of an element |
| `ReadEnter`, `ReadWait`, `ReadCount` | `ncFifoReadElem`, `popUserParam` |
| `StickRuns` | the stick, external: an accepted inference takes an element and leaves a result |

### CameraApp

`sync` is `mSync` where it is held over more than a step, `state` is
`mCameraState`, `tasks` the messages of the worker's handler, `closers` the
monitor thread and the worker (both close links), `ui` and `run` the other two
threads. A data link has a native object (`none`, `there`, `deleted`); `listed`
and `native` are the two lists of links, which `add` and `remove` change in two
steps. The USB monitor, the camera dialog and the user are external: devices
come and go, requests are granted, refused or lost, and the monitor calls back
on one thread. What the code leaves to an exception that nobody catches, or to a
deleted object, ends the process (`alive`).

| actions | code |
|---|---|
| `OnAttach`, `OnConnect`, `OnConnectQueue`, `OnConnectFailed`, `OnDisconnect`, `OnDettach`, `OnCancel` | `mOnDeviceConnectListener` |
| `HandleTryOpen`, `TakeOpen`, `Open`, `Add`, `NativeAdd`, `ListAdd`, `TakeClose`, `CloseNext`, `ReleasedWorker` | the tasks of the worker; `UsbDataLink.open`, `MvNcAPI.add`; `mMvNcAPI` is read once for its test and again for its use |
| `Remove`, `NativeRemove`, `Removed`, `Disconnect`, `Release`, `Delete`, `ReleasedMonitor` | `MvNcAPI.remove`; `UsbDataLink.release` in three steps: `close`, the test of the native pointer, its deletion; the end of `close(dataLink)` |
| `Compute`, `Reset`, `ResetLink`, `ResetWritten`, `FinishApp`, `Leave`, `Destroy...` | the buttons, `mFinishAppTask`, `onDestroy` step by step |
| `RunBegin`, `RunUse`, `RunUsed`, `RunEnd` | `MvNcAPI.run` on the executor; its exchanges are in `MvNcApi` |

## 3. The runs

No run replaces a definition. `CHECK_DEADLOCK FALSE` in every configuration:
the number of calls is bounded and a failed assertion ends the process, so an
instance really comes to a stop.

| run | instance | shows |
|---|---|---|
| `dispatcher_reset` | host build, 3 threads, 3 slots, 2 semaphores, 4 requests, a link that fails, a peer that resets, a disconnect: the ring wraps, the pool runs out | the reference counts are exact (`SemRefsMatch`), no waiter loses its semaphore (`WaiterKeepsSem`), an add finds a slot (`AddFindsSlot`), a response its request (`ResponseHasRequest`), the drain of `dispatcherReset` ends (`DrainFindsNoReady`), no lost or spare notification (`NoLostWakeup`), each event taken once and in order (`EachEventOnce`), a completed call sees its own, handled event (`CompletionSound`) |
| `dispatcher_live` | 2 threads, 4 slots, 2 requests (PING, READ, WRITE), 1 request of the peer; fair | unblocked requests are handled (`ReadyIsHandled`), answered ones return (`PingReturns`) even while another request is blocked |
| `dispatcher_dup` | 2 threads, 3 slots, 4 requests | **violation**: a completed slot is taken again (finding 1) |
| `dispatcher_reconnect` | host build, 2 connections | **violation**: XLinkConnect returns before its ping (finding 2) |
| `stream_oneway` | host writes, device reads; up to 3 lives of the stream, 5 writes; `local`, `peer`; fair | no handler without its stream (`StreamFound`), blocked writes and closes return |
| `stream_twoway` | both open, write, read, close, 2 writes a side, `local`, `peer`; or close and write by different threads of one end, no discipline | exact credit and level, no semaphore kept, agreement of the ends, `IsChannel` for two directions in one descriptor; without discipline no credit, level, semaphore or received packet is lost until an assertion fails (`FreedIsEmpty`) |
| `stream_hang` | both directions, each end closes | **violation**: a close never returns (finding 3) |
| `stream_ids` | both directions, an open races a close | **violation**: the ends number the stream differently (finding 4) |
| `mvnc_pipeline` | 3 tensors, 2 addresses; `Pipelined`: a loader, a getter, a thread for the rest, exchanges that fail, a stick that is late; `Sequential`: one thread as in `MvNcApi::run`, the device removed by another; `Broken`: a lost tensor, addresses reused | no graph deleted under a call, GONE after a sleep, one exchange at a time, locks returned, stick and `have_data` agree, results paired, `IsPipe` |
| `mvnc_live` | a loader, a getter, a thread that allocates, deallocates, removes; fair | loads, gets, deletions and removals return, also a get that waits with nothing in flight when its graph goes (`CallsReturn`) |
| `ncapi2` | 3 threads, 2 graphs, 3 fifos of 2 elements; thirteen uses: `Serving`, `Chain`, `Refused`, `Shared` (a pipeline, two graphs in a row, the same with refused arguments, two consumers), `Lives`, `Once`, `Repeated`, `Failing` (an allocation is repeated after its failure; devices, graphs, fifos come and go while elements move and exchanges fail), `Kept`, `KeptGlobal` (the exits that keep a mutex), two of `Layered` (layouts, strides, descriptors that do not fit), `Sampled` (numbers at the edges of rounding); fair | mutexes returned, a call reads its own response, the lists sound, parameters paired, a trigger has its element, tensors kept, no waiting in a circle (`CallReturns`) |
| `camera` | a stick before and after its boot, 4 times plugged in, 2 links | one stick is opened at a time (`OneOpening`); a link leaves the lists before it is deleted, once (`LinkReleased`) |

*Bounds.* Every hazard of the dispatcher needs at most two requests that meet
in a slot, a semaphore or a response; three or four requests over three or four
slots let a slot be reused, skipped and reused again, and two semaphores make
the pool run out. The ring of 64 slots and the pool of 32 behave as smaller
ones do: the code compares cursors and states only, and all invariants of the
dispatcher are proved for every size. Streams: a buffer of two or three units with packets of one
and two makes a write block on bytes, on packets, and be admitted after a
partial release; three lives make a descriptor be reused twice. Messages on
the wire are bounded by the calls. Two peers are all a link has. NCAPI v1: three
tensors are one more than a graph takes and bring both indices back to the
start; two addresses let a graph be deleted and replaced while calls are on it.
NCAPI v2: three elements (one more than a fifo of the stick holds) go through
each counter; two consumers are what the loop over consumers tells apart; two
objects in a list are a head and a successor, the cases of its removal; tensors
of 2 by 2 by 2 and 2 by 2 by 3 numbers, all different, tell the six layouts apart,
and `Sampled` takes each boundary of the conversions of numbers with its
neighbours: zero, the subnormals, halves of a unit, overflow, infinity, NaN.
Application: four arrivals let a stick boot, come back, leave and come again;
after the first link the state admits no second.

*Fairness.* Weak fairness for the scheduler, the reader and a thread inside a
call: they are threads of the operating system that are never disabled by
others for ever except on a semaphore. `FairSpec` of the dispatcher adds a peer
that answers. `FairSpec` of the streams adds what an application has to do for
a stream to move: a thread that reads looks the stream up again when its
identifier is stale (weak), and keeps reading and releasing (strong, because a
read is disabled while the thread is in another call). Opening, writing and
closing are never forced. `FairSpec` of `MvNcApi` has strong fairness for the
thread in a call: whoever waits in a loop sleeps a millisecond without a lock,
so that a thread at `lock.lock()` gets its turn among infinitely many; and the
application asks for results of its graph again and again (strong, because the
thread may be in a call on another). `FairSpec` of `NcApi2` has strong fairness
for the steps of a thread in a call, since a mutex that is free again and again is
given to each waiter in the end, and weak fairness for the stick. `CameraApp` has
none: its properties are invariants.

*Mutants.* For each property of a passing run `PROJECT.json` names a change of
one definition, of the kind a slip in the code would be, under which TLC finds
the property violated; the changed forms stand before the originals
(`TakeLocalStay`, `UnrefNoFree`, `RemoteReleaseNoClose`, `LoadFullThree`, ...).

## 4. Findings

1. **A completed event is processed twice** (`XLinkDispatcher.cpp:399`).
   `getNextQueueElemToProc` looks for a SERVED slot from `curProc` on. An add
   skips a slot that is pending; when that slot is completed before `curProc`
   reaches it, it is found first, and its old event is sent again. The peer's
   second response trips the assertion of `XLink.cpp:264-271` ("Duplicate id
   detected."). It takes a request that stays pending while the ring goes round
   once. Run `dispatcher_dup`.
2. **XLinkConnect does not wait for its ping the second time**
   (`XLinkDispatcher.cpp:669`, `XLink.h:36`). `dispatcherStart` clears the
   reference counts but not the semaphores in the slots. Run
   `dispatcher_reconnect`.
3. **A close that waits for its data never returns** (`XLink.cpp:391`,
   `XLink.h:44`). Both directions share `closeStreamInitiated`; the peer's close
   resets it. Run `stream_hang`.
4. **The ends give a stream different identifiers** (`XLink.cpp:463`). Run
   `stream_ids`.

## 5. The proofs

The theorems hold for every value of the constants that the assumptions of a module
allow. The assumptions are of the kind the code makes by its types: finite sets of
threads and devices, values that are not mixed up (`None` is no thread), fewer
semaphores than slots (32 and 64 in the code), call records whose handles are
there, one thread that adds and removes the device of NCAPI v1. A behaviour may use
any calls; a link, a peer, an exchange, a stick may fail wherever the module lets
it. A theorem about all reachable states rests on an inductive invariant; TLC has
checked each one on the instances above before it was proved.

### XLinkDispatcher

`XLinkDispatcherProofs`:

* `TypeCorrect`: `Spec => []TypeOK`. `TypeOK` is inductive by itself: `InitType`,
  then one lemma per thread of the system (`ThreadType`, `SchedulerType`,
  `ReaderType`, `PeerType`) with one step per action. The parts with content
  are that the cursors stay in the ring, that a thread that waits has a
  semaphore and that the scheduler that completes something has a slot; they
  rest on what the search loops return (`SetMinIsLeast`, `NextWithStateFinds`,
  `CurrentSemFinds`, `FreeSemFinds`, `AnsweredFinds`).
* `SemCounts`: `Spec => []SemRefsMatch`. The reference count of a semaphore is
  the number of slots that point at it. It is not inductive: the step `Connect`
  clears all counts, which is right only while no slot points at a semaphore.
  The inductive invariant `SemInv` adds `BeforeFirst` (before the first
  connection nothing runs and every slot is unused) and `TypeOK`. Only
  `AddEvent` changes counts; `AddEventCounts` is the heart of the proof: the
  new slot takes one reference, the old event of the slot gives one back, in
  any combination of a new, a shared and a last reference, and when the two are
  the same semaphore. Every other action keeps pointers and counts
  (`SchedulerSameSems`, `ReaderSameSems`, `PeerSameSems`, `ThreadSameSems`).

Its second half first says, in the words the invariants use, what a step of each
party does to the slots (a scheduler's step takes, blocks, sends, serves, unblocks,
marks, ends or resets: `TakesReady` ... `Resets`), so that each invariant is proved
against eight effects and not against thirty actions:

* `DrainEnds`: `[]DrainFindsNoReady`, with `DrainInv`: a remote request is handled
  only while no event is ready, and a completion goes back to the loop or to the flush.
* `EventsInOrder`: `[]EachEventOnce`. The inductive `RingInv` says that the events
  not yet taken are exactly the slots from `curProc` to `cur`, untouched, with
  growing identifiers (`RingShape`), while `Orderly` holds.
* `WakeupsKept`: `[]NoLostWakeup`, which is inductive with `TypeOK`: `notify`, plus
  the posts still due, equals the events that wait in both rings.
* `WaitersKeepSems`: `[]WaiterKeepsSem`, from `OwnInv`: a caller's event has a
  semaphore of its own, and a thread owns one live semaphore at most.

`XLinkCallProofs`:

* `CallsComplete`: `[]CompletionSound`. `LinkInv` is the life of the link in its
  first connection. `WaitInv` says that every open event has its caller inside
  the call, and that a caller's semaphore is posted once if and only if its event was
  completed and the caller has not noticed.
* `AddsFindSlots`: `[]AddFindsSlot`. `SlotInv`: two events in use share a semaphore only while
  the scheduler marks one of them; so a thread that holds a semaphore and has none in
  the ring leaves fewer live events than slots (pigeonhole on `MaxSemaphores < MaxEvents`).

* `ResponsesMatch`: `[]ResponseHasRequest`. `FlightInv` partitions the identifiers of pending
  requests: each is on the wire to the peer, on the wire back, or in the remote ring, in one of
  them and once (`WireShape`, `ReceivedOnce`), and each response has the slot it answers (`SlotsOK`).

### XLinkStream

`XLinkStreamProofs`, for any threads, uses, sizes, number of packets and lives of the stream,
in both directions at once. Only the first theorem holds whatever the applications do; the
others are about those with `"local"` in `careful` (`Careful`: no call on a stream that another
thread of the same end is closing), which is what the code needs and does not enforce, and
`EndsDoAgree` about those with `"peer"` in it, too (`Agreeing`: no end opens while the other
closes), without which the ends do not agree (finding 4).

* `SemaphoreReturned`: `Spec => []SemReturned`. Inductive is `Basic`: types in which levels are only
  integers; `Requesting`, every message under way belongs to one waiting thread and a
  thread has one message (the request or its response); `Sized`, an end opens with one size.
* `CarefulAlways`: the inductive invariant `StreamInv`. It adds to `Basic` that a closing thread is alone
  with readers (`Disciplined`) and `Flow`, whose parts hold each other up: `CreditExact` and `LevelExact`;
  `Bounded`, credit within the packet ring and none without a buffer; `Closing`, with a close on the wire
  everything was released; `Opened`, what is open for writing at one end is open for reading at the other
  or its close is on the way; `FreedIsEmpty`. A step of a handler has one of the
  effects `Writes`, `Reads`, `Releases`, `Closes`, `AnsweredRelease`, `TakenOpen`, ...
  (`LocalEffects`, `RemoteEffects`, `ReaderEffects`), and there is one lemma `Flow...` for each.
* `LevelIsExact`, `CreditIsExact`, `NothingIsLost`, `StreamTypeCorrect`: `LevelExact`, `CreditExact`, `FreedIsEmpty` and
  `TypeOK` from it; that levels never wrap around follows from exact credit.
* `EndsDoAgree`: `Spec /\ Agreeing => []EndsAgree`. `AgreeInv` adds to `StreamInv` that opens and closes
  exclude each other (`Exclusive`, so that what is under way is of `OneKind`) and `Paired`: in each
  direction the two sizes are the same, or the reader has opened and the *first* answer on the line to
  the writer has its size and identifier (`Promised`), or the reader has closed and the answer is on its
  way (`Revoked`); and the ends have the same identifier and counter, or the reading end has given the
  number already (`Ahead`) or dropped the stream already (`Behind`). `PairedAnsweredOpen`,
  `PairedTakenOpen`, `PairedAnsweredClose` and `PairedTakenClose` are the four steps that change an
  end; `Drained` shows, from the exact credit, that a close finds an empty buffer and is carried out.
* `StreamIsChannel`: `Spec => IsChannel`, the refinement: `LocalWrite` is `Write` (there is room because
  the credit is exact), `LocalRead` is `Read`, `LocalRelease` is `Release`, the response to an open is `Open`, to a close
  `Close`; the data that the reader stores moves within the abstract queue, and `DataFits` shows that
  the packet ring has a place for it.

The sums of packet sizes (`Total`) and the requests among messages (`Requests`) are recursive functions; `Induct` is an
induction over numbers whose property is a set, which the library's well-founded minimum
(`WFMin`) gives, and `TotalAppend`, `TotalHead`, `TotalConcat`, `RequestsAppend` and
`RequestsHead` are the laws proved with it.

### MvNcApi

`MvNcApiProofs`, the locks first:

* `LocksHeld`: `Spec => [](Shape /\ Held)`, the inductive invariant. `Shape` has
  the types without the bound of `have_data`. `Held` says which lock a thread holds at each place of the code: the
  device's lock always (`HasDev`); the list lock with a listed device unless a
  failed `load_tensor` has kept the device's lock (`HasList`, `Kept`), because
  that `load_tensor` also unlocks the list lock of whoever holds it; that one
  thread deletes an erased device, whose lock is then free (`OneDeletes`); and
  that a call on a graph has a listed one (`OnListed`). The exception `Kept` is
  what makes it inductive, and it is harmless because the two deletions wait for
  the device's lock, which then never becomes free. All steps but four treat the
  locks in one of six ways (`LockStep`), and `RegularHeld` shows once that these
  preserve `Held`; `CallStep`, `LoadStep`, `GetStep`, `GraphsStep` and `ResetStep`
  classify the actions; `DeallocHeld`, `AddHeld`, `EraseHeld` and `DeleteHeld` are
  the four others.
* `NoUseAfterDelete`: `Spec => []HoldsListed`, from `OnListed`.
* `GoneIsReported`: `Spec => []GoneReported`. The invariant `Stale` says that a
  call whose graph was deleted has the address of a freed graph while addresses
  are not used again; `OnListed` contradicts that wherever a graph is used.
* `LocksAreReturned`: `Spec => []LocksReturned`. The invariant `Owners` is the
  converse of `Held`: whoever holds a lock is where the code holds it. It needs the
  premise of the property: a failed transfer of a tensor keeps the device's lock.

The pipeline, in the second half of the module: `PipelineHeld` is the inductive invariant
`Shape /\ Held /\ Agreed`, in parts that are proved one upon the other:
`Listing` (one graph is listed, none while one is allocated), `Doing` (a place
belongs to the operation called), `Begun` (a graph's options are sent before its first
tensor), `Counted` (what loader and getter have read of `have_data` still bounds
it, although `load_tensor` counts under the device's lock and a `get_result` that gives up under the list
lock), `Newer` (tensors are numbered upwards, so all in flight differ), and
`Pipeline`: the graph and the stick are at `Empty`, `One` or `Two` tensors, the
first running or done, the second waiting, each with the parameter of its place.
Steps are classified once (`Kinds`) as calls, calm steps and the deeds that
change the graph or the stick, each with a lemma of its effect (`SendEffect` ... `AddEffect`);
`SendStages`, `AuxStages` and `DoneStages` move between the stages. From it:

* `TypesAndBound`: `[]TypeOK`, with `have_data` in 0..2.
* `OneTalks`: `[]NoOverlap`; exchanges happen under either lock, and `TalksAlone`
  shows that with `Begun` two of them exclude each other.
* `HostAgreesWithStick`: `[]HostAndStickAgree`, counting the stages.
* `ResultHasItsParameter`: `[]ResultPaired`.
* `GraphIsPipe`: `Spec => IsPipe`, the refinement. `ParamsOf` and `QueueOf`
  compute the mapped queue at each stage; `FollowedStep` maps `LoadCount` to `Load`,
  `GetOutput` to `Fetch`, `GetAux` to `Return`, `Reset` to `Clear`, a graph that is
  given up or deleted to `Abandon`, and all other steps to stutters.

### NcApi2

`NcApi2Proofs`:

* `MutexesHeld`: which mutex a call holds at which place (`HoldInv`). Every action is
  an advance of one thread (`Advances`) and treats the mutexes in one of a few ways
  (`MutexStep`): takes one, gives it back, or leaves with it (`KeepExit`).
* `AnswersAreOwn`: `[]ResponseOwn`. `RespInv`: the graph monitor stream holds
  the answer to the request of the thread with `graph_streamm`, and nothing else,
  as long as no exit has left an answer behind.
* `MutexesAreReturned`: `[]MutexesReturned`. `KeptInv` is the converse of
  `MutexesHeld` without the exits that `Keeping` names, and that a device with
  graphs has its monitor stream, so that the exit for a missing one is not taken.
* `TypesAreOK`: `[]TypeOK`. Its inductive invariant `TypeInv` adds to `HoldInv`
  what the bounds rest on. `DataInv`: every number is given to one element, so that
  the parameters of an input are different and no more than what was written
  (`ParamsTyped`, `NumbersGo`); a fifo has no consumer left only while a trigger holds
  its mutex (`CountsTyped`); a fifo that is being allocated is CREATED and one that
  is read is not (`PlaceTyped`). `RespBound`: the answers that nobody has read and
  the calls that may still send a request together stay under the bound, because a
  call sends one. Each operation has a lemma of its effect (`WriteSendDoes` ... `FDestroyDoes`).

`NcApi2PipeProofs`:

* `ListsAreSound`: `[]ListsSound`, for lists of any length. What the pointers lead to
  from a head (`Led`) is the least closed set, so that the lemmas on lists follow
  without induction: a new head (`LedAdd`), the head or an inner object taken out
  (`LedBehead`, `LedUnlink`), a list that a step leaves alone (`LedSame`); removal
  needs that nothing leads back to the head and nothing is led to twice (`ChainOf`).
  The lists at the start are the sequences of `ready` (`LedList`, by the least
  index that is not reached). `GraphListed` is inductive with it: a graph that
  is being linked leads to the head, one that is CREATED leads nowhere. `FifoListed`
  needs the device, too (`DeviceKnown`): an open device has its monitor stream, so
  that an allocation that has found it does not fail; a device is closed only on its way to
  being destroyed when nobody calls `ncDeviceClose`.
* `JobsHaveElements`: `[]JobHasElement`, for any number of jobs. `JobInv` is inductive with the types
  and the list of graphs. `Balance` is the account of an input fifo: the elements at the stick, those
  that jobs will leave there and `consumed_by_graph` are together as many as `write_count` and the jobs
  that take one, with a term for each place of a call between its exchange and its count (`Wrote`,
  `Took`, `Made`). `JobsFed` says that each job finds an element at its turn, `SelfFed` the same of a
  trigger whose output is its own input. `DeviceUp` keeps the exits for a missing device or monitor
  stream from being taken between count and job. Numbers of jobs are cardinalities (`Hits`), with the
  laws for a job that is appended, finished or looked at from its place.

`NcApi2ParamProofs`:

* `ParamsArePaired`: `[]ParamPaired`, for any number of graphs, fifos and elements, under the
  premise of the property (`Pairing`). `FreshInv`: what the list of fifos leads to is allocated
  (`LinksLive`), a fifo has no parameters before that (`Fresh`), and a call under way is on
  fifos that are (`AllBegun`). `PairInv` says where each parameter is. At an input
  (`InputPaired`) the parameters are those of the elements that no trigger has taken, in
  their order, and one that a trigger has taken belongs to the next element; the element
  whose writer is between its exchange and its push has none yet. At an output
  (`OutputPaired`) they are those of the result that a reader holds, of the results that
  wait and of those that the jobs of the stick will make, in the order of the jobs; the
  parameter of a trigger between its push and its request is the last one. `JobsFed` of
  `JobsHaveElements` gives a job its element. The steps with content are `WriteSend`,
  `WriteCount`, `QueueTake`, `QueueOut`, `QueueSend`, `StickRuns`, `ReadWait` and
  `ReadCount`, a lemma `...Paired` each; all others leave both sides alone (`QuietPaired`).

### CameraApp

`CameraAppProofs`:

* `TypeCorrect`: types, and that a place that needs a link has one (`PlacesOK`).
* `OpensOneStick`: `[]OneOpening`. `OneOpen` adds to it that `CAMERA_NON` means no opening.
* `LinksReleasedOnce`: `[]LinkReleased`. `LinkInv` says in whose hands a link is:
  to be listed, listed, to be closed by the worker, or being closed by the worker
  or the monitor, and in one of them only (`OneTask`, `OneHand`), with the order of
  the tasks (`Queue`) and the stages of `onDestroy` (`Stages`) that keep the two closers apart.
  `ui`'s early release of a list that another thread closes is why `Listed` speaks of `api`.

### Only model-checked

* Liveness (`ReadyIsHandled`, `PingReturns`, `CallsReturn`, `CallReturns` and those of
  the streams) and everything that needs ENABLED: the installed provers cannot treat it.
* `XLinkStream`: `StreamFound`, which needs in addition that one thread of each end uses the stream;
  and the levels, credit and received packets of the use `Racing`, whose threads close and write
  without any discipline.
* `NcApi2`: `TensorKept`, which is what recursive functions compute.
* `HalfFloat` and `TensorLayout`: recursive functions on digits and indices.

## 6. Not modelled, and why

* `XLinkPlatform.cpp`: USB input and output; its outcomes are actions of the
  environment in `XLinkDispatcher`.
* The table of eight streams per link and several links: streams do not share
  state except the table's free entries; one stream stands for all, so that a
  name always finds its own descriptor. Several names are planned.
* The PCIe and IPC variants (`__PC__` without USB), profiling and logging.
* NCAPI v1: several devices (calls of different devices share the list lock
  only), device options and the list of optimisations; the layout of headers
  and chunks in the data link.
* NCAPI v2: several devices (they share the global mutex and the list of
  devices only), options of devices and graphs except the state, which read or
  write a field, `ncGraphAllocateWithFifosEx` and
  `ncGraphQueueInferenceWithFifoElem`, which combine other calls, discovery and
  boot of the stick. What `ListsSound`, `ParamPaired` and `JobHasElement` leave out
  of what the code does, each found while their invariants were looked for: fifos
  stay ALLOCATED when `ncDeviceClose` empties the list; `ncDeviceClose` and
  `ncFifoDestroy` empty a fifo and keep `write_count` and `consumed_by_graph`, so
  that a later trigger counts elements that are gone; an allocation that fails
  after the fifo was linked leaves it in the list, where a second
  allocation makes a circle (use `Repeated`; for that reason `CallReturns` asks for one
  thread that allocates or no such failure) and an access may follow a stale head.
* Simplified within a modelled function, none of which a property can tell apart where its
  premises hold:
  * `XLinkDispatcher`: the flags that a remote response copies to its request
    (`XLinkDispatcher.cpp:352`) are data of the handler.
  * `XLinkStream`: a release with nothing held (`XLink.cpp:398`), since each thread releases
    what it has read; and the assertion of a full packet ring (`XLink.cpp:172`), where the
    packet is dropped: `CreditExact` and `IsChannel` exclude the case.
  * `MvNcApi`: an allocation, all under the list lock, is one step with any of its outcomes;
    `load_tensor` reads `have_data` for `host_ready` in the step that takes the
    device's lock, where only a `get_result` that gives up could come in between. A
    graph whose result was given up is outside the premises of the pipeline.
  * `NcApi2`: a second `ncDeviceOpen` after one that failed to open its streams links the
    device to itself (`ncsdk2/mvnc_api.cpp:579`), so that closing does not take it off the
    list; here it is listed again. It takes the exit `<<"OPEN", "open">>`, which
    `Keeping` names and the premises exclude. The state of a graph and the status after it
    are one answer. A thread that walks a list for ever keeps `dev_data_m`
    in the code and not here, and `ncDeviceClose` empties a circular list here; both take a
    repeated allocation, which `FifosAllocated` excludes.
* Application: messages on the screen, the permission of the storage,
  registration of the USB monitor in `onResume` and `onPause`, a second
  activity in the same process. Data link: the chunks of a transfer and the
  content of `usbBoot`; `UsbDataLink2` and its native side are the same code
  for the second stick and are not used by a screen.
* Vendored code (`externalLibs`, `stb_image*.h`), which is four fifths of the
  lines of the tree, and the sample `test/multistick.cpp`.

## 7. Plan

In this order, most important behaviour first; each module with its instance,
runs, mutants and theorems.

1. `XLinkDispatcher` (done), all its invariants proved (done).
2. `XLinkStream` with `StreamChannel` (done), credit, levels and refinement proved (done).
3. `MvNcApi` with `TensorPipe`: NCAPI v1 (done); device options and several
   devices are left.
4. `HalfFloat`, `TensorLayout`, `NcApi2`: NCAPI v2 (done); several devices are
   left.
5. `CameraApp` (done).
6. Theorems about `CameraApp` (done: all invariants) and `NcApi2` (done: mutexes,
   answers, types, lists, triggers and parameters).
7. Composition: streams with several names over one table; streams with reset
   of the link (`dispatcherCloseLink` frees descriptors without their
   semaphores).
8. Theorems: all invariants of `MvNcApi` and that it implements `TensorPipe` (done);
   `EndsAgree` of `XLinkStream` (done); its `StreamFound` is left.
