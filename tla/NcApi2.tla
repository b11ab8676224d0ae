--------------------------------- MODULE NcApi2 ---------------------------------
(***************************************************************************)
(* NCAPI v2 (ncsdk2/mvnc_api.cpp) for one device with its graphs and       *)
(* fifos: the mutexes, the lists of the device, the exchanges on the graph *)
(* monitor stream, the elements and the user parameters of the fifos.      *)
(*                                                                         *)
(* A call is a sequence of steps between the places where it may be held   *)
(* up or overtaken. A critical section that waits for nothing is one step. *)
(* XLink is its promise (StreamChannel): a stream keeps its order and a    *)
(* write waits for space. The status a call returns is named where it      *)
(* returns.                                                                *)
(***************************************************************************)
EXTENDS Integers, FiniteSets, Sequences, TensorLayout

CONSTANTS
  Threads,
  Graphs,       \* the Graph objects
  Fifos,        \* the Fifo objects
  Usages,       \* how the API may be used: each element is a record
                \*   calls    what each thread calls, and on which objects
                \*   failing  the pairs of an operation and a step of it that
                \*            may fail
                \*   ready    the lists of graphs and of fifos that are
                \*            allocated at the start, and whether the device
                \*            is open
                \*   type     the type of each fifo
                \*   consumers  the consumer count of the fifos
                \*   desc     the tensor descriptor of the graphs for each fifo
                \*   descs    the host descriptors that may be set
                \*   tensors  the tensors that may be written, by data type
                \*   writes   bound on the elements that are written
  MaxStale,     \* bound on the responses that nobody has read
  NumElements,  \* elements of a fifo
  None

DeviceOps == {"OPEN", "CLOSE", "DESTROY"}
ObjectOps == {"GALLOC", "GDESTROY", "FALLOC", "FDESTROY", "SETTYPE", "SETDESC"}
Ops == DeviceOps \cup ObjectOps \cup {"STATE", "QUEUE", "WRITE", "READ"}

CallRecords == [op: Ops, g: Graphs \cup {None}, f: Fifos \cup {None},
                o: Fifos \cup {None}]

\* A call names the objects that its operation is about: the API returns at once
\* when a handle is missing.
HasObjects(c) ==
  /\ c.op \in {"GALLOC", "GDESTROY", "STATE", "QUEUE"} => c.g # None
  /\ c.op \in {"FALLOC", "FDESTROY", "SETTYPE", "SETDESC", "QUEUE", "WRITE", "READ"}
       => c.f # None
  /\ c.op = "QUEUE" => c.o # None

\* The objects that are allocated at the start belong to an open device.
IsReady(r) ==
  /\ r.graphs \in Seq(Graphs) /\ r.fifos \in Seq(Fifos)
  /\ \A list \in {r.graphs, r.fifos} :
       \A i, j \in 1 .. Len(list) : list[i] = list[j] => i = j
  /\ r.open \in BOOLEAN
  /\ r.open \/ (r.graphs = <<>> /\ r.fifos = <<>>)

Devs == {"global", "data", "gstream"}

ASSUME NcAssumption ==
  /\ \A u \in Usages :
       /\ u.calls \in [Threads -> SUBSET CallRecords]
       /\ \A t \in Threads : \A c \in u.calls[t] : HasObjects(c)
       /\ IsReady(u.ready)
       /\ u.type \in [Fifos -> {"WO", "RO"}]
       /\ u.consumers \in Nat \ {0} /\ u.writes \in Nat
  /\ MaxStale \in Nat /\ NumElements \in Nat \ {0}
  /\ IsFiniteSet(Threads)
  /\ None \notin Threads \cup Graphs \cup Fifos \cup Devs
  /\ Graphs \cap Fifos = {} /\ Fifos \cap Devs = {}

VARIABLES
  usage,    \* the element of Usages that this behaviour follows
  mutex,    \* who holds globalMutex, dev_data_m, graph_streamm, a fifo's mutex
  dev,      \* the device: [st, listed, monitor]
  head,     \* the first graph and the first fifo of the device's lists
  next,     \* the next pointers of graphs and fifos
  graph,    \* the graphs: [st, started]
  fifo,     \* the fifos, as in _fifoPrivate_t
  thr,      \* a thread and its call
  resp,     \* responses on the graph monitor stream: [t, op, ok]
  stick,    \* the stick: [jobs, buf, out]
  writes,   \* elements given to ncFifoWriteElem; they are numbered from 1
  got       \* history: what ncFifoReadElem has returned

vars == <<usage, mutex, dev, head, next, graph, fifo, thr, resp, stick, writes, got>>

Mutexes == Devs \cup Fifos

\* An element of a fifo: its number and memory, the tensor that the host wrote and
\* its type, and whether the descriptors told what is where (Clear). Stop is the
\* message that ends the stick's thread of a fifo.
Stop == [n |-> 0, mem |-> <<>>, sent |-> <<>>, type |-> "FP16", clear |-> FALSE]

Idle == [pc |-> "idle", op |-> "NONE", g |-> None, f |-> None, o |-> None,
         e |-> Stop, param |-> 0, seen |-> FALSE]

Goto(t, pc) == thr' = [thr EXCEPT ![t].pc = pc]
Return(t) == thr' = [thr EXCEPT ![t] = Idle]

At(t, op, pc) == thr[t].pc = pc /\ thr[t].op = op
Fails(t, step) == <<thr[t].op, step>> \in usage.failing

Lock(m, t) == mutex[m] = None /\ mutex' = [mutex EXCEPT ![m] = t]
Unlock(m) == mutex' = [mutex EXCEPT ![m] = None]
\* A critical section of one step.
Free(m) == mutex[m] = None /\ UNCHANGED mutex

Objs == Graphs \cup Fifos

\* The objects of a list: what the next pointers lead to from its head.
List(h) ==
  LET closed == {S \in SUBSET Objs : /\ h \in S \cup {None}
                                     /\ \A x \in S : next[x] \in S \cup {None}}
  IN {x \in Objs : \A S \in closed : x \in S}

\* A walk of a list past its last object, or round in a circle: it follows the null
\* pointer of an empty list, or never ends.
Endless(h) == \A x \in List(h) : next[x] # None

\* Mutant of Removed: only the head is taken out.
RemovedHead(kind, x) ==
  IF head[kind] = x THEN head' = [head EXCEPT ![kind] = next[x]] /\ UNCHANGED next
  ELSE UNCHANGED <<head, next>>

\* An object is taken out of a list (deallocateGraph, deallocateFifo).
Removed(kind, x) ==
  IF head[kind] = x THEN head' = [head EXCEPT ![kind] = next[x]] /\ UNCHANGED next
  ELSE /\ UNCHANGED head
       /\ next' = [y \in Objs |->
                     IF y \in List(head[kind]) /\ next[y] = x THEN next[x] ELSE next[y]]

\* deallocateFifo closes the stream.
StreamClosed(f) == stick' = [stick EXCEPT !.buf[f] = <<>>, !.out[f] = <<>>]

-----------------------------------------------------------------------------
(* The call of an operation. An application keeps an object to one call      *)
(* while it allocates, destroys or sets it, and makes no other call while    *)
(* the device is opened, closed or destroyed: the code promises nothing      *)
(* otherwise. Calls on different objects may overlap.                        *)

Objects(c) == {c.g, c.f, c.o} \ {None}
Busy == {s \in Threads : thr[s].pc # "idle"}
Gone(x) == IF x \in Graphs THEN graph[x].st = "freed" ELSE fifo[x].st = "freed"

Allowed(c) ==
  /\ \A x \in Objects(c) : ~Gone(x)
  /\ \A s \in Busy :
       /\ {c.op, thr[s].op} \cap DeviceOps = {}
       /\ {c.op, thr[s].op} \cap ObjectOps # {} => Objects(c) \cap Objects(thr[s]) = {}
  /\ c.op = "OPEN" => dev.st \in {"created", "closed"}
  /\ c.op = "GALLOC" => graph[c.g].st = "created"
  /\ dev.st # "destroyed"
  /\ Len(resp) <= MaxStale

Call(t) ==
  /\ thr[t].pc = "idle"
  /\ \E c \in usage.calls[t] :
       /\ Allowed(c)
       /\ thr' = [thr EXCEPT ![t] =
            [Idle EXCEPT !.pc = "enter", !.op = c.op, !.g = c.g, !.f = c.f, !.o = c.o]]
  /\ UNCHANGED <<usage, mutex, dev, head, next, graph, fifo, resp, stick, writes, got>>

-----------------------------------------------------------------------------
(* Exchanges on the graph monitor stream, under graph_streamm.               *)

\* sendGraphMonitorRequest fails when the stream was never opened, too.
SendFails(t) == Fails(t, "send") \/ ~dev.monitor
\* The stick answers each request, and may refuse it.
Answers(t) == {TRUE} \cup (IF Fails(t, "refuse") THEN {FALSE} ELSE {})
Answer(t, ok) == Append(resp, [t |-> t, op |-> thr[t].op, ok |-> ok])

\* checkGraphMonitorResponse: the next response, whoever it is for; a read that
\* fails leaves it on the stream.
Checked(t, ok) ==
  \/ resp # <<>> /\ ok = Head(resp).ok /\ resp' = Tail(resp)
  \/ Fails(t, "check") /\ ok = FALSE /\ UNCHANGED resp

-----------------------------------------------------------------------------
(* Devices.                                                                  *)

\* ncDeviceOpen under globalMutex: booting, connecting, linking. Two returns keep
\* the mutex: the one of the Android build, and ERROR when XLinkConnect fails.
OpenEnter(t) ==
  /\ At(t, "OPEN", "enter")
  /\ \/ (Fails(t, "android") \/ Fails(t, "connect")) /\ Lock("global", t)
        /\ Return(t) /\ UNCHANGED dev
     \/ Fails(t, "boot") /\ Free("global") /\ Return(t) /\ UNCHANGED dev
     \/ ~Fails(t, "android") /\ Free("global") /\ Goto(t, "monitor")
        /\ dev' = [dev EXCEPT !.listed = TRUE]
  /\ UNCHANGED <<usage, head, next, graph, fifo, resp, stick, writes, got>>

\* The two monitor streams and the attributes; ERROR leaves the device listed.
OpenMonitor(t) ==
  /\ At(t, "OPEN", "monitor")
  /\ \/ Fails(t, "open") /\ UNCHANGED dev
     \/ dev' = [dev EXCEPT !.st = "opened", !.monitor = TRUE]
  /\ Return(t)
  /\ UNCHANGED <<usage, mutex, head, next, graph, fifo, resp, stick, writes, got>>

\* ncDeviceClose takes the device off the list; INVALID_HANDLE if it is not
\* there. ncDeviceDestroy closes a device that is open.
CloseEnter(t) ==
  /\ thr[t].pc = "enter"
  /\ thr[t].op = "CLOSE" \/ (thr[t].op = "DESTROY" /\ dev.st = "opened")
  /\ IF dev.listed
     THEN /\ Lock("global", t) /\ Goto(t, "close")
          /\ dev' = [dev EXCEPT !.listed = FALSE]
     ELSE Free("global") /\ Return(t) /\ UNCHANGED dev
  /\ UNCHANGED <<usage, head, next, graph, fifo, resp, stick, writes, got>>

\* The rest of ncDeviceClose: graphs are freed, fifos closed, the stick reset and
\* the mutexes of the device destroyed, dev_data_m among them, which the caller
\* holds.
Close(t) ==
  /\ thr[t].pc = "close" /\ mutex["data"] = None
  /\ LET listed == List(head.graphs)
     IN graph' = [g \in Graphs |->
                    IF g \in listed THEN [graph[g] EXCEPT !.st = "freed"] ELSE graph[g]]
  /\ head' = [graphs |-> None, fifos |-> None]
  /\ LET listed == List(head.fifos)
     IN fifo' = [f \in Fifos |->
                   IF f \in listed THEN [fifo[f] EXCEPT !.in = <<>>, !.out = <<>>]
                   ELSE fifo[f]]
  /\ stick' = [jobs |-> <<>>, buf |-> [f \in Fifos |-> <<>>], out |-> [f \in Fifos |-> <<>>]]
  /\ resp' = <<>>
  /\ dev' = [dev EXCEPT !.st = "closed", !.monitor = FALSE]
  /\ mutex' = [mutex EXCEPT !["global"] = None, !["data"] = None, !["gstream"] = None]
  /\ IF thr[t].op = "DESTROY" THEN Goto(t, "destroy") ELSE Return(t)
  /\ UNCHANGED <<usage, next, writes, got>>

\* The device is freed, even when an open that failed has left it listed.
Destroy(t) ==
  /\ \/ At(t, "DESTROY", "enter") /\ dev.st # "opened"
     \/ At(t, "DESTROY", "destroy")
  /\ Free("global")
  /\ dev' = [dev EXCEPT !.st = "destroyed"]
  /\ Return(t)
  /\ UNCHANGED <<usage, head, next, graph, fifo, resp, stick, writes, got>>

Devices(t) == OpenEnter(t) \/ OpenMonitor(t) \/ CloseEnter(t) \/ Close(t) \/ Destroy(t)

-----------------------------------------------------------------------------
(* Graphs.                                                                   *)

\* ncGraphAllocate: the device is looked for under globalMutex, INVALID_PARAMETERS
\* if it is not listed; then its limits and the stream of the graph.
GAllocEnter(t) ==
  /\ At(t, "GALLOC", "enter")
  /\ Free("global")
  /\ \/ (~dev.listed \/ ~dev.monitor \/ Fails(t, "open")) /\ Return(t)
     \/ dev.listed /\ Goto(t, "send")
  /\ UNCHANGED <<usage, dev, head, next, graph, fifo, resp, stick, writes, got>>

\* When the request cannot be sent, the error path locks graph_streamm again and
\* never returns.
GAllocSend(t) ==
  /\ At(t, "GALLOC", "send")
  /\ Lock("gstream", t)
  /\ \/ SendFails(t) /\ Goto(t, "stuck") /\ UNCHANGED resp
     \/ dev.monitor /\ Goto(t, "data") /\ \E ok \in Answers(t) : resp' = Answer(t, ok)
  /\ UNCHANGED <<usage, dev, head, next, graph, fifo, stick, writes, got>>

\* The graph is written and its status is read; on a failure the response to the
\* request is left on the stream.
GAllocData(t) ==
  /\ At(t, "GALLOC", "data")
  /\ \/ Fails(t, "data") /\ Unlock("gstream") /\ Return(t)
     \/ Goto(t, "check") /\ UNCHANGED mutex
  /\ UNCHANGED <<usage, dev, head, next, graph, fifo, resp, stick, writes, got>>

\* After a refusal, UNSUPPORTED_GRAPH_FILE or a look at the memory that is left.
\* When the descriptors are bad and the stick is content, MYRIAD_ERROR with the
\* mutex held.
GAllocCheck(t) ==
  /\ At(t, "GALLOC", "check")
  /\ \E ok \in BOOLEAN :
       /\ Checked(t, ok)
       /\ \/ ~ok /\ Unlock("gstream") /\ Return(t)
          \/ ~ok /\ Goto(t, "memory") /\ UNCHANGED mutex
          \/ ok /\ Fails(t, "bad") /\ Return(t) /\ UNCHANGED mutex
          \/ ok /\ Unlock("gstream") /\ Goto(t, "link")
  /\ UNCHANGED <<usage, dev, head, next, graph, fifo, stick, writes, got>>

\* ncDeviceGetOption takes globalMutex while graph_streamm is held; then ERROR.
GAllocMemory(t) ==
  /\ At(t, "GALLOC", "memory")
  /\ mutex["global"] = None /\ Unlock("gstream")
  /\ Return(t)
  /\ UNCHANGED <<usage, dev, head, next, graph, fifo, resp, stick, writes, got>>

\* The graph gets the head of the list as its successor ...
GAllocLink(t) ==
  /\ At(t, "GALLOC", "link")
  /\ Lock("global", t)
  /\ next' = IF head.graphs = None THEN next ELSE [next EXCEPT ![thr[t].g] = head.graphs]
  /\ Goto(t, "linked")
  /\ UNCHANGED <<usage, dev, head, graph, fifo, resp, stick, writes, got>>

\* ... and becomes the head. Removals hold dev_data_m and not globalMutex.
GAllocLinked(t) ==
  /\ At(t, "GALLOC", "linked")
  /\ head' = [head EXCEPT !.graphs = thr[t].g]
  /\ graph' = [graph EXCEPT ![thr[t].g].st = "allocated"]
  /\ Unlock("global") /\ Return(t)
  /\ UNCHANGED <<usage, dev, next, fifo, resp, stick, writes, got>>

\* ncGraphDestroy of a graph that was never allocated.
GDestroyCreated(t) ==
  /\ At(t, "GDESTROY", "enter")
  /\ graph[thr[t].g].st = "created"
  /\ graph' = [graph EXCEPT ![thr[t].g].st = "freed"]
  /\ Return(t)
  /\ UNCHANGED <<usage, mutex, dev, head, next, fifo, resp, stick, writes, got>>

\* findGraph under globalMutex; INVALID_HANDLE if the graph is not listed.
GDestroyEnter(t) ==
  /\ At(t, "GDESTROY", "enter")
  /\ graph[thr[t].g].st # "created"
  /\ Free("global")
  /\ IF thr[t].g \in List(head.graphs) THEN Goto(t, "send") ELSE Return(t)
  /\ UNCHANGED <<usage, dev, head, next, graph, fifo, resp, stick, writes, got>>

\* Both errors of the exchange return with graph_streamm held.
GDestroySend(t) ==
  /\ At(t, "GDESTROY", "send")
  /\ Lock("gstream", t)
  /\ \/ SendFails(t) /\ Return(t) /\ UNCHANGED resp
     \/ dev.monitor /\ Goto(t, "check") /\ \E ok \in Answers(t) : resp' = Answer(t, ok)
  /\ UNCHANGED <<usage, dev, head, next, graph, fifo, stick, writes, got>>

GDestroyCheck(t) ==
  /\ At(t, "GDESTROY", "check")
  /\ \E ok \in BOOLEAN :
       /\ Checked(t, ok)
       /\ IF ok THEN Unlock("gstream") /\ Goto(t, "free") ELSE Return(t) /\ UNCHANGED mutex
  /\ UNCHANGED <<usage, dev, head, next, graph, fifo, stick, writes, got>>

\* deallocateGraph under dev_data_m; INVALID_PARAMETERS if the graph is no longer
\* in the list.
GDestroyFree(t) ==
  /\ At(t, "GDESTROY", "free")
  /\ Free("data")
  /\ IF thr[t].g \in List(head.graphs)
     THEN /\ Removed("graphs", thr[t].g)
          /\ graph' = [graph EXCEPT ![thr[t].g].st = "freed"]
          /\ Return(t)
     ELSE /\ IF Endless(head.graphs) THEN Goto(t, "crashed") ELSE Return(t)
          /\ UNCHANGED <<head, next, graph>>
  /\ UNCHANGED <<usage, dev, fifo, resp, stick, writes, got>>

\* ncGraphGetOption under globalMutex: an option of a class that the device does
\* not have returns UNAUTHORIZED with the mutex held. The state of a graph that
\* was not started is known.
StateEnter(t) ==
  /\ At(t, "STATE", "enter")
  /\ \/ Fails(t, "class") /\ Lock("global", t) /\ Return(t)
     \/ /\ Free("global")
        /\ LET g == graph[thr[t].g]
           IN IF g.st = "created" \/ (g.st = "allocated" /\ ~g.started)
              THEN Return(t) ELSE Goto(t, "send")
  /\ UNCHANGED <<usage, dev, head, next, graph, fifo, resp, stick, writes, got>>

StateSend(t) ==
  /\ At(t, "STATE", "send")
  /\ \/ SendFails(t) /\ Free("gstream") /\ Return(t) /\ UNCHANGED resp
     \/ dev.monitor /\ Lock("gstream", t) /\ Goto(t, "check")
        /\ \E ok \in Answers(t) : resp' = Answer(t, ok)
  /\ UNCHANGED <<usage, dev, head, next, graph, fifo, stick, writes, got>>

\* The state and the response that follows it are one answer here. ERROR when the
\* answer to another call, which is shorter, is read.
StateCheck(t) ==
  /\ At(t, "STATE", "check")
  /\ \E ok \in BOOLEAN :
       /\ Checked(t, ok)
       /\ IF ok /\ Head(resp).op = "STATE"
          THEN \E st \in {"running", "waiting"} : Goto(t, st)
          ELSE Return(t)
  /\ Unlock("gstream")
  /\ UNCHANGED <<usage, dev, head, next, graph, fifo, stick, writes, got>>

\* Without the mutex it becomes the state of the graph: never again ALLOCATED.
StateSet(t) ==
  /\ thr[t].op = "STATE" /\ thr[t].pc \in {"running", "waiting"}
  /\ graph' = [graph EXCEPT ![thr[t].g].st = thr[t].pc]
  /\ Return(t)
  /\ UNCHANGED <<usage, mutex, dev, head, next, fifo, resp, stick, writes, got>>

GraphCalls(t) ==
  \/ GAllocEnter(t) \/ GAllocSend(t) \/ GAllocData(t) \/ GAllocCheck(t)
  \/ GAllocMemory(t) \/ GAllocLink(t) \/ GAllocLinked(t)
  \/ GDestroyCreated(t) \/ GDestroyEnter(t) \/ GDestroySend(t) \/ GDestroyCheck(t)
  \/ GDestroyFree(t)
  \/ StateEnter(t) \/ StateSend(t) \/ StateCheck(t) \/ StateSet(t)

-----------------------------------------------------------------------------
(* Fifos.                                                                    *)

F(t) == fifo[thr[t].f]
SetFifo(t, f) == fifo' = [fifo EXCEPT ![thr[t].f] = f]

\* findFifo walks the list without a lock; before the fifo's first allocation it
\* follows a wild pointer to the device.
Found(f) == f \in List(head.fifos)
Crashes(f) == fifo[f].dev = "unset" \/ (~Found(f) /\ Endless(head.fifos))

\* ncFifoSetOption: the data type only before the allocation.
SetType(t) ==
  /\ At(t, "SETTYPE", "enter")
  /\ \/ F(t).st # "created" /\ UNCHANGED fifo
     \/ F(t).st = "created" /\ \E type \in DataTypes : SetFifo(t, [F(t) EXCEPT !.host.dataType = type])
  /\ Return(t)
  /\ UNCHANGED <<usage, mutex, dev, head, next, graph, resp, stick, writes, got>>

\* The host's descriptor at any time; INVALID_PARAMETERS if its total size is wrong
\* or the shape is not that of the graph.
SetDesc(t) ==
  /\ At(t, "SETDESC", "enter")
  /\ \E td \in usage.descs :
       IF td.totalSize # getTotalSize(td)
          \/ (F(t).st = "allocated" /\ td.dim # F(t).graph.dim)
       THEN UNCHANGED fifo
       ELSE SetFifo(t, [F(t) EXCEPT !.host = td, !.hostSet = TRUE])
  /\ Return(t)
  /\ UNCHANGED <<usage, mutex, dev, head, next, graph, resp, stick, writes, got>>

\* ncFifoAllocate reads the head of the device list before it locks globalMutex.
\* UNAUTHORIZED if the fifo is allocated.
FAllocRead(t) ==
  /\ At(t, "FALLOC", "enter")
  /\ IF F(t).st = "created"
     THEN thr' = [thr EXCEPT ![t].pc = "find", ![t].seen = dev.listed]
     ELSE Return(t)
  /\ UNCHANGED <<usage, mutex, dev, head, next, graph, fifo, resp, stick, writes, got>>

\* The descriptor of the host, unless it was set: HWC with its data type.
HostDesc(f, td) ==
  IF f.hostSet THEN f.host
  ELSE LET host == [td EXCEPT !.dataType = f.host.dataType,
                              !.stride = getStrides("HWC", td.dim, f.host.dataType)]
       IN [host EXCEPT !.totalSize = getTotalSize(host)]

\* The fields of the fifo, then the successor in the list, without any lock; the
\* fifo is linked before the stick has agreed to it.
FAllocFind(t) ==
  LET td == usage.desc[thr[t].f]
      host == HostDesc(F(t), td)
  IN
  /\ At(t, "FALLOC", "find")
  /\ Free("global")
  /\ IF thr[t].seen = FALSE \/ (F(t).hostSet /\ F(t).host.dim # td.dim)
     THEN /\ Return(t)
          /\ IF thr[t].seen = FALSE THEN UNCHANGED fifo
             ELSE SetFifo(t, [F(t) EXCEPT !.graph = td])
          /\ UNCHANGED next
     ELSE /\ SetFifo(t, [F(t) EXCEPT
               !.in = <<>>, !.out = <<>>, !.graph = td, !.host = host, !.hostSet = TRUE,
               !.remaining = usage.consumers, !.dev = "set"])
          /\ next' = [next EXCEPT ![thr[t].f] = head.fifos]
          /\ Goto(t, "link")
  /\ UNCHANGED <<usage, dev, head, graph, resp, stick, writes, got>>

FAllocLink(t) ==
  /\ At(t, "FALLOC", "link")
  /\ head' = [head EXCEPT !.fifos = thr[t].f]
  /\ (Fails(t, "open") /\ Return(t)) \/ Goto(t, "send")
  /\ UNCHANGED <<usage, mutex, dev, next, graph, fifo, resp, stick, writes, got>>

FAllocSend(t) ==
  /\ At(t, "FALLOC", "send")
  /\ \/ SendFails(t) /\ Free("gstream") /\ Return(t) /\ UNCHANGED resp
     \/ dev.monitor /\ Lock("gstream", t) /\ Goto(t, "check")
        /\ \E ok \in Answers(t) : resp' = Answer(t, ok)
  /\ UNCHANGED <<usage, dev, head, next, graph, fifo, stick, writes, got>>

\* Mutant of FAllocCheck: an error keeps the mutex.
FAllocCheckKept(t) ==
  /\ At(t, "FALLOC", "check")
  /\ \E ok \in BOOLEAN :
       /\ Checked(t, ok)
       /\ IF ok THEN SetFifo(t, [F(t) EXCEPT !.st = "allocated"]) /\ Unlock("gstream")
          ELSE UNCHANGED <<fifo, mutex>>
  /\ Return(t)
  /\ UNCHANGED <<usage, dev, head, next, graph, stick, writes, got>>

FAllocCheck(t) ==
  /\ At(t, "FALLOC", "check")
  /\ \E ok \in BOOLEAN :
       /\ Checked(t, ok)
       /\ IF ok THEN SetFifo(t, [F(t) EXCEPT !.st = "allocated"]) ELSE UNCHANGED fifo
  /\ Unlock("gstream") /\ Return(t)
  /\ UNCHANGED <<usage, dev, head, next, graph, stick, writes, got>>

\* ncFifoDestroy of a fifo in state CREATED, which a failed allocation may have
\* linked.
FDestroyCreated(t) ==
  /\ At(t, "FDESTROY", "enter")
  /\ F(t).st = "created"
  /\ SetFifo(t, [F(t) EXCEPT !.st = "freed"])
  /\ Return(t)
  /\ UNCHANGED <<usage, mutex, dev, head, next, graph, resp, stick, writes, got>>

\* INVALID_HANDLE if the fifo is not listed; else a last message stops the stick's
\* thread of a fifo that the host writes.
FDestroyEnter(t) ==
  /\ At(t, "FDESTROY", "enter")
  /\ F(t).st # "created"
  /\ \/ Crashes(thr[t].f) /\ Goto(t, "crashed") /\ UNCHANGED stick
     \/ /\ ~Crashes(thr[t].f)
        /\ IF ~Found(thr[t].f) THEN Return(t) /\ UNCHANGED stick
           ELSE \/ F(t).type = "WO" /\ Fails(t, "write") /\ Return(t) /\ UNCHANGED stick
                \/ /\ F(t).type = "WO" => Len(stick.buf[thr[t].f]) < NumElements
                   /\ stick' = IF F(t).type = "RO" THEN stick
                               ELSE [stick EXCEPT !.buf[thr[t].f] = Append(@, Stop)]
                   /\ Goto(t, "send")
  /\ UNCHANGED <<usage, mutex, dev, head, next, graph, fifo, resp, writes, got>>

\* Mutant of FDestroySend: the mutex is given back before the response is read.
FDestroySendEarly(t) ==
  /\ At(t, "FDESTROY", "send")
  /\ Free("gstream")
  /\ \/ SendFails(t) /\ Return(t) /\ UNCHANGED resp
     \/ dev.monitor /\ Goto(t, "check") /\ \E ok \in Answers(t) : resp' = Answer(t, ok)
  /\ UNCHANGED <<usage, dev, head, next, graph, fifo, stick, writes, got>>

FDestroySend(t) ==
  /\ At(t, "FDESTROY", "send")
  /\ \/ SendFails(t) /\ Free("gstream") /\ Return(t) /\ UNCHANGED resp
     \/ dev.monitor /\ Lock("gstream", t) /\ Goto(t, "check")
        /\ \E ok \in Answers(t) : resp' = Answer(t, ok)
  /\ UNCHANGED <<usage, dev, head, next, graph, fifo, stick, writes, got>>

FDestroyCheck(t) ==
  /\ At(t, "FDESTROY", "check")
  /\ \E ok \in BOOLEAN : Checked(t, ok) /\ IF ok THEN Goto(t, "free") ELSE Return(t)
  /\ Unlock("gstream")
  /\ UNCHANGED <<usage, dev, head, next, graph, fifo, stick, writes, got>>

\* deallocateFifo under dev_data_m, and the fifo is freed; INVALID_PARAMETERS if it
\* is no longer in the list.
FDestroyFree(t) ==
  /\ At(t, "FDESTROY", "free")
  /\ Free("data")
  /\ IF Found(thr[t].f)
     THEN /\ Removed("fifos", thr[t].f)
          /\ SetFifo(t, [F(t) EXCEPT !.st = "freed", !.in = <<>>, !.out = <<>>])
          /\ StreamClosed(thr[t].f)
          /\ Return(t)
     ELSE /\ IF Endless(head.fifos) THEN Goto(t, "crashed") ELSE Return(t)
          /\ UNCHANGED <<head, next, fifo, stick>>
  /\ UNCHANGED <<usage, dev, graph, resp, writes, got>>

FifoCalls(t) ==
  \/ SetType(t) \/ SetDesc(t)
  \/ FAllocRead(t) \/ FAllocFind(t) \/ FAllocLink(t) \/ FAllocSend(t) \/ FAllocCheck(t)
  \/ FDestroyCreated(t) \/ FDestroyEnter(t) \/ FDestroySend(t) \/ FDestroyCheck(t)
  \/ FDestroyFree(t)

-----------------------------------------------------------------------------
(* Elements and inferences.                                                  *)

\* Descriptors that tell the layouts of host and graph apart: dense, and with no
\* size of 1 where the memory may be copied as it is.
Clear(host, graphDesc) ==
  /\ IsDense(host)
  /\ host.dataType = "FP32" \/ (IsDense(graphDesc) /\ \A d \in Dims : host.dim[d] > 1)

\* ncFifoWriteElem: NOT_ALLOCATED, UNAUTHORIZED; INVALID_DATA_LENGTH; a fifo that is
\* found is not asked for its state.
WriteEnter(t) ==
  /\ At(t, "WRITE", "enter")
  /\ \/ Crashes(thr[t].f) /\ Goto(t, "crashed") /\ UNCHANGED writes
     \/ /\ ~Crashes(thr[t].f) \/ F(t).dev = "unset"
        /\ \/ /\ \/ (~Found(thr[t].f) /\ F(t).st # "allocated") \/ F(t).type # "WO"
                 \/ Fails(t, "length")
              /\ Return(t) /\ UNCHANGED writes
           \/ /\ Found(thr[t].f) \/ F(t).st = "allocated"
              /\ F(t).type = "WO"
              /\ writes < usage.writes /\ writes' = writes + 1
              /\ \E x \in usage.tensors[F(t).host.dataType] :
                   thr' = [thr EXCEPT ![t].pc = "send", ![t].e =
                     [n |-> writes + 1, sent |-> x, type |-> F(t).host.dataType,
                      clear |-> Clear(F(t).host, F(t).graph),
                      mem |-> Transfer(InMemory(F(t).host, x), F(t).host, F(t).graph,
                                       F(t).host.dataType, "FP16")]]
  /\ UNCHANGED <<usage, mutex, dev, head, next, graph, fifo, resp, stick, got>>

\* XLinkWriteData waits for space; ERROR when it fails.
WriteSend(t) ==
  /\ At(t, "WRITE", "send")
  /\ \/ Fails(t, "write") /\ Return(t) /\ UNCHANGED stick
     \/ /\ Len(stick.buf[thr[t].f]) < NumElements
        /\ stick' = [stick EXCEPT !.buf[thr[t].f] = Append(@, thr[t].e)]
        /\ Goto(t, "count")
  /\ UNCHANGED <<usage, mutex, dev, head, next, graph, fifo, resp, writes, got>>

\* Mutant of Top: the youngest parameter.
TopYoungest(params) == IF params = <<>> THEN 0 ELSE params[Len(params)]

\* pushUserParam and popUserParam: the oldest parameter is taken, NULL (0) when
\* there is none.
Push(params, n) == Append(params, n)
Top(params) == IF params = <<>> THEN 0 ELSE Head(params)
Pop(params) == IF params = <<>> THEN <<>> ELSE Tail(params)

\* The user parameter of an element is its number.
WriteCount(t) ==
  /\ At(t, "WRITE", "count")
  /\ Free(thr[t].f)
  /\ SetFifo(t, [F(t) EXCEPT !.in = Push(@, thr[t].e.n), !.writeCount = @ + 1])
  /\ Return(t)
  /\ UNCHANGED <<usage, dev, head, next, graph, resp, stick, writes, got>>

\* ncGraphQueueInference: NOT_ALLOCATED unless the graph is in state ALLOCATED and
\* both fifos are; INVALID_PARAMETERS for an output that the host writes, or when the
\* number of the fifos or their shapes are not those of the graph.
Triggerable(t) ==
  /\ graph[thr[t].g].st = "allocated"
  /\ F(t).st = "allocated" /\ fifo[thr[t].o].st = "allocated"
  /\ fifo[thr[t].o].type # "WO"
QueueEnter(t) ==
  /\ At(t, "QUEUE", "enter")
  /\ \/ (~Triggerable(t) \/ Fails(t, "shape")) /\ Return(t)
     \/ Triggerable(t) /\ Goto(t, "in")
  /\ UNCHANGED <<usage, mutex, dev, head, next, graph, fifo, resp, stick, writes, got>>

\* Mutant of LastConsumer: one too late.
LastConsumerLate(f) == f.remaining = 0

\* One consumer less; at the last one the element is gone, and when only graphs
\* have read it, it is taken from XLink with the mutex held.
LastConsumer(f) == f.remaining = 1
QueueIn(t) ==
  /\ At(t, "QUEUE", "in")
  /\ Lock(thr[t].f, t)
  /\ SetFifo(t, [F(t) EXCEPT !.remaining = @ - 1])
  /\ Goto(t, IF LastConsumer(F(t)) /\ ~F(t).apiRead /\ F(t).type = "RO" THEN "drain" ELSE "take")
  /\ UNCHANGED <<usage, dev, head, next, graph, resp, stick, writes, got>>

\* Whether XLinkReadData fails is not asked.
QueueDrain(t) ==
  /\ At(t, "QUEUE", "drain")
  /\ \/ /\ stick.out[thr[t].f] # <<>>
        /\ stick' = [stick EXCEPT !.out[thr[t].f] = Tail(@)]
     \/ Fails(t, "drain") /\ UNCHANGED stick
  /\ Goto(t, "take")
  /\ UNCHANGED <<usage, mutex, dev, head, next, graph, fifo, resp, writes, got>>

\* Mutant of Exhausted: one too late.
ExhaustedLate(f) == f.writeCount < f.consumed

\* No element is left.
Exhausted(f) == f.writeCount <= f.consumed

\* The parameter is taken before the elements are counted: UNAUTHORIZED.
QueueTake(t) ==
  LET f == IF F(t).remaining = 0
           THEN [F(t) EXCEPT !.remaining = usage.consumers, !.apiRead = FALSE,
                             !.in = Pop(@)]
           ELSE [F(t) EXCEPT !.in = Pop(@)]
  IN
  /\ At(t, "QUEUE", "take")
  /\ IF Exhausted(f) THEN SetFifo(t, f) /\ Return(t)
     ELSE /\ SetFifo(t, [f EXCEPT !.consumed = @ + 1])
          /\ thr' = [thr EXCEPT ![t].pc = "out", ![t].param = Top(F(t).in)]
  /\ Unlock(thr[t].f)
  /\ UNCHANGED <<usage, dev, head, next, graph, resp, stick, writes, got>>

QueueOut(t) ==
  /\ At(t, "QUEUE", "out")
  /\ Free(thr[t].o)
  /\ fifo' = [fifo EXCEPT ![thr[t].o].out = Push(@, thr[t].param),
                          ![thr[t].o].writeCount = @ + 1]
  /\ Goto(t, "send")
  /\ UNCHANGED <<usage, dev, head, next, graph, resp, stick, writes, got>>

\* The trigger; an error leaves the parameter with the output.
QueueSend(t) ==
  /\ At(t, "QUEUE", "send")
  /\ \/ SendFails(t) /\ Free("gstream") /\ Return(t) /\ UNCHANGED <<resp, stick>>
     \/ /\ dev.monitor /\ Lock("gstream", t) /\ Goto(t, "check")
        /\ \E ok \in Answers(t) :
             /\ resp' = Answer(t, ok)
             /\ stick' = IF ok
                         THEN [stick EXCEPT !.jobs = Append(@, [f |-> thr[t].f, o |-> thr[t].o])]
                         ELSE stick
  /\ UNCHANGED <<usage, dev, head, next, graph, fifo, writes, got>>

QueueCheck(t) ==
  /\ At(t, "QUEUE", "check")
  /\ \E ok \in BOOLEAN :
       /\ Checked(t, ok)
       /\ graph' = IF ok THEN [graph EXCEPT ![thr[t].g].started = TRUE] ELSE graph
  /\ Unlock("gstream") /\ Return(t)
  /\ UNCHANGED <<usage, dev, head, next, fifo, stick, writes, got>>

\* ncFifoReadElem: NOT_ALLOCATED, INVALID_DATA_LENGTH; UNAUTHORIZED for a fifo that
\* the host writes or whose element the host has read.
Readable(f) == f.st = "allocated" /\ f.type = "RO" /\ ~f.apiRead
ReadEnter(t) ==
  /\ At(t, "READ", "enter")
  /\ \/ Crashes(thr[t].f) /\ Goto(t, "crashed")
     \/ /\ ~Crashes(thr[t].f) \/ F(t).dev = "unset"
        /\ \/ (~Readable(F(t)) \/ Fails(t, "length")) /\ Return(t)
           \/ Readable(F(t)) /\ Goto(t, "wait")
  /\ UNCHANGED <<usage, mutex, dev, head, next, graph, fifo, resp, stick, writes, got>>

\* XLinkReadData waits for a result.
ReadWait(t) ==
  /\ At(t, "READ", "wait")
  /\ \/ Fails(t, "read") /\ Return(t) /\ UNCHANGED stick
     \/ /\ stick.out[thr[t].f] # <<>>
        /\ thr' = [thr EXCEPT ![t].pc = "count", ![t].e = Head(stick.out[thr[t].f])]
        /\ stick' = [stick EXCEPT !.out[thr[t].f] = Tail(@)]
  /\ UNCHANGED <<usage, mutex, dev, head, next, graph, fifo, resp, writes, got>>

ReadCount(t) ==
  LET f == F(t)
      e == thr[t].e
  IN
  /\ At(t, "READ", "count")
  /\ Free(thr[t].f)
  /\ SetFifo(t, [f EXCEPT !.apiRead = ~LastConsumer(f),
                          !.remaining = IF LastConsumer(f) THEN usage.consumers ELSE @ - 1,
                          !.out = Pop(@)])
  /\ got' = got \cup {[n |-> e.n, param |-> Top(f.out), sent |-> e.sent, from |-> e.type,
                       as |-> f.host.dataType, clear |-> e.clear /\ Clear(f.host, f.graph),
                       recv |-> FromMemory(f.host, Transfer(e.mem, f.graph, f.host, "FP16",
                                                            f.host.dataType))]}
  /\ Return(t)
  /\ UNCHANGED <<usage, dev, head, next, graph, resp, stick, writes>>

Elements(t) ==
  \/ WriteEnter(t) \/ WriteSend(t) \/ WriteCount(t)
  \/ QueueEnter(t) \/ QueueIn(t) \/ QueueDrain(t) \/ QueueTake(t) \/ QueueOut(t)
  \/ QueueSend(t) \/ QueueCheck(t)
  \/ ReadEnter(t) \/ ReadWait(t) \/ ReadCount(t)

-----------------------------------------------------------------------------
(* The stick runs the triggers in their order. The inference is the identity *)
(* here: a result is the element it was computed from, in the layout of the  *)
(* output. An output that is an input of another graph keeps its elements.   *)

Chained(f) == \E t \in Threads : \E c \in usage.calls[t] : c.op = "QUEUE" /\ c.f = f
ChainedOutput(f) == usage.type[f] = "RO" /\ Chained(f)

\* What a job leaves of the elements of a fifo.
Left(j, f) == IF f = j.f THEN Tail(stick.buf[f]) ELSE stick.buf[f]

StickRuns ==
  /\ stick.jobs # <<>>
  /\ LET j == Head(stick.jobs)
         e == Head(stick.buf[j.f])
         r == [e EXCEPT !.mem = InMemory(fifo[j.o].graph, FromMemory(fifo[j.f].graph, e.mem))]
     IN /\ stick.buf[j.f] # <<>> /\ e # Stop
        /\ Len(stick.out[j.o]) < NumElements
        /\ stick' = [jobs |-> Tail(stick.jobs),
                     buf |-> [f \in Fifos |-> IF f = j.o /\ Chained(f) THEN Append(Left(j, f), r)
                                              ELSE Left(j, f)],
                     out |-> [stick.out EXCEPT ![j.o] = Append(@, r)]]
  /\ UNCHANGED <<usage, mutex, dev, head, next, graph, fifo, thr, resp, writes, got>>

-----------------------------------------------------------------------------
\* ncGraphCreate and ncFifoCreate, or what has been allocated since.
NewGraph(u, g) ==
  [st |-> IF g \in Range(u.ready.graphs) THEN "allocated" ELSE "created", started |-> FALSE]
NewFifo(u, f) ==
  LET isReady == f \in Range(u.ready.fifos)
  IN [st |-> IF isReady THEN "allocated" ELSE "created", type |-> u.type[f],
      dev |-> IF isReady THEN "set" ELSE "unset",
      writeCount |-> 0, consumed |-> 0, remaining |-> u.consumers, apiRead |-> FALSE,
      in |-> <<>>, out |-> <<>>, graph |-> u.desc[f], hostSet |-> isReady,
      host |-> IF isReady THEN Dense("HWC", u.desc[f].dim, "FP32")
               ELSE [u.desc[f] EXCEPT !.dataType = "FP32"]]

First(list) == IF list = <<>> THEN None ELSE list[1]
After(list, x) ==
  IF \E i \in 1 .. Len(list) - 1 : list[i] = x
  THEN list[(CHOOSE i \in 1 .. Len(list) - 1 : list[i] = x) + 1] ELSE None

Init ==
  /\ usage \in Usages
  /\ mutex = [m \in Mutexes |-> None]
  /\ dev = IF usage.ready.open THEN [st |-> "opened", listed |-> TRUE, monitor |-> TRUE]
           ELSE [st |-> "created", listed |-> FALSE, monitor |-> FALSE]
  /\ head = [graphs |-> First(usage.ready.graphs), fifos |-> First(usage.ready.fifos)]
  /\ next = [x \in Objs |->
               IF x \in Graphs THEN After(usage.ready.graphs, x)
               ELSE After(usage.ready.fifos, x)]
  /\ graph = [g \in Graphs |-> NewGraph(usage, g)]
  /\ fifo = [f \in Fifos |-> NewFifo(usage, f)]
  /\ thr = [t \in Threads |-> Idle]
  /\ resp = <<>>
  /\ stick = [jobs |-> <<>>, buf |-> [f \in Fifos |-> <<>>], out |-> [f \in Fifos |-> <<>>]]
  /\ writes = 0
  /\ got = {}

Thread(t) == Call(t) \/ Devices(t) \/ GraphCalls(t) \/ FifoCalls(t) \/ Elements(t)

Next == StickRuns \/ \E t \in Threads : Thread(t)

Spec == Init /\ [][Next]_vars

\* A thread in a call goes on, and gets a mutex that is free again and again; the
\* stick runs.
FairSpec ==
  /\ Spec /\ WF_vars(StickRuns)
  /\ \A t \in Threads :
       SF_vars(Devices(t) \/ GraphCalls(t) \/ FifoCalls(t) \/ Elements(t))

-----------------------------------------------------------------------------
(* Properties.                                                               *)

Numbers == 0 .. usage.writes

TypeOK ==
  /\ usage \in Usages
  /\ mutex \in [Mutexes -> Threads \cup {None}]
  /\ dev \in [st : {"created", "opened", "closed", "destroyed"}, listed : BOOLEAN,
              monitor : BOOLEAN]
  /\ head \in [graphs : Graphs \cup {None}, fifos : Fifos \cup {None}]
  /\ next \in [Objs -> Objs \cup {None}]
  /\ graph \in [Graphs -> [st : {"created", "allocated", "running", "waiting", "freed"},
                           started : BOOLEAN]]
  /\ \A f \in Fifos :
       /\ fifo[f].st \in {"created", "allocated", "freed"}
       /\ fifo[f].remaining \in 1 .. usage.consumers \/ mutex[f] # None
       /\ fifo[f].apiRead => fifo[f].remaining < usage.consumers
       /\ fifo[f].consumed <= fifo[f].writeCount
       /\ Len(fifo[f].in) <= usage.writes
       /\ Len(stick.out[f]) <= NumElements
       /\ fifo[f].type = "WO" => Len(stick.buf[f]) <= NumElements
  /\ \A t \in Threads :
       thr[t].g \in Graphs \cup {None} /\ thr[t].f \in Fifos \cup {None}
       /\ thr[t].param \in Numbers
  /\ Len(resp) <= MaxStale + Cardinality(Threads)
  /\ writes \in Numbers

\* The threads that make one of some calls.
Callers(ops) == {t \in Threads : \E c \in usage.calls[t] : c.op \in ops}
Alone(ops) == Cardinality(Callers(ops)) <= 1

\* The exits of the code that keep a mutex; and a device that is listed without its
\* monitor streams, for which ncGraphAllocate waits for graph_streamm for ever.
Keeping ==
  {<<"OPEN", "android">>, <<"OPEN", "connect">>, <<"OPEN", "open">>, <<"STATE", "class">>,
   <<"GALLOC", "send">>, <<"GALLOC", "bad">>, <<"GDESTROY", "send">>,
   <<"GDESTROY", "check">>, <<"GDESTROY", "refuse">>}

\* The exits that leave a response on the graph monitor stream.
Leaving == {<<op, "check">> : op \in Ops} \cup {<<"GALLOC", "data">>}

\* No call takes one of the former exits. ncGraphDestroy takes one, too, when it reads
\* a refusal that another call has left.
NoneKept ==
  /\ usage.failing \cap Keeping = {}
  /\ usage.failing \cap Leaving = {} \/ Callers({"GDESTROY"}) = {}

\* A call that has returned, with whatever status, holds no mutex, except by the
\* named exits (the unlocks on the error paths of mvnc_api.cpp).
MutexesReturned ==
  NoneKept =>
    \A m \in Mutexes : mutex[m] # None => thr[mutex[m]].pc \notin {"idle", "stuck"}

\* The response that a call reads is the one to its own request: the stream has one
\* request at a time on it, that of the holder of graph_streamm, and nothing is left
\* from a call that failed (sendGraphMonitorRequest, checkGraphMonitorResponse).
ResponseOwn ==
  usage.failing \cap Leaving = {} =>
    /\ Len(resp) <= 1
    /\ resp # <<>> => /\ mutex["gstream"] = resp[1].t
                      /\ thr[resp[1].t].op = resp[1].op
                      /\ thr[resp[1].t].pc \in {"data", "check"}

\* No allocation of a fifo fails after the fifo was linked.
FifosAllocated ==
  /\ \A step \in {"open", "send", "check", "refuse"} : <<"FALLOC", step>> \notin usage.failing
  /\ <<"OPEN", "open">> \notin usage.failing
  /\ usage.failing \cap Leaving = {}

\* The lists of an open device are exactly its live objects, and no list leads to a
\* freed one (ncGraphAllocate, deallocateGraph, ncFifoAllocate, deallocateFifo), when
\* one thread allocates and destroys graphs, one fifos. (Fifos stay ALLOCATED when
\* ncDeviceClose empties the list.)
ListsSound ==
  /\ Alone({"GALLOC", "GDESTROY"}) =>
       LET listed == List(head.graphs)
       IN \A g \in Graphs :
            g \in listed <=> graph[g].st \in {"allocated", "running", "waiting"}
  /\ Alone({"FALLOC", "FDESTROY"}) /\ FifosAllocated =>
       LET listed == List(head.fifos)
       IN \A f \in Fifos :
            /\ f \in listed => fifo[f].st # "freed"
            /\ dev.st = "opened" /\ fifo[f].st = "allocated" /\ Callers({"CLOSE"}) = {}
               => f \in listed

\* Triggers that fail after the parameter has gone to the output.
TriggerFails == {<<"QUEUE", "send">>, <<"QUEUE", "check">>, <<"QUEUE", "refuse">>}
\* One thread writes, one triggers, one reads; the fifos stay, since ncDeviceClose and
\* ncFifoDestroy empty them and keep the count of their elements.
Pipelined ==
  /\ Alone({"WRITE"}) /\ Alone({"QUEUE"}) /\ Alone({"READ"})
  /\ Callers({"CLOSE", "FDESTROY"}) = {}
  /\ usage.failing \cap TriggerFails = {}

\* A result comes with the user parameter of the element that it was computed from
\* (ncFifoWriteElem, ncGraphQueueInference, ncFifoReadElem), in a pipeline of one
\* graph and with one consumer of each element.
ParamPaired ==
  (/\ Pipelined /\ FifosAllocated
   /\ usage.consumers = 1 /\ ~\E f \in Fifos : ChainedOutput(f)) =>
    \A r \in got : r.param = r.n

\* A trigger that was accepted has its element on the stick, or in the output of an
\* earlier one: the inferences never stop for want of an input (write_count and
\* consumed_by_graph).
JobHasElement ==
  Pipelined =>
    \A k \in 1 .. Len(stick.jobs) :
      LET f == stick.jobs[k].f
      IN Cardinality({i \in 1 .. k : stick.jobs[i].f = f})
           <= Len(stick.buf[f]) + Cardinality({i \in 1 .. k - 1 : stick.jobs[i].o = f})

\* The host reads the number x of type from as y of type as.
SameNumber(x, from, y, as) ==
  LET h == IF as = "FP16" THEN y ELSE float2half(y)
  IN /\ as = "FP32" => half2float(h) = y
     /\ IF from = "FP16" THEN h = x ELSE Nearest(x, h)

\* An identity inference gives the tensor back, whatever the layouts and types of
\* host and graph: each number in its place, and the nearest half float
\* (convertDataTypeAndLayout, getLayout, getStrides, half2float, float2half).
TensorKept ==
  \A r \in got :
    r.clear => \A p \in DOMAIN r.sent : SameNumber(r.sent[p], r.from, r.recv[p], r.as)

\* A call that waits for a mutex or a response returns: globalMutex, graph_streamm
\* and dev_data_m are never waited for in a circle. (A trigger on an empty output of
\* another graph waits for a result with the mutex of the fifo held; a list in which
\* one of several threads has repeated a failed allocation may be endless.)
CallReturns ==
  \A t \in Threads :
    (NoneKept /\ (\A f \in Fifos : ~ChainedOutput(f))
     /\ (Alone({"FALLOC", "FDESTROY"}) \/ FifosAllocated)
     /\ thr[t].pc \in {"close", "data", "memory", "link", "linked", "free", "in", "out"})
      ~> thr[t].pc = "idle"

=============================================================================
