-------------------------------- MODULE MvNcApi --------------------------------
(***************************************************************************)
(* NCAPI v1 (mvnc_api.cpp) for one device: the list lock MvNcApi::lock,    *)
(* the lock of the device, the graph and its pipeline of two tensors, and  *)
(* the threads that load tensors, get results, allocate and deallocate     *)
(* graphs, set options, reset, and add and remove the device.              *)
(*                                                                         *)
(* A call is a sequence of critical sections; an exchange with the stick   *)
(* (usb_data_link.cpp) lasts from the step that begins it to the step that *)
(* ends it, and other threads run meanwhile. The value a call returns is   *)
(* named where it returns.                                                 *)
(***************************************************************************)
EXTENDS Integers, FiniteSets, Sequences

CONSTANTS
  Threads,
  Usages,       \* how the API may be used: each element is a record
                \*   ops      what each thread calls
                \*   failing  the exchanges that may fail
                \*   late     whether the stick may be slower than the timeout
                \*   reuse    whether the heap gives a freed address again
  Addrs,        \* addresses of Graph objects
  MaxLoads,     \* bound on the tensors that are loaded
  None

Ops == {"ALLOC", "DEALLOC", "LOAD", "GET", "OPTION", "RESET", "ADD", "REMOVE"}
Exchanges == {"opt", "send", "output", "aux", "alloc"}

\* A device is added and removed by one thread.
ASSUME MvNcAssumption ==
  /\ Usages \subseteq [ops: [Threads -> SUBSET Ops], failing: SUBSET Exchanges,
                       late: BOOLEAN, reuse: BOOLEAN]
  /\ \A u \in Usages : \A s, t \in Threads :
       "ADD" \in u.ops[s] /\ u.ops[t] \cap {"ADD", "REMOVE"} # {} => s = t
  /\ MaxLoads \in Nat
  /\ None \notin Threads /\ None \notin Addrs

VARIABLES
  usage,    \* the element of Usages that this behaviour follows
  lock,     \* MvNcApi::lock: the thread that holds it
  devLock,  \* Device::lock
  device,   \* the Device object: listed, erased (no longer listed), deleted
  graph,    \* the Graph objects by address
  thr,      \* [pc, op, g, n, seen, ready, gone]: a thread and its call
  loads,    \* tensors given to load_tensor; they are numbered from 1
  stick     \* the stick: [in, idx, run, done]

vars == <<usage, lock, devLock, device, graph, thr, loads, stick>>

\* The call of a thread: the operation, the graph it is given, the number of its
\* tensor, the value it has read of have_data, its host_ready flag; gone is a
\* history variable: the graph was deleted while the call was on it.
Idle == [pc |-> "idle", op |-> "NONE", g |-> None, n |-> 0, seen |-> 0,
         ready |-> FALSE, gone |-> FALSE]

\* A Graph object; clean is a history variable: no result was given up for it.
NewGraph == [st |-> "listed", started |-> FALSE, have |-> 0, block |-> TRUE,
             inIdx |-> 0, outIdx |-> 0, failed |-> FALSE,
             param |-> [i \in {0, 1} |-> 0], out |-> 0, clean |-> TRUE]
Unused == [NewGraph EXCEPT !.st = "unused"]
Freed == [NewGraph EXCEPT !.st = "freed"]

\* The stick: the inputs loaded and not started, the input to start next, the
\* tensor that runs and the one whose result is there.
NewStick == [in |-> [i \in {0, 1} |-> 0], idx |-> 0, run |-> 0, done |-> 0]

Goto(t, pc) == thr' = [thr EXCEPT ![t].pc = pc]
Return(t) == thr' = [thr EXCEPT ![t] = Idle]

\* is_graph_exist: a comparison of addresses.
Exists(a) == a # None /\ device = "listed" /\ graph[a].st = "listed"

\* The addresses that the heap may give to a new graph.
Addresses ==
  {a \in Addrs : graph[a].st \in IF usage.reuse THEN {"unused", "freed"} ELSE {"unused"}}

\* The graph of a thread's call.
G(t) == graph[thr[t].g]

-----------------------------------------------------------------------------
(* The call of an operation; it may be given the handle of a graph that is   *)
(* gone.                                                                     *)

Call(t) ==
  /\ thr[t].pc = "idle"
  /\ \E op \in usage.ops[t] :
       \/ /\ op \in {"ALLOC", "RESET", "ADD", "REMOVE"}
          /\ op = "ALLOC" => Addresses # {}
          /\ thr' = [thr EXCEPT ![t] = [Idle EXCEPT !.pc = "enter", !.op = op]]
          /\ UNCHANGED loads
       \/ /\ op \in {"DEALLOC", "LOAD", "GET", "OPTION"}
          /\ op = "LOAD" => loads < MaxLoads
          /\ loads' = IF op = "LOAD" THEN loads + 1 ELSE loads
          /\ \E a \in Addrs :
               /\ graph[a].st # "unused"
               /\ thr' = [thr EXCEPT ![t] =
                    [Idle EXCEPT !.pc = "enter", !.op = op, !.g = a,
                                 !.n = IF op = "LOAD" THEN loads + 1 ELSE 0]]
  /\ UNCHANGED <<usage, lock, devLock, device, graph, stick>>

\* lock.lock() and is_graph_exist at the beginning of a call on a graph;
\* INVALID_PARAMETERS when the graph is not found.
Enter(t, op, pc) ==
  /\ thr[t].pc = "enter" /\ thr[t].op = op
  /\ lock = None
  /\ IF Exists(thr[t].g) THEN lock' = t /\ Goto(t, pc)
     ELSE Return(t) /\ UNCHANGED lock
  /\ UNCHANGED <<usage, devLock, device, graph, loads, stick>>

\* Mutant of Again: the graph is not looked for.
AgainUnchecked(t, from, pc) ==
  /\ thr[t].pc = from
  /\ lock = None
  /\ lock' = t /\ Goto(t, pc)
  /\ UNCHANGED <<usage, devLock, device, graph, loads, stick>>

\* lock.lock() and is_graph_exist after a sleep; GONE when it is not found.
Again(t, from, pc) ==
  /\ thr[t].pc = from
  /\ lock = None
  /\ IF Exists(thr[t].g) THEN lock' = t /\ Goto(t, pc)
     ELSE Return(t) /\ UNCHANGED lock
  /\ UNCHANGED <<usage, devLock, device, graph, loads, stick>>

\* Mutant of HandOver: the lock of the device is not waited for.
HandOverAtOnce(t) == devLock' = t /\ lock' = None

\* From the list lock, which is held while the thread waits for the device, to
\* the lock of the device.
HandOver(t) == devLock = None /\ devLock' = t /\ lock' = None

-----------------------------------------------------------------------------
(* load_tensor.                                                              *)

LoadEnter(t) ==
  Enter(t, "LOAD", IF Exists(thr[t].g) /\ G(t).started THEN "test" ELSE "opt")

\* send_opt_data, under the list lock only; ERROR when it fails.
LoadOptions(t) ==
  /\ thr[t].pc = "opt"
  /\ \/ /\ graph' = [graph EXCEPT ![thr[t].g].started = TRUE]
        /\ Goto(t, "test")
        /\ UNCHANGED lock
     \/ /\ "opt" \in usage.failing
        /\ lock' = None
        /\ Return(t)
        /\ UNCHANGED graph
  /\ UNCHANGED <<usage, devLock, device, loads, stick>>

\* Mutant of LoadFull: a third tensor is let in.
LoadFullThree(g) == g.have = 3

\* Two tensors are in flight.
LoadFull(g) == g.have = 2

\* Mutant of LoadTest: the list lock is kept when BUSY is returned.
LoadTestKept(t) ==
  /\ thr[t].pc = "test"
  /\ IF ~LoadFull(G(t)) THEN Goto(t, "loadDev") /\ UNCHANGED lock
     ELSE IF ~G(t).block THEN Return(t) /\ UNCHANGED lock
     ELSE /\ lock' = None
          /\ IF G(t).failed THEN Return(t) ELSE Goto(t, "loadSleep")
  /\ UNCHANGED <<usage, devLock, device, graph, loads, stick>>

\* The loop while two tensors are in flight: BUSY when the graph does not block,
\* ERROR when a result has failed, else sleep without the lock.
LoadTest(t) ==
  /\ thr[t].pc = "test"
  /\ IF ~LoadFull(G(t)) THEN Goto(t, "loadDev") /\ UNCHANGED lock
     ELSE /\ lock' = None
          /\ IF ~G(t).block \/ G(t).failed THEN Return(t) ELSE Goto(t, "loadSleep")
  /\ UNCHANGED <<usage, devLock, device, graph, loads, stick>>

LoadAgain(t) == Again(t, "loadSleep", "test")

\* Mutant of LoadDevice: the stick is told to start behind another tensor only.
LoadDeviceLater(t) ==
  /\ thr[t].pc = "loadDev"
  /\ HandOver(t)
  /\ thr' = [thr EXCEPT ![t] = [@ EXCEPT !.pc = "send", !.ready = (G(t).have = 1)]]
  /\ UNCHANGED <<usage, device, graph, loads, stick>>

\* The stick is told to start at once when no other tensor is in flight.
LoadDevice(t) ==
  /\ thr[t].pc = "loadDev"
  /\ HandOver(t)
  /\ thr' = [thr EXCEPT ![t] = [@ EXCEPT !.pc = "send", !.ready = (G(t).have = 0)]]
  /\ UNCHANGED <<usage, device, graph, loads, stick>>

\* The stick starts the next input when it is told to and is free.
Started(s, ready) ==
  IF ready /\ s.run = 0 /\ s.done = 0 /\ s.in[s.idx] # 0
  THEN [s EXCEPT !.in[s.idx] = 0, !.run = s.in[s.idx], !.idx = 1 - @]
  ELSE s

\* set_data and the assignments after it up to the read of have_data.
LoadSend(t) ==
  LET a == thr[t].g IN
  /\ thr[t].pc = "send"
  /\ stick' = Started([stick EXCEPT !.in[G(t).inIdx] = thr[t].n], thr[t].ready)
  /\ graph' = [graph EXCEPT ![a] =
       [G(t) EXCEPT !.param[G(t).inIdx] = thr[t].n, !.inIdx = 1 - @]]
  /\ thr' = [thr EXCEPT ![t] = [@ EXCEPT !.pc = "count", !.seen = G(t).have]]
  /\ UNCHANGED <<usage, lock, devLock, device, loads>>

\* set_data failed: ERROR, after lock.unlock(), which this thread does not hold;
\* the lock of the device is kept.
LoadSendFails(t) ==
  /\ thr[t].pc = "send" /\ "send" \in usage.failing
  /\ lock' = None
  /\ graph' = [graph EXCEPT ![thr[t].g].clean = FALSE]
  /\ Return(t)
  /\ UNCHANGED <<usage, devLock, device, loads, stick>>

\* The write of have_data++, apart from its read because the getter that gives
\* up does not hold the lock of the device. OK.
LoadCount(t) ==
  /\ thr[t].pc = "count"
  /\ graph' = [graph EXCEPT ![thr[t].g].have = thr[t].seen + 1]
  /\ devLock' = None
  /\ Return(t)
  /\ UNCHANGED <<usage, lock, device, loads, stick>>

Load(t) == LoadEnter(t) \/ LoadOptions(t) \/ LoadTest(t) \/ LoadAgain(t)
           \/ LoadDevice(t) \/ LoadSend(t) \/ LoadSendFails(t) \/ LoadCount(t)

-----------------------------------------------------------------------------
(* get_result.                                                               *)

GetEnter(t) == Enter(t, "GET", "getTest")

\* The loop while there is no tensor in flight: NO_DATA when the graph does not
\* block, else sleep without the lock.
GetTest(t) ==
  /\ thr[t].pc = "getTest"
  /\ IF G(t).have # 0 THEN Goto(t, "getDev") /\ UNCHANGED lock
     ELSE /\ lock' = None
          /\ IF G(t).block THEN Goto(t, "getSleep") ELSE Return(t)
  /\ UNCHANGED <<usage, devLock, device, graph, loads, stick>>

GetAgain(t) == Again(t, "getSleep", "getTest")

GetDevice(t) ==
  /\ thr[t].pc = "getDev"
  /\ HandOver(t)
  /\ Goto(t, "output")
  /\ UNCHANGED <<usage, device, graph, loads, stick>>

\* get_data("output") gives the result that is there.
GetOutput(t) ==
  /\ thr[t].pc = "output" /\ stick.done # 0
  /\ graph' = [graph EXCEPT ![thr[t].g].out = stick.done]
  /\ thr' = [thr EXCEPT ![t] = [@ EXCEPT !.pc = "aux", !.ready = (G(t).have = 2)]]
  /\ UNCHANGED <<usage, lock, devLock, device, loads, stick>>

\* Mutant of GetBusy: the lock of the device is kept for the sleep.
GetBusyKept(t) ==
  /\ thr[t].pc = "output" /\ stick.done = 0
  /\ Goto(t, "getRetry")
  /\ UNCHANGED <<usage, lock, devLock, device, graph, loads, stick>>

\* It answers BUSY while there is none: the lock of the device is given up for
\* a sleep.
GetBusy(t) ==
  /\ thr[t].pc = "output" /\ stick.done = 0
  /\ devLock' = None
  /\ Goto(t, "getRetry")
  /\ UNCHANGED <<usage, lock, device, graph, loads, stick>>

\* An exchange failed: the graph is marked. ERROR.
GetFails(t) ==
  /\ thr[t].pc \in {"output", "aux"} /\ thr[t].pc \in usage.failing
  /\ graph' = [graph EXCEPT ![thr[t].g] = [G(t) EXCEPT !.failed = TRUE, !.clean = FALSE]]
  /\ devLock' = None
  /\ Return(t)
  /\ UNCHANGED <<usage, lock, device, loads, stick>>

\* Mutant of NextOut: the place of the parameter is not changed.
NextOutSame(i) == i

\* output_idx after a result.
NextOut(i) == 1 - i

\* get_data("auxBuffer"), which tells the stick to go on when another tensor is
\* waiting, and the assignments after it: the parameter of this result is
\* returned. OK; or MYRIAD_ERROR when the stick reports an error, for which
\* get_graph_option is called once the locks are free.
GetAux(t) ==
  LET a == thr[t].g IN
  /\ thr[t].pc = "aux"
  /\ stick' = Started([stick EXCEPT !.done = 0], thr[t].ready)
  /\ \E err \in BOOLEAN :
       /\ graph' = [graph EXCEPT ![a] =
            [G(t) EXCEPT !.outIdx = NextOut(@), !.have = @ - 1, !.failed = @ \/ err]]
       /\ IF err THEN thr' = [thr EXCEPT ![t] = [@ EXCEPT !.pc = "enter", !.op = "DEBUG"]]
          ELSE Return(t)
  /\ devLock' = None
  /\ UNCHANGED <<usage, lock, device, loads>>

\* After the sleep: GONE, another attempt, or the time is over.
GetRetry(t) == Again(t, "getRetry", "getDev")
GetLate(t) ==
  /\ usage.late
  /\ thr[t].pc = "getRetry"
  /\ lock = None /\ Exists(thr[t].g)
  /\ lock' = t
  /\ thr' = [thr EXCEPT ![t] = [@ EXCEPT !.pc = "drop", !.seen = G(t).have]]
  /\ UNCHANGED <<usage, devLock, device, graph, loads, stick>>

\* The result is given up under the list lock only. TIMEOUT.
GetDrop(t) ==
  LET a == thr[t].g IN
  /\ thr[t].pc = "drop"
  /\ graph' = [graph EXCEPT ![a] = [G(t) EXCEPT !.outIdx = NextOut(@),
       !.have = thr[t].seen - 1, !.failed = TRUE, !.clean = FALSE]]
  /\ lock' = None
  /\ Return(t)
  /\ UNCHANGED <<usage, devLock, device, loads, stick>>

Get(t) == GetEnter(t) \/ GetTest(t) \/ GetAgain(t) \/ GetDevice(t) \/ GetOutput(t)
          \/ GetBusy(t) \/ GetFails(t) \/ GetAux(t) \/ GetRetry(t) \/ GetLate(t)
          \/ GetDrop(t)

-----------------------------------------------------------------------------
(* Graphs and options.                                                       *)

NoGraph == \A a \in Addrs : graph[a].st # "listed"

\* allocate_graph: INVALID_PARAMETERS without the device, BUSY when it has a
\* graph.
AllocEnter(t) ==
  /\ thr[t].pc = "enter" /\ thr[t].op = "ALLOC"
  /\ lock = None
  /\ IF device = "listed" /\ NoGraph THEN lock' = t /\ Goto(t, "alloc")
     ELSE Return(t) /\ UNCHANGED lock
  /\ UNCHANGED <<usage, devLock, device, graph, loads, stick>>

\* Its exchanges, under the list lock only: the stick must be waiting, then it
\* is given the graph. ERROR when it is not or when one fails.
Alloc(t) ==
  /\ thr[t].pc = "alloc"
  /\ lock' = None
  /\ Return(t)
  /\ \/ /\ stick.run = 0
        /\ \E a \in Addresses : graph' = [graph EXCEPT ![a] = NewGraph]
        /\ stick' = NewStick
     \/ /\ stick.run # 0 \/ "alloc" \in usage.failing
        /\ UNCHANGED <<graph, stick>>
  /\ UNCHANGED <<usage, devLock, device, loads>>

DeallocEnter(t) == Enter(t, "DEALLOC", "dealloc")

\* The thread returns; the calls that are on a graph of the set as are on a graph
\* that is gone.
ReturnFreed(t, as) ==
  thr' = [u \in Threads |->
    IF u = t THEN Idle
    ELSE [thr[u] EXCEPT !.gone = @ \/ (thr[u].g \in as /\ thr[u].pc # "enter")]]

\* Mutant of Dealloc: the lock of the device is not taken.
DeallocUnlocked(t) ==
  /\ thr[t].pc = "dealloc"
  /\ graph' = [graph EXCEPT ![thr[t].g] = Freed]
  /\ ReturnFreed(t, {thr[t].g})
  /\ lock' = None
  /\ UNCHANGED <<usage, devLock, device, loads, stick>>

\* deallocate_graph with both locks.
Dealloc(t) ==
  /\ thr[t].pc = "dealloc" /\ devLock = None
  /\ graph' = [graph EXCEPT ![thr[t].g] = Freed]
  /\ ReturnFreed(t, {thr[t].g})
  /\ lock' = None
  /\ UNCHANGED <<usage, devLock, device, loads, stick>>

OptionEnter(t) == Enter(t, "OPTION", "option") \/ Enter(t, "DEBUG", "debug")

\* set_graph_option(MVNC_DONT_BLOCK), with the lock of the device; the other
\* options, and get_graph_option, take the same locks and change nothing here.
Option(t) ==
  /\ thr[t].pc \in {"option", "debug"} /\ devLock = None
  /\ \E b \in BOOLEAN :
       /\ thr[t].pc = "debug" => b = G(t).block
       /\ graph' = [graph EXCEPT ![thr[t].g].block = b]
  /\ lock' = None
  /\ Return(t)
  /\ UNCHANGED <<usage, devLock, device, loads, stick>>

Graphs(t) == AllocEnter(t) \/ Alloc(t) \/ DeallocEnter(t) \/ Dealloc(t)
             \/ OptionEnter(t) \/ Option(t)

-----------------------------------------------------------------------------
(* The device list.                                                          *)

\* soft_reset of every device and graph, under the list lock only.
ResetEnter(t) ==
  /\ thr[t].pc = "enter" /\ thr[t].op = "RESET"
  /\ lock = None
  /\ IF device = "listed" /\ ~NoGraph THEN lock' = t /\ Goto(t, "reset")
     ELSE Return(t) /\ UNCHANGED lock
  /\ UNCHANGED <<usage, devLock, device, graph, loads, stick>>

\* Graph::soft_reset: the flag and the buffers, not the pipeline. A failed
\* exchange makes no difference to them.
Reset(t) ==
  /\ thr[t].pc = "reset"
  /\ graph' = [a \in Addrs |->
       IF graph[a].st = "listed" THEN [graph[a] EXCEPT !.failed = FALSE, !.out = 0]
       ELSE graph[a]]
  /\ lock' = None
  /\ Return(t)
  /\ UNCHANGED <<usage, devLock, device, loads, stick>>

\* add: a new Device unless the link has one.
Add(t) ==
  /\ thr[t].pc = "enter" /\ thr[t].op = "ADD"
  /\ lock = None
  /\ IF device = "deleted"
     THEN device' = "listed" /\ devLock' = None /\ stick' = NewStick
     ELSE UNCHANGED <<device, devLock, stick>>
  /\ Return(t)
  /\ UNCHANGED <<usage, lock, graph, loads>>

\* remove: the device leaves the list.
RemoveErase(t) ==
  /\ thr[t].pc = "enter" /\ thr[t].op = "REMOVE"
  /\ lock = None
  /\ IF device = "listed" THEN device' = "erased" /\ Goto(t, "delete")
     ELSE Return(t) /\ UNCHANGED device
  /\ UNCHANGED <<usage, lock, devLock, graph, loads, stick>>

\* Device::~Device, with the lock of the device only.
RemoveDelete(t) ==
  /\ thr[t].pc = "delete" /\ devLock = None
  /\ device' = "deleted"
  /\ LET as == {a \in Addrs : graph[a].st = "listed"} IN
       /\ graph' = [a \in Addrs |->
            IF a \in as THEN Freed ELSE graph[a]]
       /\ ReturnFreed(t, as)
  /\ UNCHANGED <<usage, lock, devLock, loads, stick>>

Devices(t) == ResetEnter(t) \/ Reset(t) \/ Add(t) \/ RemoveErase(t) \/ RemoveDelete(t)

-----------------------------------------------------------------------------

\* The stick finishes an inference.
StickDone ==
  /\ stick.run # 0
  /\ stick' = [stick EXCEPT !.run = 0, !.done = stick.run]
  /\ UNCHANGED <<usage, lock, devLock, device, graph, thr, loads>>

Init ==
  /\ usage \in Usages
  /\ lock = None /\ devLock = None /\ device = "listed"
  /\ graph = [a \in Addrs |-> Unused]
  /\ thr = [t \in Threads |-> Idle]
  /\ loads = 0 /\ stick = NewStick

Inside(t) == Load(t) \/ Get(t) \/ Graphs(t) \/ Devices(t)

Next == (\E t \in Threads : Call(t) \/ Inside(t)) \/ StickDone

Spec == Init /\ [][Next]_vars

\* A thread in a call goes on, and gets a lock that becomes free again and again:
\* those who wait for long sleep without it. The stick finishes what it runs.
\* The application keeps asking for the results of its graph.
AsksForResult(t) ==
  Call(t) /\ thr'[t].op = "GET" /\ Exists(thr'[t].g)

Fairness ==
  /\ WF_vars(StickDone)
  /\ \A t \in Threads : SF_vars(Inside(t))
  /\ \A t \in {t \in Threads : \E u \in Usages : "GET" \in u.ops[t]} :
       SF_vars(AsksForResult(t))

FairSpec == Spec /\ Fairness

-----------------------------------------------------------------------------
(* Properties.                                                               *)

\* Where a call uses its graph, and where it talks to the stick.
OnGraph == {"opt", "test", "loadDev", "send", "count", "getTest", "getDev",
            "output", "aux", "drop", "option", "debug", "dealloc"}
Talking == {"opt", "send", "output", "aux", "alloc", "reset"}

\* What the callers keep to, as MvNcApi::run does, since the code relies on it: one
\* thread loads, one gets results, and soft_reset is not called beside them.
OneLoads == \A s, t \in Threads : "LOAD" \in usage.ops[s] \cap usage.ops[t] => s = t
OneGets == \A s, t \in Threads : "GET" \in usage.ops[s] \cap usage.ops[t] => s = t
OneResets ==
  \A s, t \in Threads :
    "RESET" \in usage.ops[s] /\ usage.ops[t] \cap {"LOAD", "GET", "RESET"} # {} => s = t

\* Variables have values of their types, and have_data counts at most two tensors
\* when one thread loads and one gets results.
TypeOK ==
  /\ usage \in Usages
  /\ lock \in Threads \cup {None} /\ devLock \in Threads \cup {None}
  /\ device \in {"listed", "erased", "deleted"}
  /\ graph \in [Addrs ->
       [st: {"unused", "listed", "freed"}, started: BOOLEAN, have: Int,
        block: BOOLEAN, inIdx: {0, 1}, outIdx: {0, 1}, failed: BOOLEAN,
        param: [{0, 1} -> 0..MaxLoads], out: 0..MaxLoads, clean: BOOLEAN]]
  /\ thr \in [Threads ->
       [pc: {"idle", "enter", "loadSleep", "getSleep", "getRetry", "delete"}
            \cup OnGraph \cup Talking,
        op: Ops \cup {"NONE", "DEBUG"}, g: Addrs \cup {None}, n: 0..MaxLoads,
        seen: Int, ready: BOOLEAN, gone: BOOLEAN]]
  /\ OneLoads /\ OneGets /\ ~usage.reuse =>
       /\ \A a \in Addrs : graph[a].have \in 0..2
       /\ \A t \in Threads : thr[t].seen \in 0..2
  /\ loads \in 0..MaxLoads
  /\ stick \in [in: [{0, 1} -> 0..MaxLoads], idx: {0, 1},
                run: 0..MaxLoads, done: 0..MaxLoads]

\* A graph is not deleted while a call uses it: deallocate_graph and the
\* destructor of the device wait for the locks that the call holds.
HoldsListed == \A t \in Threads : thr[t].pc \in OnGraph => G(t).st = "listed"

\* A call that slept while its graph was deleted does not go on with another: it
\* answers GONE (mvnc.h). is_graph_exist compares addresses, so that this needs a
\* heap that does not give an address again.
GoneReported ==
  ~usage.reuse => \A t \in Threads : thr[t].pc \in OnGraph => ~thr[t].gone

\* One thread at a time talks to the stick, though some exchanges are made under
\* the list lock and others under the lock of the device. Without the reuse of
\* addresses, which lets a call go on with another graph (GoneReported).
NoOverlap ==
  OneResets /\ ~usage.reuse => Cardinality({t \in Threads : thr[t].pc \in Talking}) <= 1

\* A call that has returned holds neither lock, on every path, as long as no
\* transfer of a tensor fails.
LocksReturned ==
  "send" \notin usage.failing =>
    \A t \in Threads : thr[t].pc = "idle" => lock # t /\ devLock # t

InFlight(a) ==
  Cardinality({i \in {0, 1} : stick.in[i] # 0})
    + (IF stick.run # 0 THEN 1 ELSE 0) + (IF stick.done # 0 THEN 1 ELSE 0)

\* have_data and the tensor that is about to be counted are the tensors that the
\* stick has; and the stick is never left with an input that nothing will start.
HostAndStickAgree ==
  OneLoads => \A a \in Addrs : graph[a].st = "listed" /\ graph[a].clean =>
    /\ graph[a].have
         + Cardinality({t \in Threads : thr[t].pc = "count" /\ thr[t].g = a})
         = InFlight(a)
    /\ InFlight(a) > 0 => stick.run # 0 \/ stick.done # 0

\* The result that get_result returns is the one of the tensor whose parameter
\* it returns.
ResultPaired ==
  OneLoads /\ OneResets => \A t \in Threads : thr[t].pc = "aux" /\ G(t).clean =>
    G(t).out = G(t).param[G(t).outIdx]

\* The graph of which TensorPipe speaks: no result was given up for it, and the
\* callers keep to what the code relies on.
Followed ==
  {a \in Addrs : OneLoads /\ OneResets /\ graph[a].st = "listed" /\ graph[a].clean}

\* The tensors in flight, as the parameters say.
Params(g) == [i \in 1..g.have |-> g.param[(g.outIdx + i - 1) % 2]]
Queue == IF Followed = {} THEN <<>> ELSE Params(graph[CHOOSE a \in Followed : TRUE])

\* The tensor whose result is in the output buffer of the graph.
Output == IF Followed = {} THEN 0 ELSE graph[CHOOSE a \in Followed : TRUE].out

Pipe == INSTANCE TensorPipe
  WITH Tensors <- 1..MaxLoads, None <- 0, pipe <- Queue, result <- Output

\* A graph is a queue of two tensors: a load appends, get_result returns the
\* result of the first.
IsPipe == Pipe!Spec

\* What a call waits for will come: no thread left with the lock of the device,
\* a load has another thread that asks for results, a get a tensor in flight or a
\* graph that is gone.
MustReturn(t) ==
  /\ "send" \notin usage.failing /\ thr[t].pc # "idle"
  /\ thr[t].op = "LOAD" => \E u \in Threads \ {t} : "GET" \in usage.ops[u]
  /\ thr[t].op = "GET" /\ Exists(thr[t].g) => G(t).have # 0

\* Calls return: a load behind two tensors, a deletion or a removal behind calls
\* that hold the device, get_result behind an inference or, with nothing in flight,
\* when its graph is deleted.
CallsReturn == \A t \in Threads : MustReturn(t) ~> thr[t].pc = "idle"

=============================================================================
