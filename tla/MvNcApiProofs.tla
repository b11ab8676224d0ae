---------------------------- MODULE MvNcApiProofs ----------------------------
(***************************************************************************)
(* Theorems about NCAPI v1 for any number of threads, addresses and        *)
(* tensors. Whatever the use of the API and the failures of an exchange,   *)
(* no call uses a graph that was deleted, and a call that slept while its  *)
(* graph was deleted does not go on with another. In the pipeline the      *)
(* types hold with the bound of have_data, one thread at a time talks to   *)
(* the stick, the stick and have_data agree, the result of a tensor comes  *)
(* with its parameter, and a graph is the queue of TensorPipe. What these  *)
(* need of the callers is in their statements: OneLoads, OneGets,          *)
(* OneResets.                                                              *)
(***************************************************************************)
EXTENDS MvNcApi, FiniteSetTheorems, SequenceTheorems, TLAPS

-----------------------------------------------------------------------------
(* The inductive invariant.                                                  *)

\* Where a thread holds the list lock, and where it holds the device's lock.
ByList == {"opt", "test", "loadDev", "getTest", "getDev", "drop", "option", "debug",
           "dealloc", "alloc", "reset"}
ByDev == {"send", "count", "output", "aux"}
Elsewhere == {"idle", "enter", "loadSleep", "getSleep", "getRetry", "delete"}

\* The numbers of the tensors, and 0 for none.
Numbers == 0..MaxLoads

GraphType ==
  [st: {"unused", "listed", "freed"}, started: BOOLEAN, have: Int, block: BOOLEAN,
   inIdx: {0, 1}, outIdx: {0, 1}, failed: BOOLEAN, param: [{0, 1} -> Numbers],
   out: Numbers, clean: BOOLEAN]
ThreadType ==
  [pc: ByList \cup ByDev \cup Elsewhere, op: Ops \cup {"NONE", "DEBUG"},
   g: Addrs \cup {None}, n: Numbers, seen: Int, ready: BOOLEAN, gone: BOOLEAN]
StickType == [in: [{0, 1} -> Numbers], idx: {0, 1}, run: Numbers, done: Numbers]

\* The variables have their types. TypeOK also bounds have_data: see TypesAndBound.
Shape ==
  /\ usage \in Usages
  /\ lock \in Threads \cup {None} /\ devLock \in Threads \cup {None}
  /\ device \in {"listed", "erased", "deleted"}
  /\ graph \in [Addrs -> GraphType] /\ thr \in [Threads -> ThreadType]
  /\ loads \in Numbers /\ stick \in StickType

\* load_tensor has returned from a failed transfer and kept the device's lock.
Kept == devLock # None /\ thr[devLock].pc \notin ByDev

\* A thread holds the lock that its place in the code stands for. Since the
\* failed load also unlocks the list lock for whoever holds it, that lock is
\* certain only until then.
HasDev == \A t \in Threads : thr[t].pc \in ByDev => devLock = t
HasList ==
  \A t \in Threads : thr[t].pc \in ByList => Kept \/ (lock = t /\ device = "listed")

\* One thread deletes an erased device, whose lock is free once it is deleted.
OneDeletes ==
  /\ \A t \in Threads : thr[t].pc = "delete" => device = "erased"
  /\ \A t, u \in Threads : thr[t].pc = "delete" /\ thr[u].pc = "delete" => t = u
  /\ device = "deleted" => devLock = None

OnListed ==
  \A t \in Threads : thr[t].pc \in OnGraph => thr[t].g \in Addrs /\ G(t).st = "listed"

\* The part of the invariant that is not about types.
Held == HasDev /\ HasList /\ OneDeletes /\ OnListed

-----------------------------------------------------------------------------
(* Types.                                                                    *)

LEMMA ZeroNumber == 0 \in Numbers
  BY MvNcAssumption DEF Numbers

\* The graphs and the threads that the module writes down have their types.
LEMMA RecordTypes ==
  /\ NewGraph \in GraphType /\ Unused \in GraphType /\ Freed \in GraphType
  /\ Idle \in ThreadType
  /\ NewStick \in StickType
<1>1. NewGraph \in GraphType
  BY ZeroNumber DEF NewGraph, GraphType
<1>2. Unused \in GraphType /\ Freed \in GraphType
  BY <1>1 DEF Unused, Freed, GraphType
<1>3. Idle \in ThreadType
  BY ZeroNumber DEF Idle, ThreadType, Elsewhere
<1>4. NewStick \in StickType
  BY ZeroNumber DEF NewStick, StickType
<1> QED BY <1>1, <1>2, <1>3, <1>4

LEMMA InitShape == Init => Shape
  BY RecordTypes, ZeroNumber DEF Init, Shape

\* A call starts.
LEMMA CallShape ==
  ASSUME Shape, NEW t \in Threads, Call(t)
  PROVE  Shape'
<1> DEFINE Calls1(op) == [Idle EXCEPT !.pc = "enter", !.op = op]
           Calls2(op, a, n) == [Idle EXCEPT !.pc = "enter", !.op = op, !.g = a, !.n = n]
<1>1. \A op \in Ops : Calls1(op) \in ThreadType
  BY RecordTypes DEF ThreadType, Elsewhere
<1>2. \A op \in Ops, a \in Addrs, n \in Numbers : Calls2(op, a, n) \in ThreadType
  BY RecordTypes DEF ThreadType, Elsewhere
<1>3. loads' \in Numbers /\ \E c \in ThreadType : thr' = [thr EXCEPT ![t] = c]
  <2>1. PICK op \in usage.ops[t] :
          \/ thr' = [thr EXCEPT ![t] = Calls1(op)] /\ loads' = loads
          \/ /\ op = "LOAD" => loads < MaxLoads
             /\ loads' = IF op = "LOAD" THEN loads + 1 ELSE loads
             /\ \E a \in Addrs : thr' = [thr EXCEPT ![t] =
                  Calls2(op, a, IF op = "LOAD" THEN loads + 1 ELSE 0)]
    BY DEF Call
  <2>2. op \in Ops
    BY MvNcAssumption DEF Shape
  <2>3. /\ loads \in Numbers /\ 0 \in Numbers
        /\ op = "LOAD" /\ loads < MaxLoads => loads + 1 \in Numbers
    BY ZeroNumber, MvNcAssumption DEF Shape, Numbers
  <2> HIDE DEF Calls1, Calls2
  <2> QED BY <1>1, <1>2, <2>1, <2>2, <2>3
<1> QED BY <1>3 DEF Call, Shape

\* The steps that only move a thread to another place.
LEMMA MoveShape ==
  ASSUME Shape, NEW t \in Threads, usage' = usage,
         lock' \in {t, None, lock}, devLock' \in {t, None, devLock},
         device' \in {"listed", "erased", "deleted"},
         graph' \in [Addrs -> GraphType], thr' \in [Threads -> ThreadType],
         loads' = loads, stick' \in StickType
  PROVE  Shape'
  BY DEF Shape

\* A thread that goes on, and one that returns.
LEMMA GotoShape ==
  ASSUME Shape, NEW t \in Threads, NEW pc \in ByList \cup ByDev \cup Elsewhere,
         Goto(t, pc)
  PROVE  thr' \in [Threads -> ThreadType]
  BY ZenonT(30) DEF Shape, Goto, ThreadType

LEMMA ReturnShape ==
  ASSUME Shape, NEW t \in Threads, Return(t)
  PROVE  thr' \in [Threads -> ThreadType]
  BY ZeroNumber DEF Shape, Return, Idle, ThreadType, Elsewhere

LEMMA EnterShape ==
  ASSUME Shape, NEW t \in Threads, NEW op, NEW pc \in ByList, Enter(t, op, pc)
  PROVE  Shape'
  BY GotoShape, ReturnShape, MoveShape DEF Enter, Shape

LEMMA AgainShape ==
  ASSUME Shape, NEW t \in Threads, NEW from, NEW pc \in ByList, Again(t, from, pc)
  PROVE  Shape'
  BY GotoShape, ReturnShape, MoveShape DEF Again, Shape

\* A step that gives a graph, or a thread, a new record of its type.
LEMMA GraphUpdate ==
  ASSUME Shape, NEW a \in Addrs, NEW g \in GraphType, graph' = [graph EXCEPT ![a] = g]
  PROVE  graph' \in [Addrs -> GraphType]
  BY DEF Shape

LEMMA ThreadUpdate ==
  ASSUME Shape, NEW t \in Threads, NEW c \in ThreadType, thr' = [thr EXCEPT ![t] = c]
  PROVE  thr' \in [Threads -> ThreadType]
  BY DEF Shape

\* The records that the steps on a graph make of it.
LEMMA GraphFields ==
  ASSUME NEW g \in GraphType
  PROVE  /\ [g EXCEPT !.started = TRUE] \in GraphType
         /\ \A i \in {0, 1}, n \in Numbers :
              [g EXCEPT !.param[i] = n, !.inIdx = 1 - @] \in GraphType
         /\ [g EXCEPT !.clean = FALSE] \in GraphType
         /\ \A n \in Int : [g EXCEPT !.have = n] \in GraphType
         /\ \A n \in Numbers : [g EXCEPT !.out = n] \in GraphType
         /\ [g EXCEPT !.failed = TRUE, !.clean = FALSE] \in GraphType
         /\ \A b \in BOOLEAN :
              [g EXCEPT !.outIdx = NextOut(@), !.have = @ - 1, !.failed = @ \/ b]
                \in GraphType
         /\ \A n \in Int :
              [g EXCEPT !.outIdx = NextOut(@), !.have = n, !.failed = TRUE,
                        !.clean = FALSE] \in GraphType
         /\ \A b \in BOOLEAN : [g EXCEPT !.block = b] \in GraphType
         /\ [g EXCEPT !.failed = FALSE, !.out = 0] \in GraphType
<1>1. [g EXCEPT !.started = TRUE] \in GraphType
  BY DEF GraphType
<1>2. \A i \in {0, 1}, n \in Numbers :
        [g EXCEPT !.param[i] = n, !.inIdx = 1 - @] \in GraphType
  <2>1. \A p \in [{0, 1} -> Numbers], i \in {0, 1} :
          [g EXCEPT !.param = p, !.inIdx = i] \in GraphType
    BY DEF GraphType
  <2>2. \A i \in {0, 1}, n \in Numbers : [g.param EXCEPT ![i] = n] \in [{0, 1} -> Numbers]
    BY DEF GraphType
  <2>3. 1 - g.inIdx \in {0, 1}
    BY DEF GraphType
  <2> QED BY <2>1, <2>2, <2>3
<1>3. [g EXCEPT !.clean = FALSE] \in GraphType
  BY DEF GraphType
<1>4. \A n \in Int : [g EXCEPT !.have = n] \in GraphType
  BY DEF GraphType
<1>5. \A n \in Numbers : [g EXCEPT !.out = n] \in GraphType
  BY DEF GraphType
<1>6. [g EXCEPT !.failed = TRUE, !.clean = FALSE] \in GraphType
  BY DEF GraphType
<1>7. \A b \in BOOLEAN :
        [g EXCEPT !.outIdx = NextOut(@), !.have = @ - 1, !.failed = @ \/ b]
          \in GraphType
  <2>1. \A i \in {0, 1}, n \in Int, b \in BOOLEAN :
          [g EXCEPT !.outIdx = i, !.have = n, !.failed = b] \in GraphType
    BY DEF GraphType
  <2>2. NextOut(g.outIdx) \in {0, 1} /\ g.have - 1 \in Int /\ g.failed \in BOOLEAN
    BY DEF GraphType, NextOut
  <2>3. \A b \in BOOLEAN : (g.failed \/ b) \in BOOLEAN
    BY <2>2
  <2> QED BY <2>1, <2>2, <2>3
<1>8. \A n \in Int :
        [g EXCEPT !.outIdx = NextOut(@), !.have = n, !.failed = TRUE, !.clean = FALSE]
          \in GraphType
  <2>1. \A i \in {0, 1}, n \in Int :
          [g EXCEPT !.outIdx = i, !.have = n, !.failed = TRUE, !.clean = FALSE]
            \in GraphType
    BY DEF GraphType
  <2>2. NextOut(g.outIdx) \in {0, 1}
    BY DEF GraphType, NextOut
  <2> QED BY <2>1, <2>2
<1>9. \A b \in BOOLEAN : [g EXCEPT !.block = b] \in GraphType
  BY DEF GraphType
<1>10. [g EXCEPT !.failed = FALSE, !.out = 0] \in GraphType
  BY ZeroNumber DEF GraphType
<1> QED BY <1>1, <1>2, <1>3, <1>4, <1>5, <1>6, <1>7, <1>8, <1>9, <1>10

\* The records that the steps of a thread make of its call.
LEMMA ThreadFields ==
  ASSUME NEW c \in ThreadType, NEW pc \in ByList \cup ByDev \cup Elsewhere
  PROVE  /\ [c EXCEPT !.pc = pc] \in ThreadType
         /\ \A b \in BOOLEAN : [c EXCEPT !.pc = pc, !.ready = b] \in ThreadType
         /\ \A n \in Int : [c EXCEPT !.pc = pc, !.seen = n] \in ThreadType
         /\ [c EXCEPT !.pc = pc, !.op = "DEBUG"] \in ThreadType
         /\ \A b \in BOOLEAN : [c EXCEPT !.gone = @ \/ b] \in ThreadType
<1>1. [c EXCEPT !.pc = pc] \in ThreadType
  BY DEF ThreadType
<1>2. \A b \in BOOLEAN : [c EXCEPT !.pc = pc, !.ready = b] \in ThreadType
  BY DEF ThreadType
<1>3. \A n \in Int : [c EXCEPT !.pc = pc, !.seen = n] \in ThreadType
  BY DEF ThreadType
<1>4. [c EXCEPT !.pc = pc, !.op = "DEBUG"] \in ThreadType
  BY DEF ThreadType
<1>5. \A b \in BOOLEAN : [c EXCEPT !.gone = @ \/ b] \in ThreadType
  BY DEF ThreadType
<1> QED BY <1>1, <1>2, <1>3, <1>4, <1>5

\* The stick starts an input, or has its result taken.
LEMMA StartedShape ==
  ASSUME NEW s \in StickType, NEW ready
  PROVE  Started(s, ready) \in StickType
<1>1. /\ [s.in EXCEPT ![s.idx] = 0] \in [{0, 1} -> Numbers]
      /\ s.in[s.idx] \in Numbers /\ 1 - s.idx \in {0, 1}
  BY ZeroNumber DEF StickType
<1>2. \A p \in [{0, 1} -> Numbers], i \in {0, 1}, n \in Numbers :
        [s EXCEPT !.in = p, !.run = n, !.idx = i] \in StickType
  BY DEF StickType
<1>3. [s EXCEPT !.in[s.idx] = 0, !.run = s.in[s.idx], !.idx = 1 - @] \in StickType
  BY <1>1, <1>2
<1> QED BY <1>3 DEF Started

\* A call on a graph has one.
LEMMA OnGraphTypes ==
  ASSUME Shape, OnListed, NEW t \in Threads, thr[t].pc \in OnGraph
  PROVE  thr[t].g \in Addrs /\ G(t) \in GraphType /\ thr[t] \in ThreadType
  BY DEF Shape, OnListed, G

\* load_tensor.
LEMMA LoadShape ==
  ASSUME Shape, OnListed, NEW t \in Threads, Load(t)
  PROVE  Shape'
<1>1. CASE LoadEnter(t)
  BY <1>1, EnterShape DEF LoadEnter, ByList
<1>2. CASE LoadOptions(t)
  <2>1. thr[t].g \in Addrs /\ [G(t) EXCEPT !.started = TRUE] \in GraphType
    BY <1>2, OnGraphTypes, GraphFields DEF LoadOptions, OnGraph
  <2>2. graph' \in [Addrs -> GraphType]
    <3>1. CASE graph' = [graph EXCEPT ![thr[t].g].started = TRUE]
      BY <2>1, <3>1, GraphUpdate DEF G
    <3>2. CASE graph' = graph
      BY <3>2 DEF Shape
    <3> QED BY <1>2, <3>1, <3>2 DEF LoadOptions
  <2>3. thr' \in [Threads -> ThreadType]
    BY <1>2, GotoShape, ReturnShape DEF LoadOptions, ByList
  <2> QED BY <1>2, <2>2, <2>3, MoveShape DEF LoadOptions, Shape
<1>3. CASE LoadTest(t)
  <2>1. thr' \in [Threads -> ThreadType]
    BY <1>3, GotoShape, ReturnShape DEF LoadTest, ByList, Elsewhere
  <2> QED BY <1>3, <2>1, MoveShape DEF LoadTest, Shape
<1>4. CASE LoadAgain(t)
  BY <1>4, AgainShape DEF LoadAgain, ByList
<1>5. CASE LoadDevice(t)
  <2>1. \A b \in BOOLEAN : [thr[t] EXCEPT !.pc = "send", !.ready = b] \in ThreadType
    BY ThreadFields DEF Shape, ByDev
  <2>2. thr' \in [Threads -> ThreadType]
    BY <1>5, <2>1, ThreadUpdate DEF LoadDevice
  <2> QED BY <1>5, <2>2, MoveShape DEF LoadDevice, HandOver, Shape
<1>6. CASE LoadSend(t)
  <2>1. thr[t].g \in Addrs /\ G(t) \in GraphType /\ thr[t] \in ThreadType
    BY <1>6, OnGraphTypes DEF LoadSend, OnGraph
  <2>2. G(t).inIdx \in {0, 1} /\ thr[t].n \in Numbers /\ G(t).have \in Int
    BY <2>1 DEF GraphType, ThreadType
  <2>3. [stick EXCEPT !.in[G(t).inIdx] = thr[t].n] \in StickType
    BY <2>2 DEF Shape, StickType
  <2>4. stick' \in StickType
    BY <1>6, <2>3, StartedShape DEF LoadSend
  <2>5. [G(t) EXCEPT !.param[G(t).inIdx] = thr[t].n, !.inIdx = 1 - @] \in GraphType
    BY <2>1, <2>2, GraphFields
  <2>6. graph' \in [Addrs -> GraphType]
    <3>1. graph' = [graph EXCEPT ![thr[t].g] =
            [G(t) EXCEPT !.param[G(t).inIdx] = thr[t].n, !.inIdx = 1 - @]]
      BY <1>6 DEF LoadSend, G
    <3> QED BY <2>1, <2>5, <3>1, GraphUpdate
  <2>7. [thr[t] EXCEPT !.pc = "count", !.seen = G(t).have] \in ThreadType
    BY <2>1, <2>2, ThreadFields DEF ByDev
  <2>8. thr' \in [Threads -> ThreadType]
    BY <1>6, <2>7, ThreadUpdate DEF LoadSend
  <2> QED BY <1>6, <2>4, <2>6, <2>8, MoveShape DEF LoadSend, Shape
<1>7. CASE LoadSendFails(t)
  <2>1. thr[t].g \in Addrs /\ [G(t) EXCEPT !.clean = FALSE] \in GraphType
    BY <1>7, OnGraphTypes, GraphFields DEF LoadSendFails, OnGraph
  <2>2. graph' \in [Addrs -> GraphType]
    BY <1>7, <2>1, GraphUpdate DEF LoadSendFails, G
  <2> QED BY <1>7, <2>2, ReturnShape, MoveShape DEF LoadSendFails, Shape
<1>8. CASE LoadCount(t)
  <2>1. thr[t].g \in Addrs /\ G(t) \in GraphType /\ thr[t] \in ThreadType
    BY <1>8, OnGraphTypes DEF LoadCount, OnGraph
  <2>2. thr[t].seen + 1 \in Int
    BY <2>1 DEF ThreadType
  <2>3. [G(t) EXCEPT !.have = thr[t].seen + 1] \in GraphType
    BY <2>1, <2>2, GraphFields
  <2>4. graph' \in [Addrs -> GraphType]
    BY <1>8, <2>1, <2>3, GraphUpdate DEF LoadCount, G
  <2> QED BY <1>8, <2>4, ReturnShape, MoveShape DEF LoadCount, Shape
<1> QED BY <1>1, <1>2, <1>3, <1>4, <1>5, <1>6, <1>7, <1>8 DEF Load

\* get_result.
LEMMA GetShape ==
  ASSUME Shape, OnListed, NEW t \in Threads, Get(t)
  PROVE  Shape'
<1>1. CASE GetEnter(t)
  BY <1>1, EnterShape DEF GetEnter, ByList
<1>2. CASE GetTest(t)
  <2>1. thr' \in [Threads -> ThreadType]
    BY <1>2, GotoShape, ReturnShape DEF GetTest, ByList, Elsewhere
  <2> QED BY <1>2, <2>1, MoveShape DEF GetTest, Shape
<1>3. CASE GetAgain(t)
  BY <1>3, AgainShape DEF GetAgain, ByList
<1>4. CASE GetDevice(t)
  <2>1. thr' \in [Threads -> ThreadType]
    BY <1>4, GotoShape DEF GetDevice, ByDev
  <2> QED BY <1>4, <2>1, MoveShape DEF GetDevice, HandOver, Shape
<1>5. CASE GetOutput(t)
  <2>1. thr[t].g \in Addrs /\ G(t) \in GraphType /\ thr[t] \in ThreadType
    BY <1>5, OnGraphTypes DEF GetOutput, OnGraph
  <2>2. stick.done \in Numbers
    BY DEF Shape, StickType
  <2>3. [G(t) EXCEPT !.out = stick.done] \in GraphType
    BY <2>1, <2>2, GraphFields
  <2>4. graph' \in [Addrs -> GraphType]
    BY <1>5, <2>1, <2>3, GraphUpdate DEF GetOutput, G
  <2>5. \A b \in BOOLEAN : [thr[t] EXCEPT !.pc = "aux", !.ready = b] \in ThreadType
    BY <2>1, ThreadFields DEF ByDev
  <2>6. thr' \in [Threads -> ThreadType]
    BY <1>5, <2>5, ThreadUpdate DEF GetOutput
  <2> QED BY <1>5, <2>4, <2>6, MoveShape DEF GetOutput, Shape
<1>6. CASE GetBusy(t)
  <2>1. thr' \in [Threads -> ThreadType]
    BY <1>6, GotoShape DEF GetBusy, Elsewhere
  <2> QED BY <1>6, <2>1, MoveShape DEF GetBusy, Shape
<1>7. CASE GetFails(t)
  <2>1. thr[t].g \in Addrs /\ [G(t) EXCEPT !.failed = TRUE, !.clean = FALSE] \in GraphType
    BY <1>7, OnGraphTypes, GraphFields DEF GetFails, OnGraph
  <2>2. graph' \in [Addrs -> GraphType]
    BY <1>7, <2>1, GraphUpdate DEF GetFails, G
  <2> QED BY <1>7, <2>2, ReturnShape, MoveShape DEF GetFails, Shape
<1>8. CASE GetAux(t)
  <2>1. thr[t].g \in Addrs /\ G(t) \in GraphType /\ thr[t] \in ThreadType
    BY <1>8, OnGraphTypes DEF GetAux, OnGraph
  <2>2. [stick EXCEPT !.done = 0] \in StickType
    BY ZeroNumber DEF Shape, StickType
  <2>3. stick' \in StickType
    BY <1>8, <2>2, StartedShape DEF GetAux
  <2>4. PICK err \in BOOLEAN :
          /\ graph' = [graph EXCEPT ![thr[t].g] =
               [G(t) EXCEPT !.outIdx = NextOut(@), !.have = @ - 1,
                            !.failed = @ \/ err]]
          /\ \/ Return(t)
             \/ thr' = [thr EXCEPT ![t] = [thr[t] EXCEPT !.pc = "enter", !.op = "DEBUG"]]
    BY <1>8 DEF GetAux, G
  <2>5. [G(t) EXCEPT !.outIdx = NextOut(@), !.have = @ - 1, !.failed = @ \/ err]
          \in GraphType
    BY <2>1, GraphFields
  <2>6. graph' \in [Addrs -> GraphType]
    BY <2>1, <2>4, <2>5, GraphUpdate
  <2>7. [thr[t] EXCEPT !.pc = "enter", !.op = "DEBUG"] \in ThreadType
    BY <2>1, ThreadFields DEF Elsewhere
  <2>8. thr' \in [Threads -> ThreadType]
    BY <2>4, <2>7, ReturnShape, ThreadUpdate
  <2> QED BY <1>8, <2>3, <2>6, <2>8, MoveShape DEF GetAux, Shape
<1>9. CASE GetRetry(t)
  BY <1>9, AgainShape DEF GetRetry, ByList
<1>10. CASE GetLate(t)
  <2>1. thr[t].g \in Addrs /\ thr[t] \in ThreadType /\ G(t) \in GraphType
    BY <1>10 DEF GetLate, Exists, G, Shape, ThreadType
  <2>2. G(t).have \in Int
    BY <2>1 DEF GraphType
  <2>3. [thr[t] EXCEPT !.pc = "drop", !.seen = G(t).have] \in ThreadType
    BY <2>1, <2>2, ThreadFields DEF ByList
  <2>4. thr' \in [Threads -> ThreadType]
    BY <1>10, <2>3, ThreadUpdate DEF GetLate
  <2> QED BY <1>10, <2>4, MoveShape DEF GetLate, Shape
<1>11. CASE GetDrop(t)
  <2>1. thr[t].g \in Addrs /\ G(t) \in GraphType /\ thr[t] \in ThreadType
    BY <1>11, OnGraphTypes DEF GetDrop, OnGraph
  <2>2. thr[t].seen - 1 \in Int
    BY <2>1 DEF ThreadType
  <2>3. [G(t) EXCEPT !.outIdx = NextOut(@), !.have = thr[t].seen - 1,
                     !.failed = TRUE, !.clean = FALSE] \in GraphType
    BY <2>1, <2>2, GraphFields
  <2>4. graph' \in [Addrs -> GraphType]
    BY <1>11, <2>1, <2>3, GraphUpdate DEF GetDrop, G
  <2> QED BY <1>11, <2>4, ReturnShape, MoveShape DEF GetDrop, Shape
<1> QED BY <1>1, <1>2, <1>3, <1>4, <1>5, <1>6, <1>7, <1>8, <1>9, <1>10, <1>11
        DEF Get

\* A step that deletes graphs.
LEMMA FreedShape ==
  ASSUME Shape, NEW t \in Threads, NEW as, ReturnFreed(t, as)
  PROVE  thr' \in [Threads -> ThreadType]
<1>1. \A u \in Threads, b \in BOOLEAN : [thr[u] EXCEPT !.gone = @ \/ b] \in ThreadType
  BY ThreadFields DEF Shape, Elsewhere
<1> QED BY <1>1, RecordTypes DEF ReturnFreed

\* allocate_graph, deallocate_graph and the options.
LEMMA GraphsShape ==
  ASSUME Shape, OnListed, NEW t \in Threads, Graphs(t)
  PROVE  Shape'
<1>1. CASE AllocEnter(t)
  <2>1. thr' \in [Threads -> ThreadType]
    BY <1>1, GotoShape, ReturnShape DEF AllocEnter, ByList
  <2> QED BY <1>1, <2>1, MoveShape DEF AllocEnter, Shape
<1>2. CASE Alloc(t)
  <2>1. graph' \in [Addrs -> GraphType] /\ stick' \in StickType
    BY <1>2, RecordTypes DEF Alloc, Addresses, Shape
  <2> QED BY <1>2, <2>1, ReturnShape, MoveShape DEF Alloc, Shape
<1>3. CASE DeallocEnter(t)
  BY <1>3, EnterShape DEF DeallocEnter, ByList
<1>4. CASE Dealloc(t)
  <2>1. graph' \in [Addrs -> GraphType]
    BY <1>4, RecordTypes DEF Dealloc, Shape
  <2> QED BY <1>4, <2>1, FreedShape, MoveShape DEF Dealloc, Shape
<1>5. CASE OptionEnter(t)
  BY <1>5, EnterShape DEF OptionEnter, ByList
<1>6. CASE Option(t)
  <2>1. thr[t].g \in Addrs /\ G(t) \in GraphType
    BY <1>6, OnGraphTypes DEF Option, OnGraph
  <2>2. PICK b \in BOOLEAN : graph' = [graph EXCEPT ![thr[t].g] = [G(t) EXCEPT !.block = b]]
    BY <1>6 DEF Option, G
  <2>3. graph' \in [Addrs -> GraphType]
    BY <2>1, <2>2, GraphFields, GraphUpdate
  <2> QED BY <1>6, <2>3, ReturnShape, MoveShape DEF Option, Shape
<1> QED BY <1>1, <1>2, <1>3, <1>4, <1>5, <1>6 DEF Graphs

\* The device list.
LEMMA DevicesShape ==
  ASSUME Shape, NEW t \in Threads, Devices(t)
  PROVE  Shape'
<1>1. CASE ResetEnter(t)
  <2>1. thr' \in [Threads -> ThreadType]
    BY <1>1, GotoShape, ReturnShape DEF ResetEnter, ByList
  <2> QED BY <1>1, <2>1, MoveShape DEF ResetEnter, Shape
<1>2. CASE Reset(t)
  <2>1. \A a \in Addrs : [graph[a] EXCEPT !.failed = FALSE, !.out = 0] \in GraphType
    BY GraphFields DEF Shape
  <2>2. graph' \in [Addrs -> GraphType]
    BY <1>2, <2>1 DEF Reset, Shape
  <2> QED BY <1>2, <2>2, ReturnShape, MoveShape DEF Reset, Shape
<1>3. CASE Add(t)
  BY <1>3, RecordTypes, ReturnShape, MoveShape DEF Add, Shape
<1>4. CASE RemoveErase(t)
  <2>1. thr' \in [Threads -> ThreadType]
    BY <1>4, GotoShape, ReturnShape DEF RemoveErase, Elsewhere
  <2> QED BY <1>4, <2>1, MoveShape DEF RemoveErase, Shape
<1>5. CASE RemoveDelete(t)
  <2>1. graph' \in [Addrs -> GraphType]
    BY <1>5, RecordTypes DEF RemoveDelete, Shape
  <2>2. thr' \in [Threads -> ThreadType]
    BY <1>5, FreedShape DEF RemoveDelete
  <2> QED BY <1>5, <2>1, <2>2, MoveShape DEF RemoveDelete, Shape
<1> QED BY <1>1, <1>2, <1>3, <1>4, <1>5 DEF Devices

LEMMA NextShape ==
  ASSUME Shape, OnListed, [Next]_vars
  PROVE  Shape'
<1>1. CASE StickDone
  <2>1. [stick EXCEPT !.run = 0, !.done = stick.run] \in StickType
    BY ZeroNumber DEF Shape, StickType
  <2> QED BY <1>1, <2>1 DEF StickDone, Shape
<1>2. CASE UNCHANGED vars
  BY <1>2 DEF vars, Shape
<1> QED BY <1>1, <1>2, CallShape, LoadShape, GetShape, GraphsShape, DevicesShape
        DEF Next, Inside

-----------------------------------------------------------------------------
(* What a step does to the locks.                                            *)

\* The other threads stay where they are; t goes to another place, with the same
\* graph unless it leaves the graphs alone there.
Moves(t, pc) ==
  /\ \A u \in Threads \ {t} : thr'[u].pc = thr[u].pc /\ thr'[u].g = thr[u].g
  /\ thr'[t].pc = pc
  /\ pc \in OnGraph => thr'[t].g = thr[t].g
  /\ \A u \in Threads : thr'[u].gone => thr[u].gone /\ thr'[u].g = thr[u].g

\* No graph leaves the list; a deleted graph stays deleted unless addresses are
\* used again.
Keeps ==
  \A a \in Addrs :
    /\ graph[a].st = "listed" => graph'[a].st = "listed"
    /\ graph[a].st = "freed" /\ ~usage.reuse => graph'[a].st = "freed"

\* The ways in which a step treats the locks: it gets the list lock, leaves them
\* as they are, releases the list lock, changes it for the device's, releases the
\* device's, or fails to send a tensor.
Takes(t) ==
  /\ lock = None /\ lock' = t /\ device = "listed" /\ devLock' = devLock
  /\ thr[t].pc \in Elsewhere \ {"delete"} /\ thr'[t].pc \in ByList
Stays(t) ==
  /\ lock' = lock /\ devLock' = devLock
  /\ \E area \in {ByList, ByDev, Elsewhere \ {"delete"}} :
       thr[t].pc \in area /\ thr'[t].pc \in area
Leaves(t) ==
  /\ lock' = None /\ devLock' = devLock
  /\ thr[t].pc \in ByList /\ thr'[t].pc \in Elsewhere \ {"delete"}
Hands(t) ==
  /\ lock' = None /\ devLock = None /\ devLock' = t
  /\ thr[t].pc \in ByList /\ thr'[t].pc \in ByDev
Gives(t) ==
  /\ lock' = lock /\ devLock' = None
  /\ thr[t].pc \in ByDev /\ thr'[t].pc \in Elsewhere \ {"delete"}
Fails(t) ==
  /\ "send" \in usage.failing
  /\ lock' = None /\ devLock' = devLock
  /\ thr[t].pc \in ByDev /\ thr'[t].pc \in Elsewhere \ {"delete"}

LockStep(t) == Takes(t) \/ Stays(t) \/ Leaves(t) \/ Hands(t) \/ Gives(t) \/ Fails(t)

\* When the step leads to a use of the graph, the graph is listed.
Finds(t) ==
  thr'[t].pc \in OnGraph => thr[t].g \in Addrs /\ graph[thr[t].g].st = "listed"

\* What the steps have in common that do not delete anything and do not change the
\* list of the devices.
Regular(t) ==
  /\ Moves(t, thr'[t].pc) /\ Keeps /\ LockStep(t) /\ Finds(t)
  /\ device' = device /\ usage' = usage

\* A lock that was kept stays kept.
LEMMA KeptStays ==
  ASSUME Shape, HasDev, NEW t \in Threads, Moves(t, thr'[t].pc), LockStep(t), Kept
  PROVE  Kept'
<1>1. devLock \in Threads /\ devLock # None /\ thr[devLock].pc \notin ByDev
  BY MvNcAssumption DEF Kept, Shape
<1>2. devLock' = devLock
  BY <1>1 DEF LockStep, Takes, Stays, Leaves, Hands, Gives, Fails, HasDev
<1>3. thr'[devLock].pc \notin ByDev
  <2>1. CASE devLock = t
    BY <1>1, <2>1 DEF LockStep, Takes, Stays, Leaves, Hands, Gives, Fails, ByList, ByDev,
                      Elsewhere
  <2>2. CASE devLock # t
    BY <1>1, <2>2 DEF Moves
  <2> QED BY <2>1, <2>2
<1> QED BY <1>1, <1>2, <1>3 DEF Kept

\* Every such step preserves the invariant.
LEMMA RegularHeld ==
  ASSUME Shape, Held, NEW t \in Threads, Regular(t)
  PROVE  Held'
<1> USE DEF Regular
<1>1. HasDev'
  <2> SUFFICES ASSUME NEW u \in Threads, thr'[u].pc \in ByDev
               PROVE  devLock' = u
    BY DEF HasDev
  <2>1. CASE u = t
    BY <2>1 DEF LockStep, Takes, Stays, Leaves, Hands, Gives, Fails, ByList, ByDev,
                Elsewhere, Held, HasDev
  <2>2. CASE u # t
    <3>1. devLock = u
      BY <2>2 DEF Moves, Held, HasDev
    <3>2. devLock # None /\ ~(thr[t].pc \in ByDev)
      BY <2>2, <3>1, MvNcAssumption DEF Held, HasDev
    <3> QED BY <3>1, <3>2 DEF LockStep, Takes, Stays, Leaves, Hands, Gives, Fails
  <2> QED BY <2>1, <2>2
<1>2. HasList'
  <2> SUFFICES ASSUME NEW u \in Threads, thr'[u].pc \in ByList, ~Kept'
               PROVE  lock' = u /\ device' = "listed"
    BY DEF HasList
  <2>1. ~Kept
    BY KeptStays DEF Held
  <2>2. CASE u = t
    <3>1. Takes(t) \/ Stays(t)
      BY <2>2 DEF LockStep, Leaves, Hands, Gives, Fails, ByList, ByDev, Elsewhere
    <3>2. CASE Takes(t)
      BY <2>2, <3>2 DEF Takes
    <3>3. CASE Stays(t)
      <4>1. thr[t].pc \in ByList
        BY <2>2, <3>3 DEF Stays, ByList, ByDev, Elsewhere
      <4> QED BY <2>1, <2>2, <3>3, <4>1 DEF Stays, Held, HasList
    <3> QED BY <3>1, <3>2, <3>3
  <2>3. CASE u # t
    <3>1. lock = u /\ device = "listed"
      BY <2>1, <2>3 DEF Moves, Held, HasList
    <3>2. lock # None /\ thr[t].pc \notin ByList
      BY <2>1, <2>3, <3>1, MvNcAssumption DEF Held, HasList
    <3>3. ~Fails(t)
      <4>1. SUFFICES ASSUME Fails(t) PROVE FALSE
        OBVIOUS
      <4>2. devLock = t /\ devLock' = t
        BY <4>1 DEF Fails, Held, HasDev
      <4>3. thr'[t].pc \notin ByDev
        BY <4>1 DEF Fails, Elsewhere, ByDev
      <4> QED BY <4>2, <4>3, MvNcAssumption DEF Kept
    <3> QED BY <3>1, <3>2, <3>3 DEF LockStep, Takes, Stays, Leaves, Hands, Gives
  <2> QED BY <2>2, <2>3
<1>3. OneDeletes'
  <2>1. thr'[t].pc # "delete"
    BY DEF LockStep, Takes, Stays, Leaves, Hands, Gives, Fails, ByList, ByDev, Elsewhere
  <2>2. \A u \in Threads : thr'[u].pc = "delete" => thr[u].pc = "delete"
    BY <2>1 DEF Moves
  <2>3. device = "deleted" => devLock' = None
    <3>1. SUFFICES ASSUME device = "deleted", devLock = None, devLock' # None
                   PROVE  FALSE
      BY DEF Held, OneDeletes
    <3>2. Hands(t)
      BY <3>1 DEF LockStep, Takes, Stays, Leaves, Gives, Fails
    <3>3. ~Kept /\ thr[t].pc \in ByList
      BY <3>1, <3>2 DEF Kept, Hands
    <3> QED BY <3>1, <3>3 DEF Held, HasList
  <2> QED BY <2>2, <2>3 DEF Held, OneDeletes
<1>4. OnListed'
  <2> SUFFICES ASSUME NEW u \in Threads, thr'[u].pc \in OnGraph
               PROVE  thr'[u].g \in Addrs /\ graph'[thr'[u].g].st = "listed"
    BY DEF OnListed, G
  <2>1. thr'[u].g = thr[u].g
    BY DEF Moves
  <2>2. thr[u].g \in Addrs /\ graph[thr[u].g].st = "listed"
    <3>1. CASE u = t
      BY <3>1 DEF Finds
    <3>2. CASE u # t
      BY <3>2 DEF Moves, Held, OnListed, G
    <3> QED BY <3>1, <3>2
  <2> QED BY <2>1, <2>2 DEF Keeps
<1> QED BY <1>1, <1>2, <1>3, <1>4 DEF Held

\* A thread moves, or its call becomes another record.
LEMMA GotoMoves ==
  ASSUME Shape, NEW t \in Threads, NEW pc \in ByList \cup ByDev \cup Elsewhere,
         Goto(t, pc)
  PROVE  Moves(t, pc)
  BY DEF Goto, Moves, Shape, ThreadType

LEMMA ReturnMoves ==
  ASSUME Shape, NEW t \in Threads, Return(t)
  PROVE  Moves(t, "idle")
  BY DEF Return, Idle, Moves, Shape, OnGraph

LEMMA CallMoves ==
  ASSUME Shape, NEW t \in Threads, NEW c, thr' = [thr EXCEPT ![t] = c],
         c.pc \in OnGraph => c.g = thr[t].g,
         c.gone => thr[t].gone /\ c.g = thr[t].g
  PROVE  Moves(t, c.pc)
  BY DEF Moves, Shape

\* The states of the graphs after a step that leaves them, or that gives one graph
\* another record.
LEMMA SameKeeps ==
  ASSUME graph' = graph
  PROVE  Keeps
  BY DEF Keeps

LEMMA UpdateKeeps ==
  ASSUME Shape, NEW a \in Addrs, NEW g, graph' = [graph EXCEPT ![a] = g],
         graph[a].st = "listed" => g.st = "listed",
         graph[a].st = "freed" /\ ~usage.reuse => g.st = "freed"
  PROVE  Keeps
  BY DEF Keeps, Shape

\* The updates of a graph leave it where it is.
LEMMA GraphFieldsKeep ==
  ASSUME NEW g \in GraphType
  PROVE  /\ [g EXCEPT !.started = TRUE].st = g.st
         /\ \A p, i : [g EXCEPT !.param = p, !.inIdx = i].st = g.st
         /\ [g EXCEPT !.clean = FALSE].st = g.st
         /\ \A n : [g EXCEPT !.have = n].st = g.st
         /\ \A n : [g EXCEPT !.out = n].st = g.st
         /\ [g EXCEPT !.failed = TRUE, !.clean = FALSE].st = g.st
         /\ \A i, n, b : [g EXCEPT !.outIdx = i, !.have = n, !.failed = b].st = g.st
         /\ \A i, n : [g EXCEPT !.outIdx = i, !.have = n, !.failed = TRUE,
                                !.clean = FALSE].st = g.st
         /\ \A b : [g EXCEPT !.block = b].st = g.st
         /\ [g EXCEPT !.failed = FALSE, !.out = 0].st = g.st
  BY DEF GraphType

LEMMA EnterStep ==
  ASSUME Shape, NEW t \in Threads, NEW op, NEW pc \in ByList, Enter(t, op, pc)
  PROVE  Regular(t)
<1>1. Keeps /\ device' = device /\ usage' = usage
  BY SameKeeps DEF Enter
<1>2. CASE Exists(thr[t].g)
  <2>1. Moves(t, pc) /\ Takes(t)
    BY <1>2, GotoMoves DEF Enter, Exists, Takes, Elsewhere, Moves
  <2>2. thr[t].g \in Addrs /\ graph[thr[t].g].st = "listed"
    BY <1>2 DEF Exists, Shape, ThreadType
  <2> QED BY <1>1, <2>1, <2>2 DEF LockStep, Moves, Finds, Regular
<1>3. CASE ~Exists(thr[t].g)
  <2>1. Moves(t, "idle")
    BY <1>3, ReturnMoves DEF Enter
  <2>2. Stays(t)
    BY <1>3, <2>1 DEF Enter, Stays, Elsewhere, Moves
  <2> QED BY <1>1, <2>1, <2>2 DEF LockStep, Moves, OnGraph, Finds, Regular
<1> QED BY <1>2, <1>3

LEMMA AgainStep ==
  ASSUME Shape, NEW t \in Threads, NEW from \in Elsewhere \ {"delete"},
         NEW pc \in ByList, Again(t, from, pc)
  PROVE  Regular(t)
<1>1. Keeps /\ device' = device /\ usage' = usage
  BY SameKeeps DEF Again
<1>2. CASE Exists(thr[t].g)
  <2>1. Moves(t, pc) /\ Takes(t)
    BY <1>2, GotoMoves DEF Again, Exists, Takes, Moves
  <2>2. thr[t].g \in Addrs /\ graph[thr[t].g].st = "listed"
    BY <1>2 DEF Exists, Shape, ThreadType
  <2> QED BY <1>1, <2>1, <2>2 DEF LockStep, Moves, Finds, Regular
<1>3. CASE ~Exists(thr[t].g)
  <2>1. Moves(t, "idle")
    BY <1>3, ReturnMoves DEF Again
  <2>2. Stays(t)
    BY <1>3, <2>1 DEF Again, Stays, Elsewhere, Moves
  <2> QED BY <1>1, <2>1, <2>2 DEF LockStep, Moves, OnGraph, Finds, Regular
<1> QED BY <1>2, <1>3

\* The graph of a call that is on it.
LEMMA OnGraphFinds ==
  ASSUME Held, NEW t \in Threads, thr[t].pc \in OnGraph
  PROVE  Finds(t)
  BY DEF Held, OnListed, G, Finds

\* A call starts.
LEMMA CallStep ==
  ASSUME Shape, NEW t \in Threads, Call(t)
  PROVE  Regular(t)
<1>1. PICK c : c.pc = "enter" /\ ~c.gone /\ thr' = [thr EXCEPT ![t] = c]
  BY DEF Call, Idle
<1>2. Moves(t, "enter")
  BY <1>1, CallMoves DEF OnGraph
<1>3. Stays(t) /\ Keeps /\ device' = device /\ usage' = usage
  BY <1>2, SameKeeps DEF Call, Stays, Moves, Elsewhere
<1> QED BY <1>2, <1>3 DEF Regular, LockStep, Finds, Moves, OnGraph

\* load_tensor.
LEMMA LoadStep ==
  ASSUME Shape, Held, NEW t \in Threads, Load(t)
  PROVE  Regular(t)
<1>1. CASE LoadEnter(t)
  BY <1>1, EnterStep DEF LoadEnter, ByList
<1>2. CASE LoadOptions(t)
  <2>1. Finds(t)
    BY <1>2, OnGraphFinds DEF LoadOptions, OnGraph
  <2>2. thr[t].g \in Addrs /\ [G(t) EXCEPT !.started = TRUE].st = G(t).st
    BY <1>2, OnGraphTypes, GraphFieldsKeep DEF LoadOptions, OnGraph, Held
  <2>3. CASE graph' = [graph EXCEPT ![thr[t].g].started = TRUE] /\ Goto(t, "test")
             /\ UNCHANGED lock
    <3>1. Keeps
      BY <2>2, <2>3, UpdateKeeps DEF G
    <3>2. Moves(t, "test")
      BY <2>3, GotoMoves DEF ByList
    <3>3. Stays(t)
      BY <1>2, <2>3, <3>2 DEF LoadOptions, Stays, Moves, ByList
    <3> QED BY <1>2, <2>1, <3>1, <3>2, <3>3 DEF LoadOptions, Regular, LockStep, Moves
  <2>4. CASE lock' = None /\ Return(t) /\ UNCHANGED graph
    <3>1. Moves(t, "idle") /\ Keeps
      BY <2>4, ReturnMoves, SameKeeps
    <3>2. Leaves(t)
      BY <1>2, <2>4, <3>1 DEF LoadOptions, Leaves, Moves, ByList, Elsewhere
    <3> QED BY <1>2, <2>1, <3>1, <3>2 DEF LoadOptions, Regular, LockStep, Moves
  <2> QED BY <1>2, <2>3, <2>4 DEF LoadOptions
<1>3. CASE LoadTest(t)
  <2>1. Finds(t)
    BY <1>3, OnGraphFinds DEF LoadTest, OnGraph
  <2>2. Keeps
    BY <1>3, SameKeeps DEF LoadTest
  <2>3. CASE Goto(t, "loadDev") /\ UNCHANGED lock
    <3>1. Moves(t, "loadDev")
      BY <2>3, GotoMoves DEF ByList
    <3>2. Stays(t)
      BY <1>3, <2>3, <3>1 DEF LoadTest, Stays, Moves, ByList
    <3> QED BY <1>3, <2>1, <2>2, <3>1, <3>2 DEF LoadTest, Regular, LockStep, Moves
  <2>4. CASE lock' = None /\ (Return(t) \/ Goto(t, "loadSleep"))
    <3>1. Moves(t, "idle") \/ Moves(t, "loadSleep")
      BY <2>4, ReturnMoves, GotoMoves DEF Elsewhere
    <3>2. Leaves(t)
      BY <1>3, <2>4, <3>1 DEF LoadTest, Leaves, Moves, ByList, Elsewhere
    <3> QED BY <1>3, <2>1, <2>2, <3>1, <3>2 DEF LoadTest, Regular, LockStep, Moves
  <2> QED BY <1>3, <2>3, <2>4 DEF LoadTest
<1>4. CASE LoadAgain(t)
  BY <1>4, AgainStep DEF LoadAgain, ByList, Elsewhere
<1>5. CASE LoadDevice(t)
  <2>1. Finds(t)
    BY <1>5, OnGraphFinds DEF LoadDevice, OnGraph
  <2> DEFINE c == [thr[t] EXCEPT !.pc = "send", !.ready = (G(t).have = 0)]
  <2>2. c.pc = "send" /\ c.g = thr[t].g /\ c.gone = thr[t].gone
    BY DEF Shape, ThreadType
  <2>3. Moves(t, "send")
    <3>1. thr' = [thr EXCEPT ![t] = c]
      BY <1>5 DEF LoadDevice
    <3> HIDE DEF c
    <3> QED BY <2>2, <3>1, CallMoves
  <2>4. Hands(t) /\ Keeps
    BY <1>5, <2>3, SameKeeps DEF LoadDevice, HandOver, Hands, Moves, ByList, ByDev
  <2> QED BY <1>5, <2>1, <2>3, <2>4 DEF LoadDevice, Regular, LockStep, Moves
<1>6. CASE LoadSend(t)
  <2>1. Finds(t)
    BY <1>6, OnGraphFinds DEF LoadSend, OnGraph
  <2>2. thr[t].g \in Addrs /\ G(t) \in GraphType /\ thr[t] \in ThreadType
    BY <1>6, OnGraphTypes DEF LoadSend, OnGraph, Held
  <2>3. [G(t) EXCEPT !.param[G(t).inIdx] = thr[t].n, !.inIdx = 1 - @].st = G(t).st
    BY <2>2, GraphFieldsKeep
  <2>4. graph' = [graph EXCEPT ![thr[t].g] =
          [G(t) EXCEPT !.param[G(t).inIdx] = thr[t].n, !.inIdx = 1 - @]]
    BY <1>6 DEF LoadSend
  <2>5. Keeps
    BY <2>2, <2>3, <2>4, UpdateKeeps DEF G
  <2>6. [thr[t] EXCEPT !.pc = "count", !.seen = G(t).have].pc = "count"
        /\ [thr[t] EXCEPT !.pc = "count", !.seen = G(t).have].g = thr[t].g
        /\ [thr[t] EXCEPT !.pc = "count", !.seen = G(t).have].gone = thr[t].gone
    BY <2>2 DEF ThreadType
  <2>7. Moves(t, "count")
    BY <1>6, <2>6, CallMoves DEF LoadSend
  <2>8. Stays(t)
    BY <1>6, <2>7 DEF LoadSend, Stays, Moves, ByDev
  <2> QED BY <1>6, <2>1, <2>5, <2>7, <2>8 DEF LoadSend, Regular, LockStep, Moves
<1>7. CASE LoadSendFails(t)
  <2>1. Finds(t)
    BY <1>7, OnGraphFinds DEF LoadSendFails, OnGraph
  <2>2. thr[t].g \in Addrs /\ [G(t) EXCEPT !.clean = FALSE].st = G(t).st
    BY <1>7, OnGraphTypes, GraphFieldsKeep DEF LoadSendFails, OnGraph, Held
  <2>3. Keeps
    BY <1>7, <2>2, UpdateKeeps DEF LoadSendFails, G
  <2>4. Moves(t, "idle")
    BY <1>7, ReturnMoves DEF LoadSendFails
  <2>5. Fails(t)
    BY <1>7, <2>4 DEF LoadSendFails, Fails, Moves, ByDev, Elsewhere
  <2> QED BY <1>7, <2>1, <2>3, <2>4, <2>5 DEF LoadSendFails, Regular, LockStep, Moves
<1>8. CASE LoadCount(t)
  <2>1. Finds(t)
    BY <1>8, OnGraphFinds DEF LoadCount, OnGraph
  <2>2. thr[t].g \in Addrs /\ \A n : [G(t) EXCEPT !.have = n].st = G(t).st
    BY <1>8, OnGraphTypes, GraphFieldsKeep DEF LoadCount, OnGraph, Held
  <2>3. Keeps
    BY <1>8, <2>2, UpdateKeeps DEF LoadCount, G
  <2>4. Moves(t, "idle")
    BY <1>8, ReturnMoves DEF LoadCount
  <2>5. Gives(t)
    BY <1>8, <2>4 DEF LoadCount, Gives, Moves, ByDev, Elsewhere
  <2> QED BY <1>8, <2>1, <2>3, <2>4, <2>5 DEF LoadCount, Regular, LockStep, Moves
<1> QED BY <1>1, <1>2, <1>3, <1>4, <1>5, <1>6, <1>7, <1>8 DEF Load

\* get_result.
LEMMA GetStep ==
  ASSUME Shape, Held, NEW t \in Threads, Get(t)
  PROVE  Regular(t)
<1>1. CASE GetEnter(t)
  BY <1>1, EnterStep DEF GetEnter, ByList
<1>2. CASE GetTest(t)
  <2>1. Finds(t)
    BY <1>2, OnGraphFinds DEF GetTest, OnGraph
  <2>2. Keeps
    BY <1>2, SameKeeps DEF GetTest
  <2>3. CASE Goto(t, "getDev") /\ UNCHANGED lock
    <3>1. Moves(t, "getDev")
      BY <2>3, GotoMoves DEF ByList
    <3>2. Stays(t)
      BY <1>2, <2>3, <3>1 DEF GetTest, Stays, Moves, ByList
    <3> QED BY <1>2, <2>1, <2>2, <3>1, <3>2 DEF GetTest, Regular, LockStep, Moves
  <2>4. CASE lock' = None /\ (Goto(t, "getSleep") \/ Return(t))
    <3>1. Moves(t, "idle") \/ Moves(t, "getSleep")
      BY <2>4, ReturnMoves, GotoMoves DEF Elsewhere
    <3>2. Leaves(t)
      BY <1>2, <2>4, <3>1 DEF GetTest, Leaves, Moves, ByList, Elsewhere
    <3> QED BY <1>2, <2>1, <2>2, <3>1, <3>2 DEF GetTest, Regular, LockStep, Moves
  <2> QED BY <1>2, <2>3, <2>4 DEF GetTest
<1>3. CASE GetAgain(t)
  BY <1>3, AgainStep DEF GetAgain, ByList, Elsewhere
<1>4. CASE GetDevice(t)
  <2>1. Finds(t)
    BY <1>4, OnGraphFinds DEF GetDevice, OnGraph
  <2>2. Moves(t, "output")
    BY <1>4, GotoMoves DEF GetDevice, ByDev
  <2>3. Hands(t) /\ Keeps
    BY <1>4, <2>2, SameKeeps DEF GetDevice, HandOver, Hands, Moves, ByList, ByDev
  <2> QED BY <1>4, <2>1, <2>2, <2>3 DEF GetDevice, Regular, LockStep, Moves
<1>5. CASE GetOutput(t)
  <2>1. Finds(t)
    BY <1>5, OnGraphFinds DEF GetOutput, OnGraph
  <2>2. thr[t].g \in Addrs /\ thr[t] \in ThreadType
        /\ \A n : [G(t) EXCEPT !.out = n].st = G(t).st
    BY <1>5, OnGraphTypes, GraphFieldsKeep DEF GetOutput, OnGraph, Held
  <2>3. Keeps
    BY <1>5, <2>2, UpdateKeeps DEF GetOutput, G
  <2> DEFINE c == [thr[t] EXCEPT !.pc = "aux", !.ready = (G(t).have = 2)]
  <2>4. c.pc = "aux" /\ c.g = thr[t].g /\ c.gone = thr[t].gone
    BY <2>2 DEF ThreadType
  <2>5. Moves(t, "aux")
    <3>1. thr' = [thr EXCEPT ![t] = c]
      BY <1>5 DEF GetOutput
    <3> HIDE DEF c
    <3> QED BY <2>4, <3>1, CallMoves
  <2>6. Stays(t)
    BY <1>5, <2>5 DEF GetOutput, Stays, Moves, ByDev
  <2> QED BY <1>5, <2>1, <2>3, <2>5, <2>6 DEF GetOutput, Regular, LockStep, Moves
<1>6. CASE GetBusy(t)
  <2>1. Finds(t)
    BY <1>6, OnGraphFinds DEF GetBusy, OnGraph
  <2>2. Moves(t, "getRetry")
    BY <1>6, GotoMoves DEF GetBusy, Elsewhere
  <2>3. Gives(t) /\ Keeps
    BY <1>6, <2>2, SameKeeps DEF GetBusy, Gives, Moves, ByDev, Elsewhere
  <2> QED BY <1>6, <2>1, <2>2, <2>3 DEF GetBusy, Regular, LockStep, Moves
<1>7. CASE GetFails(t)
  <2>1. Finds(t)
    BY <1>7, OnGraphFinds DEF GetFails, OnGraph
  <2>2. thr[t].g \in Addrs
        /\ [G(t) EXCEPT !.failed = TRUE, !.clean = FALSE].st = G(t).st
    BY <1>7, OnGraphTypes, GraphFieldsKeep DEF GetFails, OnGraph, Held
  <2>3. Keeps
    BY <1>7, <2>2, UpdateKeeps DEF GetFails, G
  <2>4. Moves(t, "idle")
    BY <1>7, ReturnMoves DEF GetFails
  <2>5. Gives(t)
    BY <1>7, <2>4 DEF GetFails, Gives, Moves, ByDev, Elsewhere
  <2> QED BY <1>7, <2>1, <2>3, <2>4, <2>5 DEF GetFails, Regular, LockStep, Moves
<1>8. CASE GetAux(t)
  <2>1. Finds(t)
    BY <1>8, OnGraphFinds DEF GetAux, OnGraph
  <2>2. thr[t].g \in Addrs /\ G(t) \in GraphType /\ thr[t] \in ThreadType
    BY <1>8, OnGraphTypes DEF GetAux, OnGraph, Held
  <2>3. PICK err \in BOOLEAN :
          /\ graph' = [graph EXCEPT ![thr[t].g] =
               [G(t) EXCEPT !.outIdx = NextOut(@), !.have = @ - 1,
                            !.failed = @ \/ err]]
          /\ \/ Return(t)
             \/ thr' = [thr EXCEPT ![t] = [thr[t] EXCEPT !.pc = "enter", !.op = "DEBUG"]]
    BY <1>8 DEF GetAux, G
  <2>4. [G(t) EXCEPT !.outIdx = NextOut(@), !.have = @ - 1, !.failed = @ \/ err].st
          = G(t).st
    BY <2>2, GraphFieldsKeep
  <2>5. Keeps
    BY <2>2, <2>3, <2>4, UpdateKeeps DEF G
  <2> DEFINE c == [thr[t] EXCEPT !.pc = "enter", !.op = "DEBUG"]
  <2>6. c.pc = "enter" /\ c.g = thr[t].g /\ c.gone = thr[t].gone
    BY <2>2 DEF ThreadType
  <2>7. Moves(t, "idle") \/ Moves(t, "enter")
    <3> HIDE DEF c
    <3>1. Return(t) \/ thr' = [thr EXCEPT ![t] = c]
      BY <2>3 DEF c
    <3> QED BY <2>6, <3>1, CallMoves, ReturnMoves
  <2>8. Gives(t)
    BY <1>8, <2>7 DEF GetAux, Gives, Moves, ByDev, Elsewhere
  <2> QED BY <1>8, <2>1, <2>5, <2>7, <2>8 DEF GetAux, Regular, LockStep, Moves
<1>9. CASE GetRetry(t)
  BY <1>9, AgainStep DEF GetRetry, ByList, Elsewhere
<1>10. CASE GetLate(t)
  <2>1. Finds(t)
    BY <1>10 DEF GetLate, Exists, Shape, ThreadType, Finds
  <2> DEFINE c == [thr[t] EXCEPT !.pc = "drop", !.seen = G(t).have]
  <2>2. c.pc = "drop" /\ c.g = thr[t].g /\ c.gone = thr[t].gone
    BY DEF Shape, ThreadType
  <2>3. Moves(t, "drop")
    <3>1. thr' = [thr EXCEPT ![t] = c]
      BY <1>10 DEF GetLate
    <3> HIDE DEF c
    <3> QED BY <2>2, <3>1, CallMoves
  <2>4. Takes(t) /\ Keeps
    BY <1>10, <2>3, SameKeeps DEF GetLate, Exists, Takes, Moves, ByList, Elsewhere
  <2> QED BY <1>10, <2>1, <2>3, <2>4 DEF GetLate, Regular, LockStep, Moves
<1>11. CASE GetDrop(t)
  <2>1. Finds(t)
    BY <1>11, OnGraphFinds DEF GetDrop, OnGraph
  <2>2. thr[t].g \in Addrs /\ G(t) \in GraphType
    BY <1>11, OnGraphTypes DEF GetDrop, OnGraph, Held
  <2>3. [G(t) EXCEPT !.outIdx = NextOut(@), !.have = thr[t].seen - 1,
                     !.failed = TRUE, !.clean = FALSE].st = G(t).st
    BY <2>2, GraphFieldsKeep
  <2>4. Keeps
    BY <1>11, <2>2, <2>3, UpdateKeeps DEF GetDrop, G
  <2>5. Moves(t, "idle")
    BY <1>11, ReturnMoves DEF GetDrop
  <2>6. Leaves(t)
    BY <1>11, <2>5 DEF GetDrop, Leaves, Moves, ByList, Elsewhere
  <2> QED BY <1>11, <2>1, <2>4, <2>5, <2>6 DEF GetDrop, Regular, LockStep, Moves
<1> QED BY <1>1, <1>2, <1>3, <1>4, <1>5, <1>6, <1>7, <1>8, <1>9, <1>10, <1>11
        DEF Get

LEMMA FreedMoves ==
  ASSUME Shape, NEW t \in Threads, NEW as, ReturnFreed(t, as)
  PROVE  /\ thr'[t] = Idle
         /\ \A u \in Threads \ {t} : thr'[u].pc = thr[u].pc
  BY DEF ReturnFreed, Shape, ThreadType

\* When the device's lock is free, no lock was kept and no thread is where it holds
\* it; whoever is on a graph holds the list lock of a listed device.
LEMMA DeviceFree ==
  ASSUME Held, devLock = None
  PROVE  /\ \A u \in Threads : thr[u].pc \notin ByDev
         /\ \A u \in Threads : thr[u].pc \in ByList => lock = u /\ device = "listed"
         /\ \A u \in Threads : thr[u].pc \in OnGraph => thr[u].pc \in ByList
<1>1. \A u \in Threads : thr[u].pc \notin ByDev
  BY MvNcAssumption DEF Held, HasDev
<1>2. \A u \in Threads : thr[u].pc \in ByList => lock = u /\ device = "listed"
  BY DEF Held, HasList, Kept
<1>3. \A u \in Threads : thr[u].pc \in OnGraph => thr[u].pc \in ByList
  BY <1>1 DEF OnGraph, ByList, ByDev
<1> QED BY <1>1, <1>2, <1>3

\* deallocate_graph: no other call is on a graph.
LEMMA DeallocHeld ==
  ASSUME Shape, Held, NEW t \in Threads, Dealloc(t)
  PROVE  Held'
<1>1. devLock = None /\ devLock' = None /\ device' = device /\ thr[t].pc \in ByList
  BY DEF Dealloc, ByList
<1>2. thr'[t] = Idle /\ \A u \in Threads \ {t} : thr'[u].pc = thr[u].pc
  BY FreedMoves DEF Dealloc
<1>3. \A u \in Threads \ {t} : thr[u].pc \notin ByList /\ thr[u].pc \notin ByDev
                               /\ thr[u].pc \notin OnGraph
  BY <1>1, DeviceFree
<1>4. \A u \in Threads : /\ thr'[u].pc \notin ByList /\ thr'[u].pc \notin ByDev
                         /\ thr'[u].pc \notin OnGraph
                         /\ thr'[u].pc = "delete" => thr[u].pc = "delete"
  BY <1>2, <1>3 DEF Idle, ByList, ByDev, OnGraph
<1>5. HasDev' /\ HasList' /\ OnListed'
  BY <1>4 DEF HasDev, HasList, OnListed
<1>6. OneDeletes'
  BY <1>1, <1>4 DEF Held, OneDeletes
<1> QED BY <1>5, <1>6 DEF Held

\* allocate_graph and the options; deallocate_graph above.
LEMMA GraphsStep ==
  ASSUME Shape, Held, NEW t \in Threads, Graphs(t), ~Dealloc(t)
  PROVE  Regular(t)
<1>1. CASE AllocEnter(t)
  <2>1. Keeps /\ device' = device /\ usage' = usage
    BY <1>1, SameKeeps DEF AllocEnter
  <2>2. CASE lock' = t /\ Goto(t, "alloc") /\ device = "listed"
    <3>1. Moves(t, "alloc")
      BY <2>2, GotoMoves DEF ByList
    <3>2. Takes(t)
      BY <1>1, <2>2, <3>1 DEF AllocEnter, Takes, Moves, ByList, Elsewhere
    <3> QED BY <2>1, <3>1, <3>2 DEF Regular, LockStep, Moves, Finds, OnGraph
  <2>3. CASE Return(t) /\ UNCHANGED lock
    <3>1. Moves(t, "idle")
      BY <2>3, ReturnMoves
    <3>2. Stays(t)
      BY <1>1, <2>3, <3>1 DEF AllocEnter, Stays, Moves, Elsewhere
    <3> QED BY <2>1, <3>1, <3>2 DEF Regular, LockStep, Moves, Finds, OnGraph
  <2> QED BY <1>1, <2>2, <2>3 DEF AllocEnter
<1>2. CASE Alloc(t)
  <2>1. Keeps
    <3>1. CASE graph' = graph
      BY <3>1, SameKeeps
    <3>2. CASE \E a \in Addresses : graph' = [graph EXCEPT ![a] = NewGraph]
      BY <3>2, UpdateKeeps DEF Addresses, NewGraph
    <3> QED BY <1>2, <3>1, <3>2 DEF Alloc
  <2>2. Moves(t, "idle")
    BY <1>2, ReturnMoves DEF Alloc
  <2>3. Leaves(t)
    BY <1>2, <2>2 DEF Alloc, Leaves, Moves, ByList, Elsewhere
  <2> QED BY <1>2, <2>1, <2>2, <2>3 DEF Alloc, Regular, LockStep, Moves, Finds, OnGraph
<1>3. CASE DeallocEnter(t)
  BY <1>3, EnterStep DEF DeallocEnter, ByList
<1>4. CASE OptionEnter(t)
  BY <1>4, EnterStep DEF OptionEnter, ByList
<1>5. CASE Option(t)
  <2>1. Finds(t)
    BY <1>5, OnGraphFinds DEF Option, OnGraph
  <2>2. thr[t].g \in Addrs /\ \A b : [G(t) EXCEPT !.block = b].st = G(t).st
    BY <1>5, OnGraphTypes, GraphFieldsKeep DEF Option, OnGraph, Held
  <2>3. PICK b \in BOOLEAN : graph' = [graph EXCEPT ![thr[t].g] = [G(t) EXCEPT !.block = b]]
    BY <1>5 DEF Option, G
  <2>4. Keeps
    BY <2>2, <2>3, UpdateKeeps DEF G
  <2>5. Moves(t, "idle")
    BY <1>5, ReturnMoves DEF Option
  <2>6. Leaves(t)
    BY <1>5, <2>5 DEF Option, Leaves, Moves, ByList, Elsewhere
  <2> QED BY <1>5, <2>1, <2>4, <2>5, <2>6 DEF Option, Regular, LockStep, Moves
<1> QED BY <1>1, <1>2, <1>3, <1>4, <1>5 DEF Graphs

\* soft_reset of the graphs.
LEMMA ResetStep ==
  ASSUME Shape, Held, NEW t \in Threads, ResetEnter(t) \/ Reset(t)
  PROVE  Regular(t)
<1>1. CASE ResetEnter(t)
  <2>1. Keeps /\ device' = device /\ usage' = usage
    BY <1>1, SameKeeps DEF ResetEnter
  <2>2. CASE lock' = t /\ Goto(t, "reset") /\ device = "listed"
    <3>1. Moves(t, "reset")
      BY <2>2, GotoMoves DEF ByList
    <3>2. Takes(t)
      BY <1>1, <2>2, <3>1 DEF ResetEnter, Takes, Moves, ByList, Elsewhere
    <3> QED BY <2>1, <3>1, <3>2 DEF Regular, LockStep, Moves, Finds, OnGraph
  <2>3. CASE Return(t) /\ UNCHANGED lock
    <3>1. Moves(t, "idle")
      BY <2>3, ReturnMoves
    <3>2. Stays(t)
      BY <1>1, <2>3, <3>1 DEF ResetEnter, Stays, Moves, Elsewhere
    <3> QED BY <2>1, <3>1, <3>2 DEF Regular, LockStep, Moves, Finds, OnGraph
  <2> QED BY <1>1, <2>2, <2>3 DEF ResetEnter
<1>2. CASE Reset(t)
  <2>1. \A a \in Addrs : [graph[a] EXCEPT !.failed = FALSE, !.out = 0].st = graph[a].st
    BY GraphFieldsKeep DEF Shape
  <2>2. Keeps
    BY <1>2, <2>1 DEF Reset, Keeps
  <2>3. Moves(t, "idle")
    BY <1>2, ReturnMoves DEF Reset
  <2>4. Leaves(t)
    BY <1>2, <2>3 DEF Reset, Leaves, Moves, ByList, Elsewhere
  <2> QED BY <1>2, <2>2, <2>3, <2>4 DEF Reset, Regular, LockStep, Moves, Finds, OnGraph
<1> QED BY <1>1, <1>2

\* add: the lock of a device that was deleted is free, as the new one's is.
LEMMA AddHeld ==
  ASSUME Shape, Held, NEW t \in Threads, Add(t)
  PROVE  Held'
<1>1. Moves(t, "idle")
  BY ReturnMoves DEF Add
<1>2. Stays(t) /\ Keeps
  BY <1>1, SameKeeps DEF Add, Stays, Moves, Elsewhere, Held, OneDeletes
<1>3. CASE device' = device
  <2>1. Regular(t)
    BY <1>1, <1>2, <1>3 DEF Add, Regular, LockStep, Moves, Finds, OnGraph
  <2> QED BY <2>1, RegularHeld
<1>4. CASE device = "deleted" /\ device' = "listed" /\ devLock' = None
  <2>1. \A u \in Threads : /\ thr[u].pc \notin ByList /\ thr[u].pc \notin ByDev
                           /\ thr[u].pc \notin OnGraph /\ thr[u].pc # "delete"
    BY <1>4, DeviceFree DEF Held, OneDeletes
  <2>2. \A u \in Threads : /\ thr'[u].pc \notin ByList /\ thr'[u].pc \notin ByDev
                           /\ thr'[u].pc \notin OnGraph /\ thr'[u].pc # "delete"
    BY <1>1, <2>1 DEF Moves, ByList, ByDev, OnGraph
  <2> QED BY <1>4, <2>2 DEF Held, HasDev, HasList, OneDeletes, OnListed
<1> QED BY <1>3, <1>4 DEF Add

\* remove: the device leaves the list, which no other thread looks at meanwhile.
LEMMA EraseHeld ==
  ASSUME Shape, Held, NEW t \in Threads, RemoveErase(t)
  PROVE  Held'
<1>1. Keeps /\ devLock' = devLock /\ lock' = lock /\ lock = None /\ thr[t].pc = "enter"
  BY SameKeeps DEF RemoveErase
<1>2. CASE Return(t) /\ UNCHANGED device
  <2>1. Moves(t, "idle")
    BY <1>2, ReturnMoves
  <2>2. Stays(t)
    BY <1>1, <2>1 DEF Stays, Moves, Elsewhere
  <2>3. Regular(t)
    BY <1>1, <1>2, <2>1, <2>2 DEF RemoveErase, Regular, LockStep, Moves, Finds, OnGraph
  <2> QED BY <2>3, RegularHeld
<1>3. CASE device = "listed" /\ device' = "erased" /\ Goto(t, "delete")
  <2>1. Moves(t, "delete")
    BY <1>3, GotoMoves DEF Elsewhere
  <2>2. HasDev'
    BY <1>1, <2>1 DEF Moves, ByDev, Held, HasDev
  <2>3. HasList'
    <3> SUFFICES ASSUME NEW u \in Threads, thr'[u].pc \in ByList
                 PROVE  Kept'
      BY DEF HasList
    <3>1. Kept
      BY <1>1, <2>1, MvNcAssumption DEF Moves, ByList, Held, HasList
    <3>2. devLock \in Threads
      BY <3>1 DEF Kept, Shape
    <3> QED BY <1>1, <2>1, <3>1, <3>2 DEF Kept, Moves, ByDev
  <2>4. OneDeletes'
    BY <1>3, <2>1 DEF Moves, Held, OneDeletes
  <2>5. OnListed'
    BY <1>1, <2>1 DEF Moves, OnGraph, Held, OnListed, G, Keeps
  <2> QED BY <2>2, <2>3, <2>4, <2>5 DEF Held
<1> QED BY <1>2, <1>3 DEF RemoveErase

\* The destructor of the device: no call is on a graph.
LEMMA DeleteHeld ==
  ASSUME Shape, Held, NEW t \in Threads, RemoveDelete(t)
  PROVE  Held'
<1>1. devLock = None /\ devLock' = None /\ device' = "deleted" /\ device = "erased"
  BY DEF RemoveDelete, Held, OneDeletes
<1>2. thr'[t] = Idle /\ \A u \in Threads \ {t} : thr'[u].pc = thr[u].pc
  BY FreedMoves DEF RemoveDelete
<1>3. \A u \in Threads : /\ thr[u].pc \notin ByList /\ thr[u].pc \notin ByDev
                         /\ thr[u].pc \notin OnGraph
                         /\ thr[u].pc = "delete" => u = t
  BY <1>1, DeviceFree DEF RemoveDelete, Held, OneDeletes
<1>4. \A u \in Threads : /\ thr'[u].pc \notin ByList /\ thr'[u].pc \notin ByDev
                         /\ thr'[u].pc \notin OnGraph /\ thr'[u].pc # "delete"
  BY <1>2, <1>3 DEF Idle, ByList, ByDev, OnGraph
<1> QED BY <1>1, <1>4 DEF Held, HasDev, HasList, OneDeletes, OnListed

-----------------------------------------------------------------------------
(* Calls on graphs that are gone.                                            *)

\* When addresses are not used again, the graph that was deleted under a call is
\* still a deleted one.
Stale ==
  ~usage.reuse =>
    \A t \in Threads : thr[t].gone => thr[t].g \in Addrs /\ graph[thr[t].g].st = "freed"

LEMMA KeepsStale ==
  ASSUME Stale, NEW t \in Threads, NEW pc, Moves(t, pc), Keeps, usage' = usage
  PROVE  Stale'
  BY DEF Stale, Moves, Keeps

\* The deletion of a set of graphs marks the calls on them.
LEMMA FreedStale ==
  ASSUME Shape, Stale, NEW t \in Threads, NEW as \in SUBSET Addrs, ReturnFreed(t, as),
         usage' = usage,
         \A a \in Addrs : graph'[a].st = IF a \in as THEN "freed" ELSE graph[a].st
  PROVE  Stale'
<1> SUFFICES ASSUME ~usage.reuse, NEW u \in Threads, thr'[u].gone
             PROVE  thr'[u].g \in Addrs /\ graph'[thr'[u].g].st = "freed"
  BY DEF Stale
<1>1. u # t
  BY DEF ReturnFreed, Idle
<1> DEFINE b == thr[u].gone \/ (thr[u].g \in as /\ thr[u].pc # "enter")
<1>2. thr'[u] = [thr[u] EXCEPT !.gone = b]
  BY <1>1 DEF ReturnFreed
<1>3. thr[u].gone \in BOOLEAN
  BY DEF Shape, ThreadType
<1>4. b \in BOOLEAN
  BY <1>3
<1> HIDE DEF b
<1>5. thr'[u].g = thr[u].g /\ thr'[u].gone = b
  BY <1>2, <1>4 DEF Shape, ThreadType
<1>6. thr[u].gone \/ thr[u].g \in as
  BY <1>5 DEF b
<1> QED BY <1>5, <1>6 DEF Stale

LEMMA NextStale ==
  ASSUME Shape, Held, Stale, [Next]_vars
  PROVE  Stale'
<1>1. ASSUME NEW t \in Threads, Regular(t)
      PROVE  Stale'
  BY <1>1, KeepsStale DEF Regular
<1>2. ASSUME NEW t \in Threads, Dealloc(t)
      PROVE  Stale'
  <2>1. thr[t].g \in Addrs
    BY <1>2, OnGraphTypes DEF Dealloc, OnGraph, Held
  <2>2. \A a \in Addrs :
          graph'[a].st = IF a \in {thr[t].g} THEN "freed" ELSE graph[a].st
    BY <1>2, <2>1 DEF Dealloc, Freed, NewGraph, Shape
  <2> QED BY <1>2, <2>1, <2>2, FreedStale DEF Dealloc
<1>3. ASSUME NEW t \in Threads, Add(t)
      PROVE  Stale'
  BY <1>3, ReturnMoves, SameKeeps, KeepsStale DEF Add
<1>4. ASSUME NEW t \in Threads, RemoveErase(t)
      PROVE  Stale'
  BY <1>4, ReturnMoves, GotoMoves, SameKeeps, KeepsStale DEF RemoveErase, Elsewhere
<1>5. ASSUME NEW t \in Threads, RemoveDelete(t)
      PROVE  Stale'
  <2> DEFINE as == {a \in Addrs : graph[a].st = "listed"}
  <2>1. ReturnFreed(t, as) /\ usage' = usage
    BY <1>5 DEF RemoveDelete
  <2>2. \A a \in Addrs : graph'[a].st = IF a \in as THEN "freed" ELSE graph[a].st
    BY <1>5 DEF RemoveDelete, Freed, NewGraph
  <2> HIDE DEF as
  <2>3. as \in SUBSET Addrs
    BY DEF as
  <2> QED BY <2>1, <2>2, <2>3, FreedStale
<1>6. CASE StickDone \/ UNCHANGED vars
  BY <1>6 DEF StickDone, vars, Stale
<1>7. ASSUME NEW t \in Threads, Call(t) \/ Load(t) \/ Get(t)
      PROVE  Stale'
  BY <1>1, <1>7, CallStep, LoadStep, GetStep
<1>8. ASSUME NEW t \in Threads, Graphs(t)
      PROVE  Stale'
  BY <1>1, <1>2, <1>8, GraphsStep
<1>9. ASSUME NEW t \in Threads, Devices(t)
      PROVE  Stale'
  BY <1>1, <1>3, <1>4, <1>5, <1>9, ResetStep DEF Devices
<1> QED BY <1>6, <1>7, <1>8, <1>9 DEF Next, Inside

-----------------------------------------------------------------------------
(* Locks that were not given back.                                           *)

\* As long as no transfer of a tensor fails, a lock is held only where the code is
\* between its locking and its unlocking.
Owners ==
  "send" \notin usage.failing =>
    \A t \in Threads : /\ lock = t => thr[t].pc \in ByList
                       /\ devLock = t => thr[t].pc \in ByDev

LEMMA RegularOwners ==
  ASSUME Held, Owners, NEW t \in Threads, Regular(t)
  PROVE  Owners'
<1> SUFFICES ASSUME "send" \notin usage.failing, NEW u \in Threads
             PROVE  /\ lock' = u => thr'[u].pc \in ByList
                    /\ devLock' = u => thr'[u].pc \in ByDev
  BY DEF Owners, Regular
<1>1. CASE u = t
  BY <1>1, MvNcAssumption DEF Regular, LockStep, Takes, Stays, Leaves, Hands, Gives, Fails,
                              ByList, ByDev, Elsewhere, Owners
<1>2. CASE u # t
  <2>1. thr'[u].pc = thr[u].pc
    BY <1>2 DEF Regular, Moves
  <2> QED BY <1>2, <2>1, MvNcAssumption
          DEF Regular, LockStep, Takes, Stays, Leaves, Hands, Gives, Fails, Owners
<1> QED BY <1>1, <1>2

LEMMA NextOwners ==
  ASSUME Shape, Held, Owners, [Next]_vars
  PROVE  Owners'
<1>1. ASSUME NEW t \in Threads, Regular(t)
      PROVE  Owners'
  BY <1>1, RegularOwners
<1>2. ASSUME NEW t \in Threads, Dealloc(t)
      PROVE  Owners'
  <2>1. thr'[t] = Idle /\ \A u \in Threads \ {t} : thr'[u].pc = thr[u].pc
    BY <1>2, FreedMoves DEF Dealloc
  <2> QED BY <1>2, <2>1, MvNcAssumption DEF Dealloc, Owners
<1>3. ASSUME NEW t \in Threads, Add(t)
      PROVE  Owners'
  <2>1. Moves(t, "idle") /\ thr[t].pc = "enter" /\ lock = None /\ lock' = None
    BY <1>3, ReturnMoves DEF Add
  <2>2. devLock' = devLock
    BY <1>3 DEF Add, Held, OneDeletes
  <2> QED BY <1>3, <2>1, <2>2, MvNcAssumption DEF Add, Moves, Owners, ByDev
<1>4. ASSUME NEW t \in Threads, RemoveErase(t)
      PROVE  Owners'
  <2>1. Moves(t, "idle") \/ Moves(t, "delete")
    BY <1>4, ReturnMoves, GotoMoves DEF RemoveErase, Elsewhere
  <2>2. UNCHANGED <<usage, lock, devLock>> /\ lock = None /\ thr[t].pc = "enter"
    BY <1>4 DEF RemoveErase
  <2> QED BY <2>1, <2>2, MvNcAssumption DEF Moves, Owners, ByDev
<1>5. ASSUME NEW t \in Threads, RemoveDelete(t)
      PROVE  Owners'
  <2>1. thr'[t] = Idle /\ \A u \in Threads \ {t} : thr'[u].pc = thr[u].pc
    BY <1>5, FreedMoves DEF RemoveDelete
  <2>2. UNCHANGED <<usage, lock, devLock>> /\ thr[t].pc = "delete"
    BY <1>5 DEF RemoveDelete
  <2> QED BY <2>1, <2>2 DEF Owners, ByList, ByDev
<1>6. CASE StickDone \/ UNCHANGED vars
  BY <1>6 DEF StickDone, vars, Owners
<1>7. ASSUME NEW t \in Threads, Call(t) \/ Load(t) \/ Get(t)
      PROVE  Owners'
  BY <1>1, <1>7, CallStep, LoadStep, GetStep
<1>8. ASSUME NEW t \in Threads, Graphs(t)
      PROVE  Owners'
  BY <1>1, <1>2, <1>8, GraphsStep
<1>9. ASSUME NEW t \in Threads, Devices(t)
      PROVE  Owners'
  BY <1>1, <1>3, <1>4, <1>5, <1>9, ResetStep DEF Devices
<1> QED BY <1>6, <1>7, <1>8, <1>9 DEF Next, Inside

-----------------------------------------------------------------------------

LEMMA InitHeld == Init => Held
  BY DEF Init, Held, HasDev, HasList, OneDeletes, OnListed, Idle, ByDev, ByList, OnGraph

LEMMA NextHeld ==
  ASSUME Shape, Held, [Next]_vars
  PROVE  Held'
<1>1. ASSUME NEW t \in Threads, Call(t) \/ Load(t) \/ Get(t)
      PROVE  Held'
  BY <1>1, CallStep, LoadStep, GetStep, RegularHeld
<1>2. ASSUME NEW t \in Threads, Graphs(t)
      PROVE  Held'
  BY <1>2, DeallocHeld, GraphsStep, RegularHeld
<1>3. ASSUME NEW t \in Threads, Devices(t)
      PROVE  Held'
  BY <1>3, ResetStep, RegularHeld, AddHeld, EraseHeld, DeleteHeld DEF Devices
<1>4. CASE StickDone \/ UNCHANGED vars
  BY <1>4 DEF StickDone, vars, Held, HasDev, HasList, Kept, OneDeletes, OnListed, G
<1> QED BY <1>1, <1>2, <1>3, <1>4 DEF Next, Inside

\* The places of the threads and the locks agree: whoever is where the code holds
\* the lock of the device holds it; whoever is where it holds the list lock does,
\* unless a failed load_tensor has kept the lock of the device; one thread deletes
\* an erased device; and a call is on a listed graph.
THEOREM LocksHeld == Spec => [](Shape /\ Held)
<1>1. Init => Shape /\ Held
  BY InitShape, InitHeld
<1>2. Shape /\ Held /\ [Next]_vars => (Shape /\ Held)'
  BY NextShape, NextHeld DEF Held
<1> QED BY <1>1, <1>2, PTL DEF Spec

\* No call of NCAPI v1 uses a graph that deallocate_graph or the removal of the
\* device has deleted.
THEOREM NoUseAfterDelete == Spec => []HoldsListed
<1>1. Shape /\ Held => HoldsListed
  BY DEF Held, OnListed, HoldsListed
<1> QED BY <1>1, LocksHeld, PTL

\* A call of NCAPI v1 that slept while its graph was deleted uses no graph any
\* more, as long as the heap does not give the address to another.
THEOREM GoneIsReported == Spec => []GoneReported
<1>1. Init => Stale
  BY DEF Init, Stale, Idle
<1>2. Shape /\ Held /\ Stale /\ [Next]_vars => Stale'
  BY NextStale
<1>3. Held /\ Stale => GoneReported
  BY DEF Held, OnListed, Stale, G, GoneReported
<1> QED BY <1>1, <1>2, <1>3, LocksHeld, PTL DEF Spec

\* A call of NCAPI v1 that has returned holds neither lock, whatever it returned
\* and whatever the other calls do, as long as no transfer of a tensor fails.
THEOREM LocksAreReturned == Spec => []LocksReturned
<1>1. Init => Owners
  BY MvNcAssumption DEF Init, Owners
<1>2. Shape /\ Held /\ Owners /\ [Next]_vars => Owners'
  BY NextOwners
<1>3. Owners => LocksReturned
  BY DEF Owners, LocksReturned, ByList, ByDev
<1> QED BY <1>1, <1>2, <1>3, LocksHeld, PTL DEF Spec

-----------------------------------------------------------------------------
(* The pipeline: its inductive invariants.                                   *)

\* One graph is listed; none while one is allocated and none without a device; and
\* the lock that a failed load_tensor has kept protects its graph for ever.
OneGraph == \A a, b \in Addrs : graph[a].st = "listed" /\ graph[b].st = "listed" => a = b
Listing ==
  /\ OneGraph
  /\ \A t \in Threads : thr[t].pc = "alloc" => NoGraph
  /\ device = "deleted" => NoGraph
  /\ Kept => ~NoGraph

\* A thread is inside the operation it called, which is one of its own.
OfLoad == {"opt", "test", "loadSleep", "loadDev", "send", "count"}
OfGet == {"getTest", "getSleep", "getDev", "getRetry", "output", "aux", "drop"}
Doing ==
  \A t \in Threads :
    /\ thr[t].op \in usage.ops[t] \cup {"NONE", "DEBUG"}
    /\ thr[t].pc \in OfLoad => thr[t].op = "LOAD"
    /\ thr[t].pc \in OfGet => thr[t].op = "GET"
    /\ thr[t].pc = "reset" => thr[t].op = "RESET"

\* The options of a graph are sent before its first tensor: calls that are past them
\* are on a graph that is started, or gone, and no tensor is in flight before.
Past == (OfLoad \ {"opt"}) \cup (OfGet \ {"getTest", "getSleep"})
Begun ==
  ~usage.reuse =>
    /\ \A t \in Threads : thr[t].pc = "opt" => ~G(t).started
    /\ \A t \in Threads : thr[t].pc \in Past =>
         /\ thr[t].g \in Addrs
         /\ G(t).st = "freed" \/ (G(t).st = "listed" /\ G(t).started)
    /\ \A a \in Addrs : graph[a].st = "listed" /\ graph[a].have # 0 => graph[a].started
    /\ Kept => \A a \in Addrs : graph[a].st = "listed" => graph[a].started

\* With one loader and one getter, what each has read of have_data still bounds it.
Counted ==
  OneLoads /\ OneGets /\ ~usage.reuse =>
    /\ \A a \in Addrs : graph[a].have \in 0..2
    /\ \A t \in Threads : thr[t].seen \in 0..2
    /\ \A t \in Threads : /\ thr[t].pc \in {"loadDev", "send"} => G(t).have # 2
                          /\ thr[t].pc = "count" => thr[t].seen # 2
                          /\ thr[t].pc = "drop" => thr[t].seen # 0
    /\ \A t \in Threads : thr[t].pc \in {"getDev", "getRetry", "output", "aux", "drop"} =>
         thr[t].g \in Addrs /\ (G(t).st = "listed" => G(t).have # 0)

\* The stick s and the graph g when no tensor, one, or two are in flight; the first
\* runs or is done, the second waits in the other place.
Empty(g, s) ==
  /\ s.run = 0 /\ s.done = 0 /\ s.in[0] = 0 /\ s.in[1] = 0
  /\ s.idx = g.outIdx /\ g.inIdx = g.outIdx
First(g, s) ==
  /\ g.param[g.outIdx] # 0
  /\ \/ s.run = g.param[g.outIdx] /\ s.done = 0
     \/ s.run = 0 /\ s.done = g.param[g.outIdx]
  /\ s.in[g.outIdx] = 0 /\ s.idx = 1 - g.outIdx
One(g, s) == First(g, s) /\ s.in[1 - g.outIdx] = 0 /\ g.inIdx = 1 - g.outIdx
Two(g, s) ==
  /\ First(g, s)
  /\ g.param[1 - g.outIdx] # 0 /\ s.in[1 - g.outIdx] = g.param[1 - g.outIdx]
  /\ g.inIdx = g.outIdx
Stages(g, s, k) ==
  (k = 0 /\ Empty(g, s)) \/ (k = 1 /\ One(g, s)) \/ (k = 2 /\ Two(g, s))

\* The graph g, no result of which was given up, and the threads on it: the tensors
\* that have_data counts and the one that is about to be counted are in flight.
Counting == \E t \in Threads : thr[t].pc = "count"
Flows(g) ==
  /\ g.have \in Nat /\ Stages(g, stick, g.have + (IF Counting THEN 1 ELSE 0))
  /\ \A t \in Threads :
       /\ thr[t].pc = "loadDev" => g.have # 2
       /\ thr[t].pc = "send" => g.have # 2 /\ thr[t].ready = (g.have = 0)
       /\ thr[t].pc = "count" => thr[t].seen = g.have
       /\ thr[t].pc = "aux" => stick.done # 0 /\ thr[t].ready = (g.have = 2)
Pipeline ==
  OneLoads =>
    \A a \in Addrs : graph[a].st = "listed" /\ graph[a].clean => Flows(graph[a])

\* A tensor that is being loaded is newer than all that are in the graphs.
Waits == {"enter", "opt", "test", "loadSleep", "loadDev", "send"}
Newer ==
  OneLoads =>
    /\ \A a \in Addrs, i \in {0, 1} : graph[a].param[i] <= loads
    /\ \A t \in Threads : thr[t].op = "LOAD" => thr[t].n # 0 /\ thr[t].n <= loads
    /\ \A t \in Threads : thr[t].op = "LOAD" /\ thr[t].pc \in Waits =>
         \A a \in Addrs, i \in {0, 1} : graph[a].param[i] < thr[t].n
    /\ \A t \in Threads : thr[t].pc = "count" =>
         /\ G(t).param[1 - G(t).inIdx] = thr[t].n
         /\ G(t).param[G(t).inIdx] # thr[t].n

-----------------------------------------------------------------------------
(* What the steps do.                                                        *)

\* A call is on a graph that it found, and goes from one place to the next.
Edge(t, pc) ==
  \/ pc = "opt" /\ thr[t].pc = "enter" /\ thr[t].op = "LOAD" /\ Exists(thr[t].g)
       /\ ~G(t).started
  \/ pc = "test" /\ Exists(thr[t].g)
       /\ (thr[t].pc = "loadSleep"
             \/ (thr[t].pc = "enter" /\ thr[t].op = "LOAD" /\ G(t).started))
  \/ pc = "loadDev" /\ thr[t].pc = "test" /\ G(t).have # 2
  \/ pc = "loadSleep" /\ thr[t].pc = "test"
  \/ pc = "getTest" /\ Exists(thr[t].g)
       /\ (thr[t].pc = "getSleep" \/ (thr[t].pc = "enter" /\ thr[t].op = "GET"))
  \/ pc = "getSleep" /\ thr[t].pc = "getTest"
  \/ pc = "getDev" /\ thr[t].pc = "getTest" /\ G(t).have # 0
  \/ pc = "getDev" /\ thr[t].pc = "getRetry" /\ Exists(thr[t].g)
  \/ pc = "output" /\ thr[t].pc = "getDev"
  \/ pc = "getRetry" /\ thr[t].pc = "output"
  \/ pc = "alloc" /\ thr[t].pc = "enter" /\ NoGraph
  \/ pc = "reset" /\ thr[t].pc = "enter" /\ thr[t].op = "RESET"
  \/ pc \in {"dealloc", "option", "debug", "delete"} /\ thr[t].pc = "enter"

\* Steps that only do this, or return.
Calm(t) ==
  /\ graph' = graph /\ stick' = stick /\ usage' = usage /\ loads' = loads
  /\ thr[t].pc # "count"
  /\ \/ Return(t)
     \/ \E pc \in ByList \cup ByDev \cup Elsewhere : Goto(t, pc) /\ Edge(t, pc)

\* The steps of a thread that change a graph, the stick or more of the thread.
Deed(t) ==
  \/ LoadOptions(t) \/ LoadDevice(t) \/ LoadSend(t) \/ LoadSendFails(t) \/ LoadCount(t)
  \/ GetOutput(t) \/ GetFails(t) \/ GetAux(t) \/ GetLate(t) \/ GetDrop(t)
  \/ Alloc(t) \/ Option(t) \/ Reset(t)

LEMMA EnterCalm ==
  ASSUME NEW t \in Threads, NEW op, NEW pc \in ByList, Enter(t, op, pc),
         Exists(thr[t].g) => Edge(t, pc)
  PROVE  Calm(t)
  BY DEF Enter, Calm

LEMMA AgainCalm ==
  ASSUME NEW t \in Threads, NEW from, NEW pc \in ByList, Again(t, from, pc),
         from # "count", Exists(thr[t].g) => Edge(t, pc)
  PROVE  Calm(t)
  BY DEF Again, Calm

LEMMA LoadKinds ==
  ASSUME NEW t \in Threads, Load(t)
  PROVE  Calm(t) \/ Deed(t)
<1>1. CASE LoadEnter(t)
  <2>1. LET pc == IF Exists(thr[t].g) /\ G(t).started THEN "test" ELSE "opt"
        IN  pc \in ByList /\ Enter(t, "LOAD", pc) /\ (Exists(thr[t].g) => Edge(t, pc))
    BY <1>1 DEF LoadEnter, Enter, Edge, ByList
  <2> QED BY <2>1, EnterCalm
<1>2. CASE LoadTest(t)
  BY <1>2 DEF LoadTest, LoadFull, Calm, Edge, ByList, Elsewhere
<1>3. CASE LoadAgain(t)
  <2>1. Edge(t, "test") \/ ~Exists(thr[t].g)
    BY <1>3 DEF LoadAgain, Again, Edge
  <2> QED BY <1>3, <2>1, AgainCalm DEF LoadAgain, ByList
<1> QED BY <1>1, <1>2, <1>3 DEF Load, Deed

LEMMA GetKinds ==
  ASSUME NEW t \in Threads, Get(t)
  PROVE  Calm(t) \/ Deed(t)
<1>1. CASE GetEnter(t)
  <2>1. Exists(thr[t].g) => Edge(t, "getTest")
    BY <1>1 DEF GetEnter, Enter, Edge
  <2> QED BY <1>1, <2>1, EnterCalm DEF GetEnter, ByList
<1>2. CASE GetTest(t)
  BY <1>2 DEF GetTest, Calm, Edge, ByList, Elsewhere
<1>3. CASE GetAgain(t)
  <2>1. Exists(thr[t].g) => Edge(t, "getTest")
    BY <1>3 DEF GetAgain, Again, Edge
  <2> QED BY <1>3, <2>1, AgainCalm DEF GetAgain, ByList
<1>4. CASE GetDevice(t)
  BY <1>4 DEF GetDevice, Calm, Edge, ByDev
<1>5. CASE GetBusy(t)
  BY <1>5 DEF GetBusy, Calm, Edge, Elsewhere
<1>6. CASE GetRetry(t)
  <2>1. Exists(thr[t].g) => Edge(t, "getDev")
    BY <1>6 DEF GetRetry, Again, Edge
  <2> QED BY <1>6, <2>1, AgainCalm DEF GetRetry, ByList
<1> QED BY <1>1, <1>2, <1>3, <1>4, <1>5, <1>6 DEF Get, Deed

LEMMA GraphsKinds ==
  ASSUME NEW t \in Threads, Graphs(t)
  PROVE  Calm(t) \/ Deed(t) \/ Dealloc(t)
<1>1. CASE AllocEnter(t)
  BY <1>1 DEF AllocEnter, Calm, Edge, ByList
<1>2. CASE DeallocEnter(t)
  <2>1. Exists(thr[t].g) => Edge(t, "dealloc")
    BY <1>2 DEF DeallocEnter, Enter, Edge
  <2> QED BY <1>2, <2>1, EnterCalm DEF DeallocEnter, ByList
<1>3. CASE OptionEnter(t)
  <2>1. Edge(t, "option") /\ Edge(t, "debug")
    BY <1>3 DEF OptionEnter, Enter, Edge
  <2> QED BY <1>3, <2>1, EnterCalm DEF OptionEnter, ByList
<1> QED BY <1>1, <1>2, <1>3 DEF Graphs, Deed

LEMMA DevicesKinds ==
  ASSUME NEW t \in Threads, Devices(t)
  PROVE  Calm(t) \/ Deed(t) \/ Add(t) \/ RemoveDelete(t)
<1>1. CASE ResetEnter(t)
  BY <1>1 DEF ResetEnter, Calm, Edge, ByList
<1>2. CASE RemoveErase(t)
  BY <1>2 DEF RemoveErase, Calm, Edge, Elsewhere
<1> QED BY <1>1, <1>2 DEF Devices, Deed

\* The steps by what they do.
LEMMA Kinds ==
  ASSUME [Next]_vars
  PROVE  \/ \E t \in Threads :
              \/ Call(t) \/ Calm(t) \/ Deed(t) \/ Dealloc(t) \/ Add(t) \/ RemoveDelete(t)
         \/ StickDone \/ UNCHANGED vars
  BY LoadKinds, GetKinds, GraphsKinds, DevicesKinds DEF Next, Inside

\* The other threads stay as they are; t goes on with its call, or comes home.
Onward(t, pc) ==
  /\ \A u \in Threads \ {t} : thr'[u] = thr[u]
  /\ thr'[t].pc = pc /\ thr'[t].op = thr[t].op
  /\ thr'[t].g = thr[t].g /\ thr'[t].n = thr[t].n
Home(t) == (\A u \in Threads \ {t} : thr'[u] = thr[u]) /\ thr'[t] = Idle

\* One graph changes, which is listed and stays so.
Alone(a) ==
  /\ a \in Addrs /\ graph[a].st = "listed" /\ graph'[a].st = "listed"
  /\ \A b \in Addrs \ {a} : graph'[b] = graph[b]

\* The part of a graph that stands for its pipeline.
Pipes(g) == <<g.have, g.inIdx, g.outIdx, g.param, g.clean>>

LEMMA GotoOnward ==
  ASSUME Shape, NEW t \in Threads, NEW pc, Goto(t, pc)
  PROVE  Onward(t, pc) /\ thr'[t].seen = thr[t].seen /\ thr'[t].ready = thr[t].ready
  BY DEF Goto, Onward, Shape, ThreadType

LEMMA ReturnHome ==
  ASSUME Shape, NEW t \in Threads, Return(t)
  PROVE  Home(t)
  BY DEF Return, Home, Shape

LEMMA OptionsEffect ==
  ASSUME Shape, Held, NEW t \in Threads, LoadOptions(t)
  PROVE  /\ thr[t].pc = "opt" /\ UNCHANGED <<usage, loads, stick>>
         /\ \/ Home(t) /\ graph' = graph
            \/ /\ Onward(t, "test") /\ thr'[t].seen = thr[t].seen
               /\ Alone(thr[t].g) /\ graph'[thr[t].g].started
               /\ graph'[thr[t].g].out = G(t).out
               /\ Pipes(graph'[thr[t].g]) = Pipes(G(t))
<1>1. thr[t].g \in Addrs /\ G(t) \in GraphType /\ G(t).st = "listed"
  BY OnGraphTypes DEF LoadOptions, OnGraph, Held, OnListed
<1>2. CASE graph' = [graph EXCEPT ![thr[t].g].started = TRUE] /\ Goto(t, "test")
  <2>1. graph'[thr[t].g] = [G(t) EXCEPT !.started = TRUE]
        /\ \A b \in Addrs \ {thr[t].g} : graph'[b] = graph[b]
    BY <1>1, <1>2 DEF Shape, G
  <2>2. LET h == [G(t) EXCEPT !.started = TRUE]
        IN  h.started /\ h.st = "listed" /\ h.out = G(t).out /\ Pipes(h) = Pipes(G(t))
    BY <1>1 DEF GraphType, Pipes
  <2> QED BY <1>1, <1>2, <2>1, <2>2, GotoOnward DEF LoadOptions, Alone, G
<1>3. CASE Return(t) /\ graph' = graph
  BY <1>3, ReturnHome DEF LoadOptions
<1> QED BY <1>2, <1>3 DEF LoadOptions

LEMMA DeviceEffect ==
  ASSUME Shape, Held, NEW t \in Threads, LoadDevice(t)
  PROVE  /\ thr[t].pc = "loadDev" /\ UNCHANGED <<usage, loads, stick, graph>>
         /\ Onward(t, "send") /\ thr'[t].seen = thr[t].seen
         /\ thr'[t].ready = (G(t).have = 0)
<1> DEFINE b == (G(t).have = 0)
<1>1. thr' = [thr EXCEPT ![t] = [thr[t] EXCEPT !.pc = "send", !.ready = b]]
  BY DEF LoadDevice
<1> HIDE DEF b
<1>2. thr'[t] = [thr[t] EXCEPT !.pc = "send", !.ready = b] /\ thr[t] \in ThreadType
      /\ \A u \in Threads \ {t} : thr'[u] = thr[u]
  BY <1>1 DEF Shape
<1>3. thr'[t].ready = b /\ thr'[t].seen = thr[t].seen /\ Onward(t, "send")
  BY <1>2 DEF ThreadType, Onward
<1> QED BY <1>3 DEF LoadDevice, b

LEMMA SendEffect ==
  ASSUME Shape, Held, NEW t \in Threads, LoadSend(t)
  PROVE  LET g == G(t)
             h == graph'[thr[t].g]
         IN  /\ thr[t].pc = "send" /\ UNCHANGED <<usage, loads>>
             /\ Onward(t, "count") /\ thr'[t].seen = g.have
             /\ Alone(thr[t].g)
             /\ h.started = g.started /\ h.have = g.have /\ h.out = g.out
             /\ h.outIdx = g.outIdx /\ h.inIdx = 1 - g.inIdx /\ h.clean = g.clean
             /\ h.param[g.inIdx] = thr[t].n
             /\ h.param[1 - g.inIdx] = g.param[1 - g.inIdx]
             /\ stick' = Started([stick EXCEPT !.in[g.inIdx] = thr[t].n], thr[t].ready)
<1>1. /\ thr[t].g \in Addrs /\ G(t) \in GraphType /\ G(t).st = "listed"
      /\ thr[t] \in ThreadType
  BY OnGraphTypes DEF LoadSend, OnGraph, Held, OnListed
<1> DEFINE p == [G(t).param EXCEPT ![G(t).inIdx] = thr[t].n]
           i == 1 - G(t).inIdx
           h == [G(t) EXCEPT !.param = p, !.inIdx = i]
<1>2. h = [G(t) EXCEPT !.param[G(t).inIdx] = thr[t].n, !.inIdx = 1 - @]
  BY <1>1 DEF GraphType
<1>3. graph' = [graph EXCEPT ![thr[t].g] = h]
  BY <1>2 DEF LoadSend
<1>4. p[G(t).inIdx] = thr[t].n /\ p[1 - G(t).inIdx] = G(t).param[1 - G(t).inIdx]
  BY <1>1 DEF GraphType
<1> HIDE DEF p, i
<1>5. /\ h.st = "listed" /\ h.started = G(t).started /\ h.have = G(t).have
      /\ h.out = G(t).out /\ h.outIdx = G(t).outIdx /\ h.clean = G(t).clean
      /\ h.inIdx = i /\ h.param = p
  BY <1>1 DEF GraphType
<1> HIDE DEF h
<1>6. graph'[thr[t].g] = h /\ Alone(thr[t].g)
  BY <1>1, <1>3, <1>5 DEF Shape, Alone, G
<1>7. Onward(t, "count") /\ thr'[t].seen = G(t).have
  <2>1. thr'[t] = [thr[t] EXCEPT !.pc = "count", !.seen = G(t).have]
        /\ \A u \in Threads \ {t} : thr'[u] = thr[u]
    BY DEF LoadSend, Shape
  <2> QED BY <1>1, <2>1 DEF ThreadType, Onward
<1>8. stick' = Started([stick EXCEPT !.in[G(t).inIdx] = thr[t].n], thr[t].ready)
      /\ thr[t].pc = "send" /\ UNCHANGED <<usage, loads>>
  BY DEF LoadSend
<1> QED BY <1>4, <1>5, <1>6, <1>7, <1>8 DEF i

LEMMA FailEffect ==
  ASSUME Shape, Held, NEW t \in Threads, LoadSendFails(t)
  PROVE  LET g == G(t)
             h == graph'[thr[t].g]
         IN  /\ thr[t].pc = "send" /\ UNCHANGED <<usage, loads, stick>>
             /\ Home(t) /\ Alone(thr[t].g)
             /\ h.started = g.started /\ h.have = g.have /\ ~h.clean
             /\ h.param = g.param /\ h.inIdx = g.inIdx
<1>1. thr[t].g \in Addrs /\ G(t) \in GraphType /\ G(t).st = "listed"
  BY OnGraphTypes DEF LoadSendFails, OnGraph, Held, OnListed
<1>2. graph'[thr[t].g] = [G(t) EXCEPT !.clean = FALSE]
      /\ \A b \in Addrs \ {thr[t].g} : graph'[b] = graph[b]
  BY <1>1 DEF LoadSendFails, Shape, G
<1>3. LET h == [G(t) EXCEPT !.clean = FALSE]
      IN  /\ h.st = "listed" /\ h.started = G(t).started /\ h.have = G(t).have /\ ~h.clean
          /\ h.param = G(t).param /\ h.inIdx = G(t).inIdx
  BY <1>1 DEF GraphType
<1> QED BY <1>1, <1>2, <1>3, ReturnHome DEF LoadSendFails, Alone, G

LEMMA CountEffect ==
  ASSUME Shape, Held, NEW t \in Threads, LoadCount(t)
  PROVE  LET g == G(t)
             h == graph'[thr[t].g]
         IN  /\ thr[t].pc = "count" /\ UNCHANGED <<usage, loads, stick>>
             /\ Home(t) /\ Alone(thr[t].g)
             /\ h.started = g.started /\ h.have = thr[t].seen + 1 /\ h.out = g.out
             /\ h.outIdx = g.outIdx /\ h.inIdx = g.inIdx /\ h.param = g.param
             /\ h.clean = g.clean
<1>1. thr[t].g \in Addrs /\ G(t) \in GraphType /\ G(t).st = "listed"
  BY OnGraphTypes DEF LoadCount, OnGraph, Held, OnListed
<1> DEFINE k == thr[t].seen + 1
           h == [G(t) EXCEPT !.have = k]
<1>2. graph'[thr[t].g] = h /\ \A b \in Addrs \ {thr[t].g} : graph'[b] = graph[b]
  BY <1>1 DEF LoadCount, Shape, G
<1> HIDE DEF k
<1>3. /\ h.st = "listed" /\ h.started = G(t).started /\ h.have = k
      /\ h.out = G(t).out /\ h.outIdx = G(t).outIdx /\ h.inIdx = G(t).inIdx
      /\ h.param = G(t).param /\ h.clean = G(t).clean
  BY <1>1 DEF GraphType
<1> HIDE DEF h
<1>4. Home(t) /\ thr[t].pc = "count" /\ UNCHANGED <<usage, loads, stick>>
  BY ReturnHome DEF LoadCount
<1>5. Alone(thr[t].g)
  BY <1>1, <1>2, <1>3 DEF Alone, G
<1> QED BY <1>2, <1>3, <1>4, <1>5 DEF k

LEMMA OutputEffect ==
  ASSUME Shape, Held, NEW t \in Threads, GetOutput(t)
  PROVE  LET g == G(t)
             h == graph'[thr[t].g]
         IN  /\ thr[t].pc = "output" /\ UNCHANGED <<usage, loads, stick>>
             /\ stick.done # 0
             /\ Onward(t, "aux") /\ thr'[t].seen = thr[t].seen
             /\ thr'[t].ready = (g.have = 2)
             /\ Alone(thr[t].g)
             /\ h.started = g.started /\ h.out = stick.done /\ Pipes(h) = Pipes(g)
<1>1. /\ thr[t].g \in Addrs /\ G(t) \in GraphType /\ G(t).st = "listed"
      /\ thr[t] \in ThreadType
  BY OnGraphTypes DEF GetOutput, OnGraph, Held, OnListed
<1>2. graph'[thr[t].g] = [G(t) EXCEPT !.out = stick.done]
      /\ \A b \in Addrs \ {thr[t].g} : graph'[b] = graph[b]
  BY <1>1 DEF GetOutput, Shape, G
<1>3. \A k : LET h == [G(t) EXCEPT !.out = k]
             IN  /\ h.st = "listed" /\ h.started = G(t).started /\ h.out = k
                 /\ Pipes(h) = Pipes(G(t))
  BY <1>1 DEF GraphType, Pipes
<1> DEFINE b == (G(t).have = 2)
<1>4. thr' = [thr EXCEPT ![t] = [thr[t] EXCEPT !.pc = "aux", !.ready = b]]
  BY DEF GetOutput
<1> HIDE DEF b
<1>5. thr'[t] = [thr[t] EXCEPT !.pc = "aux", !.ready = b]
      /\ \A u \in Threads \ {t} : thr'[u] = thr[u]
  BY <1>4 DEF Shape
<1>6. thr'[t].ready = b /\ thr'[t].seen = thr[t].seen /\ Onward(t, "aux")
  BY <1>1, <1>5 DEF ThreadType, Onward
<1>7. thr[t].pc = "output" /\ UNCHANGED <<usage, loads, stick>> /\ stick.done # 0
  BY DEF GetOutput
<1>8. Alone(thr[t].g)
  BY <1>1, <1>2, <1>3 DEF Alone, G
<1> QED BY <1>2, <1>3, <1>6, <1>7, <1>8 DEF b

LEMMA FailsEffect ==
  ASSUME Shape, Held, NEW t \in Threads, GetFails(t)
  PROVE  LET g == G(t)
             h == graph'[thr[t].g]
         IN  /\ thr[t].pc \in {"output", "aux"} /\ UNCHANGED <<usage, loads, stick>>
             /\ Home(t) /\ Alone(thr[t].g)
             /\ h.started = g.started /\ h.have = g.have /\ ~h.clean
             /\ h.param = g.param /\ h.inIdx = g.inIdx
<1>1. thr[t].g \in Addrs /\ G(t) \in GraphType /\ G(t).st = "listed"
  BY OnGraphTypes DEF GetFails, OnGraph, Held, OnListed
<1> DEFINE h == [G(t) EXCEPT !.failed = TRUE, !.clean = FALSE]
<1>2. graph'[thr[t].g] = h /\ \A b \in Addrs \ {thr[t].g} : graph'[b] = graph[b]
  BY <1>1 DEF GetFails, Shape, G
<1>3. /\ h.st = "listed" /\ h.started = G(t).started /\ h.have = G(t).have /\ ~h.clean
      /\ h.param = G(t).param /\ h.inIdx = G(t).inIdx
  BY <1>1 DEF GraphType
<1> HIDE DEF h
<1>4. Home(t) /\ thr[t].pc \in {"output", "aux"} /\ UNCHANGED <<usage, loads, stick>>
  BY ReturnHome DEF GetFails
<1> QED BY <1>1, <1>2, <1>3, <1>4 DEF Alone, G

LEMMA AuxEffect ==
  ASSUME Shape, Held, NEW t \in Threads, GetAux(t)
  PROVE  LET g == G(t)
             h == graph'[thr[t].g]
         IN  /\ thr[t].pc = "aux" /\ UNCHANGED <<usage, loads>>
             /\ Home(t) \/ (/\ \A u \in Threads \ {t} : thr'[u] = thr[u]
                            /\ thr'[t].pc = "enter" /\ thr'[t].op = "DEBUG"
                            /\ thr'[t].g = thr[t].g /\ thr'[t].seen = thr[t].seen)
             /\ Alone(thr[t].g)
             /\ h.started = g.started /\ h.have = g.have - 1 /\ h.out = g.out
             /\ h.outIdx = 1 - g.outIdx /\ h.inIdx = g.inIdx /\ h.param = g.param
             /\ h.clean = g.clean
             /\ stick' = Started([stick EXCEPT !.done = 0], thr[t].ready)
<1>1. /\ thr[t].g \in Addrs /\ G(t) \in GraphType /\ G(t).st = "listed"
      /\ thr[t] \in ThreadType
  BY OnGraphTypes DEF GetAux, OnGraph, Held, OnListed
<1>2. PICK err \in BOOLEAN :
        /\ graph' = [graph EXCEPT ![thr[t].g] =
             [G(t) EXCEPT !.outIdx = NextOut(@), !.have = @ - 1, !.failed = @ \/ err]]
        /\ \/ Return(t)
           \/ thr' = [thr EXCEPT ![t] = [thr[t] EXCEPT !.pc = "enter", !.op = "DEBUG"]]
  BY DEF GetAux, G
<1> DEFINE f == G(t).failed \/ err
           h == [G(t) EXCEPT !.outIdx = 1 - G(t).outIdx, !.have = G(t).have - 1, !.failed = f]
<1>3. graph'[thr[t].g] = h /\ \A b \in Addrs \ {thr[t].g} : graph'[b] = graph[b]
  BY <1>1, <1>2 DEF Shape, G, NextOut
<1> HIDE DEF f
<1>4. /\ h.st = "listed" /\ h.started = G(t).started /\ h.have = G(t).have - 1
      /\ h.out = G(t).out /\ h.outIdx = 1 - G(t).outIdx /\ h.inIdx = G(t).inIdx
      /\ h.param = G(t).param /\ h.clean = G(t).clean
  BY <1>1 DEF GraphType
<1> HIDE DEF h
<1>5. CASE Return(t)
  BY <1>1, <1>3, <1>4, <1>5, ReturnHome DEF GetAux, Alone, G
<1>6. CASE thr' = [thr EXCEPT ![t] = [thr[t] EXCEPT !.pc = "enter", !.op = "DEBUG"]]
  <2>1. /\ \A u \in Threads \ {t} : thr'[u] = thr[u]
        /\ thr'[t].pc = "enter" /\ thr'[t].op = "DEBUG" /\ thr'[t].g = thr[t].g
        /\ thr'[t].seen = thr[t].seen
    BY <1>1, <1>6 DEF Shape, ThreadType
  <2> QED BY <1>1, <1>3, <1>4, <2>1 DEF GetAux, Alone, G
<1> QED BY <1>2, <1>5, <1>6

LEMMA LateEffect ==
  ASSUME Shape, NEW t \in Threads, GetLate(t)
  PROVE  /\ thr[t].pc = "getRetry" /\ UNCHANGED <<usage, loads, stick, graph>>
         /\ thr[t].g \in Addrs /\ G(t).st = "listed"
         /\ Onward(t, "drop") /\ thr'[t].seen = G(t).have
<1>1. thr'[t] = [thr[t] EXCEPT !.pc = "drop", !.seen = G(t).have] /\ thr[t] \in ThreadType
      /\ \A u \in Threads \ {t} : thr'[u] = thr[u]
  BY DEF GetLate, Shape
<1>2. Onward(t, "drop") /\ thr'[t].seen = G(t).have
  BY <1>1 DEF Onward, ThreadType
<1> QED BY <1>1, <1>2 DEF GetLate, Exists, G, ThreadType

LEMMA DropEffect ==
  ASSUME Shape, Held, NEW t \in Threads, GetDrop(t)
  PROVE  LET g == G(t)
             h == graph'[thr[t].g]
         IN  /\ thr[t].pc = "drop" /\ UNCHANGED <<usage, loads, stick>>
             /\ Home(t) /\ Alone(thr[t].g)
             /\ h.started = g.started /\ h.have = thr[t].seen - 1 /\ ~h.clean
             /\ h.param = g.param /\ h.inIdx = g.inIdx
<1>1. thr[t].g \in Addrs /\ G(t) \in GraphType /\ G(t).st = "listed"
  BY OnGraphTypes DEF GetDrop, OnGraph, Held, OnListed
<1> DEFINE h == [G(t) EXCEPT !.outIdx = NextOut(@), !.have = thr[t].seen - 1,
                             !.failed = TRUE, !.clean = FALSE]
<1>2. graph'[thr[t].g] = h /\ \A b \in Addrs \ {thr[t].g} : graph'[b] = graph[b]
  BY <1>1 DEF GetDrop, Shape, G
<1>3. /\ h.st = "listed" /\ h.started = G(t).started /\ h.have = thr[t].seen - 1
      /\ ~h.clean /\ h.param = G(t).param /\ h.inIdx = G(t).inIdx
  BY <1>1 DEF GraphType
<1> HIDE DEF h
<1>4. Home(t) /\ thr[t].pc = "drop" /\ UNCHANGED <<usage, loads, stick>>
  BY ReturnHome DEF GetDrop
<1> QED BY <1>1, <1>2, <1>3, <1>4 DEF Alone, G

LEMMA AllocEffect ==
  ASSUME Shape, NEW t \in Threads, Alloc(t)
  PROVE  /\ thr[t].pc = "alloc" /\ UNCHANGED <<usage, loads, devLock, device>> /\ Home(t)
         /\ \/ graph' = graph /\ stick' = stick
            \/ /\ stick' = NewStick
               /\ \E a \in Addrs : /\ graph[a].st \in {"unused", "freed"}
                                   /\ graph[a].st = "freed" => usage.reuse
                                   /\ graph'[a] = NewGraph
                                   /\ \A b \in Addrs \ {a} : graph'[b] = graph[b]
<1>1. CASE stick' = NewStick /\ \E a \in Addresses : graph' = [graph EXCEPT ![a] = NewGraph]
  <2>1. PICK a \in Addresses : graph' = [graph EXCEPT ![a] = NewGraph]
    BY <1>1
  <2>2. /\ a \in Addrs /\ graph[a].st \in {"unused", "freed"}
        /\ graph[a].st = "freed" => usage.reuse
    BY DEF Addresses
  <2>3. graph'[a] = NewGraph /\ \A b \in Addrs \ {a} : graph'[b] = graph[b]
    BY <2>1, <2>2 DEF Shape
  <2> QED BY <1>1, <2>2, <2>3, ReturnHome DEF Alloc
<1>2. CASE graph' = graph /\ stick' = stick
  BY <1>2, ReturnHome DEF Alloc
<1> QED BY <1>1, <1>2 DEF Alloc

LEMMA OptionEffect ==
  ASSUME Shape, Held, NEW t \in Threads, Option(t)
  PROVE  /\ thr[t].pc \in {"option", "debug"} /\ UNCHANGED <<usage, loads, stick>>
         /\ Home(t) /\ Alone(thr[t].g)
         /\ graph'[thr[t].g].started = G(t).started
         /\ graph'[thr[t].g].out = G(t).out
         /\ Pipes(graph'[thr[t].g]) = Pipes(G(t))
<1>1. thr[t].g \in Addrs /\ G(t) \in GraphType /\ G(t).st = "listed"
  BY OnGraphTypes DEF Option, OnGraph, Held, OnListed
<1>2. PICK b \in BOOLEAN : graph' = [graph EXCEPT ![thr[t].g] = [G(t) EXCEPT !.block = b]]
  BY DEF Option, G
<1> DEFINE h == [G(t) EXCEPT !.block = b]
<1>3. graph'[thr[t].g] = h /\ \A c \in Addrs \ {thr[t].g} : graph'[c] = graph[c]
  BY <1>1, <1>2 DEF Shape
<1>4. h.st = "listed" /\ h.started = G(t).started /\ h.out = G(t).out /\ Pipes(h) = Pipes(G(t))
  BY <1>1 DEF GraphType, Pipes
<1> HIDE DEF h
<1>5. Home(t) /\ thr[t].pc \in {"option", "debug"} /\ UNCHANGED <<usage, loads, stick>>
  BY ReturnHome DEF Option
<1> QED BY <1>1, <1>3, <1>4, <1>5 DEF Alone, G

LEMMA ResetEffect ==
  ASSUME Shape, NEW t \in Threads, Reset(t)
  PROVE  /\ thr[t].pc = "reset" /\ UNCHANGED <<usage, loads, stick>> /\ Home(t)
         /\ \A a \in Addrs : /\ graph'[a].st = graph[a].st
                             /\ graph'[a].started = graph[a].started
                             /\ Pipes(graph'[a]) = Pipes(graph[a])
                             /\ graph'[a].out = IF graph[a].st = "listed" THEN 0
                                                ELSE graph[a].out
<1>1. \A g \in GraphType :
        LET h == [g EXCEPT !.failed = FALSE, !.out = 0]
        IN  h.st = g.st /\ h.started = g.started /\ Pipes(h) = Pipes(g) /\ h.out = 0
  BY DEF GraphType, Pipes
<1>2. \A a \in Addrs :
        graph'[a] = IF graph[a].st = "listed" THEN [graph[a] EXCEPT !.failed = FALSE, !.out = 0]
                    ELSE graph[a]
  BY DEF Reset
<1>3. \A a \in Addrs : graph[a] \in GraphType
  BY DEF Shape
<1>4. Home(t) /\ thr[t].pc = "reset" /\ UNCHANGED <<usage, loads, stick>>
  BY ReturnHome DEF Reset
<1> QED BY <1>1, <1>2, <1>3, <1>4

LEMMA CallEffect ==
  ASSUME Shape, NEW t \in Threads, Call(t)
  PROVE  /\ UNCHANGED <<usage, graph, stick>> /\ thr[t].pc = "idle"
         /\ \A u \in Threads \ {t} : thr'[u] = thr[u]
         /\ thr'[t].pc = "enter" /\ thr'[t].op \in usage.ops[t] /\ thr'[t].seen = 0
         /\ IF thr'[t].op = "LOAD" THEN loads' = loads + 1 /\ thr'[t].n = loads'
            ELSE loads' = loads
<1>1. PICK op \in usage.ops[t] :
        \/ /\ op \in {"ALLOC", "RESET", "ADD", "REMOVE"} /\ loads' = loads
           /\ thr' = [thr EXCEPT ![t] = [Idle EXCEPT !.pc = "enter", !.op = op]]
        \/ /\ op \in {"DEALLOC", "LOAD", "GET", "OPTION"}
           /\ loads' = IF op = "LOAD" THEN loads + 1 ELSE loads
           /\ \E a \in Addrs : thr' = [thr EXCEPT ![t] =
                [Idle EXCEPT !.pc = "enter", !.op = op, !.g = a,
                             !.n = IF op = "LOAD" THEN loads + 1 ELSE 0]]
  BY DEF Call
<1>2. \A u \in Threads \ {t} : thr'[u] = thr[u]
  BY <1>1 DEF Shape
<1>3. thr'[t].pc = "enter" /\ thr'[t].op = op /\ thr'[t].seen = 0
      /\ (op = "LOAD" => loads' = loads + 1 /\ thr'[t].n = loads + 1)
      /\ (op # "LOAD" => loads' = loads)
  BY <1>1, ZenonT(30) DEF Shape, Idle
<1> QED BY <1>1, <1>2, <1>3 DEF Call

\* A thread is where it was, though its graph may be gone.
Alike(u) ==
  /\ thr'[u].pc = thr[u].pc /\ thr'[u].op = thr[u].op /\ thr'[u].g = thr[u].g
  /\ thr'[u].n = thr[u].n /\ thr'[u].seen = thr[u].seen /\ thr'[u].ready = thr[u].ready

LEMMA FreedAlike ==
  ASSUME Shape, NEW t \in Threads, NEW as, ReturnFreed(t, as)
  PROVE  thr'[t] = Idle /\ \A u \in Threads \ {t} : Alike(u)
<1>1. ASSUME NEW u \in Threads \ {t}
      PROVE  Alike(u)
  <2> DEFINE b == thr[u].gone \/ (thr[u].g \in as /\ thr[u].pc # "enter")
  <2>1. thr'[u] = [thr[u] EXCEPT !.gone = b] /\ thr[u] \in ThreadType
    BY DEF ReturnFreed, Shape
  <2> HIDE DEF b
  <2> QED BY <2>1 DEF ThreadType, Alike
<1> QED BY <1>1 DEF ReturnFreed

\* The deletion of some graphs, which no other call uses.
Deletes(t, as) ==
  /\ UNCHANGED <<usage, loads, stick>> /\ devLock = None /\ devLock' = None
  /\ thr[t].pc # "count" /\ thr'[t] = Idle
  /\ \A u \in Threads \ {t} : Alike(u) /\ thr[u].pc \notin OnGraph
  /\ as \subseteq Addrs
  /\ \A a \in Addrs : graph'[a] = IF a \in as THEN Freed ELSE graph[a]

LEMMA DeallocEffect ==
  ASSUME Shape, Held, NEW t \in Threads, Dealloc(t)
  PROVE  device' = device /\ Deletes(t, {thr[t].g})
<1>1. thr[t].g \in Addrs
  BY OnGraphTypes DEF Dealloc, OnGraph, Held
<1>2. \A u \in Threads \ {t} : thr[u].pc \notin OnGraph
  BY DeviceFree DEF Dealloc, ByList
<1>3. \A a \in Addrs : graph'[a] = IF a \in {thr[t].g} THEN Freed ELSE graph[a]
  BY <1>1 DEF Dealloc, Shape
<1> QED BY <1>1, <1>2, <1>3, FreedAlike DEF Dealloc, Deletes

LEMMA DeleteEffect ==
  ASSUME Shape, Held, NEW t \in Threads, RemoveDelete(t)
  PROVE  \E as : Deletes(t, as) /\ as = {a \in Addrs : graph[a].st = "listed"}
<1> DEFINE as == {a \in Addrs : graph[a].st = "listed"}
<1>1. \A u \in Threads : thr[u].pc \notin OnGraph
  BY DeviceFree DEF RemoveDelete, Held, OneDeletes
<1>2. \A a \in Addrs : graph'[a] = IF a \in as THEN Freed ELSE graph[a]
  BY DEF RemoveDelete
<1>3. ReturnFreed(t, as)
  BY DEF RemoveDelete
<1>4. as \subseteq Addrs
  OBVIOUS
<1> HIDE DEF as
<1>5. Deletes(t, as)
  BY <1>1, <1>2, <1>3, <1>4, FreedAlike DEF RemoveDelete, Deletes
<1> QED BY <1>5 DEF as

LEMMA AddEffect ==
  ASSUME Shape, NEW t \in Threads, Add(t)
  PROVE  /\ UNCHANGED <<usage, loads, graph>> /\ Home(t)
         /\ \/ UNCHANGED <<device, devLock, stick>> /\ Calm(t)
            \/ device = "deleted" /\ device' = "listed" /\ devLock' = None /\ stick' = NewStick
  BY ReturnHome DEF Add, Calm

-----------------------------------------------------------------------------
(* One graph at a time.                                                      *)

SameStates == \A a \in Addrs : graph'[a].st = graph[a].st

\* The lock of the device is kept by a call that held it.
LEMMA RegularKept ==
  ASSUME Shape, Held, NEW t \in Threads, Regular(t), Kept', ~Kept
  PROVE  thr[t].pc \in ByDev
<1>1. ~Hands(t) /\ ~Gives(t)
  BY MvNcAssumption DEF Kept, Hands, Gives
<1>2. ~Takes(t) /\ ~Stays(t) /\ ~Leaves(t)
  <2>1. SUFFICES ASSUME Takes(t) \/ Stays(t) \/ Leaves(t) PROVE FALSE
    OBVIOUS
  <2>2. devLock' = devLock /\ devLock \in Threads /\ thr[devLock].pc \in ByDev
    BY <2>1 DEF Kept, Takes, Stays, Leaves, Shape
  <2>3. devLock = t
    BY <2>2 DEF Kept, Regular, Moves
  <2> QED BY <2>1, <2>2, <2>3 DEF Kept, Takes, Stays, Leaves, ByList, ByDev, Elsewhere
<1> QED BY <1>1, <1>2 DEF Regular, LockStep, Fails

\* The steps that do not change the list of the devices, nor which graphs are listed.
LEMMA RegularListing ==
  ASSUME Shape, Held, Listing, NEW t \in Threads, Regular(t), SameStates,
         thr'[t].pc = "alloc" => NoGraph
  PROVE  Listing'
<1>1. NoGraph' <=> NoGraph
  BY DEF SameStates, NoGraph
<1>2. OneGraph'
  BY DEF SameStates, Listing, OneGraph
<1>3. \A u \in Threads : thr'[u].pc = "alloc" => NoGraph
  BY DEF Regular, Moves, Listing
<1>4. device' = "deleted" => NoGraph
  BY DEF Regular, Listing
<1>5. ASSUME Kept', ~Kept
      PROVE  ~NoGraph
  <2>1. thr[t].pc \in ByDev
    BY <1>5, RegularKept
  <2>2. thr[t].g \in Addrs /\ graph[thr[t].g].st = "listed"
    BY <2>1 DEF ByDev, OnGraph, Held, OnListed, G
  <2> QED BY <2>2 DEF NoGraph
<1> QED BY <1>1, <1>2, <1>3, <1>4, <1>5 DEF Listing

\* A graph is allocated while there is none.
LEMMA AllocListing ==
  ASSUME Shape, Held, Listing, NEW t \in Threads, Alloc(t)
  PROVE  Listing'
<1>1. NoGraph /\ ~Kept /\ device' = device /\ devLock' = devLock /\ thr[t].pc = "alloc"
  BY AllocEffect DEF Listing
<1>2. lock = t /\ device = "listed" /\ \A u \in Threads \ {t} : thr[u].pc \notin ByList
  BY <1>1 DEF Held, HasList, ByList
<1>3. \A u \in Threads : thr'[u].pc # "alloc"
  BY <1>2, AllocEffect DEF Home, Idle, ByList
<1>4. OneGraph' /\ (Kept' => ~NoGraph')
  <2>1. CASE graph' = graph
    <3>1. ~Kept'
      <4>1. SUFFICES ASSUME Kept' PROVE FALSE
        OBVIOUS
      <4>2. devLock \in Threads /\ devLock # None /\ thr[devLock].pc \in ByDev
        BY <1>1, <4>1 DEF Kept, Shape
      <4>3. devLock # t
        BY <1>1, <4>2 DEF ByDev
      <4>4. thr'[devLock] = thr[devLock]
        BY <4>2, <4>3, AllocEffect DEF Home
      <4> QED BY <1>1, <4>1, <4>2, <4>4 DEF Kept
    <3> QED BY <2>1, <3>1 DEF Listing, OneGraph
  <2>2. CASE \E a \in Addrs : /\ graph'[a] = NewGraph
                              /\ \A b \in Addrs \ {a} : graph'[b] = graph[b]
    BY <1>1, <2>2 DEF NewGraph, NoGraph, OneGraph
  <2> QED BY <2>1, <2>2, AllocEffect
<1> QED BY <1>1, <1>2, <1>3, <1>4 DEF Listing

LEMMA DeletesListing ==
  ASSUME Shape, Listing, NEW t \in Threads, NEW as, Deletes(t, as),
         device' = "deleted" => device = "deleted" \/ as = {a \in Addrs : graph[a].st = "listed"}
  PROVE  Listing'
<1>1. \A a \in Addrs : graph'[a].st = "listed" => graph[a].st = "listed" /\ a \notin as
  BY DEF Deletes, Freed, NewGraph
<1>2. OneGraph' /\ (NoGraph => NoGraph')
  BY <1>1 DEF Listing, OneGraph, NoGraph
<1>3. \A u \in Threads : thr'[u].pc = "alloc" => NoGraph
  BY DEF Deletes, Alike, Idle, Listing
<1>4. device' = "deleted" => NoGraph'
  BY <1>1, <1>2 DEF Listing, NoGraph
<1>5. ~Kept'
  BY DEF Deletes, Kept
<1> QED BY <1>2, <1>3, <1>4, <1>5 DEF Listing

LEMMA NextListing ==
  ASSUME Shape, Held, Listing, [Next]_vars
  PROVE  Listing'
<1>1. ASSUME NEW t \in Threads, Call(t)
      PROVE  Listing'
  BY <1>1, CallStep, CallEffect, RegularListing DEF SameStates
<1>2. ASSUME NEW t \in Threads, Dealloc(t)
      PROVE  Listing'
  <2>1. device' = device /\ Deletes(t, {thr[t].g})
    BY <1>2, DeallocEffect
  <2> HIDE DEF Deletes
  <2> QED BY <2>1, DeletesListing
<1>3. ASSUME NEW t \in Threads, RemoveDelete(t)
      PROVE  Listing'
  <2>1. PICK as : Deletes(t, as) /\ as = {a \in Addrs : graph[a].st = "listed"}
    BY <1>3, DeleteEffect
  <2> QED BY <2>1, DeletesListing
<1>4. ASSUME NEW t \in Threads, Alloc(t)
      PROVE  Listing'
  BY <1>4, AllocListing
<1>5. ASSUME NEW t \in Threads, Add(t), device' # device
      PROVE  Listing'
  <2>1. device = "deleted" /\ device' = "listed" /\ devLock' = None /\ graph' = graph
        /\ \A u \in Threads : thr'[u].pc = "alloc" => thr[u].pc = "alloc"
    BY <1>5, AddEffect DEF Home, Idle
  <2>2. ~Kept'
    BY <2>1 DEF Kept
  <2> QED BY <2>1, <2>2 DEF Listing, OneGraph, NoGraph
<1>6. ASSUME NEW t \in Threads, RemoveErase(t)
      PROVE  Listing'
  <2>1. UNCHANGED <<graph, devLock>> /\ (device' # "deleted" \/ device' = device)
    BY <1>6 DEF RemoveErase
  <2>2. (Goto(t, "delete") \/ Return(t)) /\ thr[t].pc = "enter"
    BY <1>6 DEF RemoveErase
  <2>3. \A u \in Threads : /\ thr'[u].pc = "alloc" => thr[u].pc = "alloc"
                           /\ thr[u].pc \in ByDev => thr'[u].pc \in ByDev
    BY <2>2, GotoOnward, ReturnHome DEF Onward, Home, Idle, ByDev
  <2>4. Kept' => Kept
    BY <1>6, <2>3 DEF RemoveErase, Kept, Shape
  <2> QED BY <1>6, <2>1, <2>3, <2>4 DEF RemoveErase, Listing, OneGraph, NoGraph
<1>7. ASSUME NEW t \in Threads, Regular(t), Calm(t)
      PROVE  Listing'
  <2>1. thr'[t].pc = "alloc" => NoGraph
    BY <1>7, ReturnHome, GotoOnward DEF Calm, Home, Idle, Onward, Edge
  <2> QED BY <1>7, <2>1, RegularListing DEF Calm, SameStates
<1>8. ASSUME NEW t \in Threads, Regular(t), Deed(t), ~Alloc(t)
      PROVE  Listing'
  <2>1. thr'[t].pc # "alloc" /\ SameStates
    <3>1. CASE LoadOptions(t)
      BY <3>1, OptionsEffect DEF Home, Idle, Onward, Alone, SameStates
    <3>2. CASE LoadDevice(t) \/ GetLate(t)
      BY <3>2, DeviceEffect, LateEffect DEF Onward, SameStates
    <3>3. CASE LoadSend(t) \/ GetOutput(t)
      BY <3>3, SendEffect, OutputEffect, ZenonT(30) DEF Onward, Alone, SameStates
    <3>4. CASE LoadSendFails(t) \/ LoadCount(t) \/ GetFails(t) \/ GetDrop(t) \/ Option(t)
      BY <3>4, FailEffect, CountEffect, FailsEffect, DropEffect, OptionEffect
         DEF Home, Idle, Alone, SameStates
    <3>5. CASE GetAux(t)
      BY <3>5, AuxEffect DEF Home, Idle, Alone, SameStates
    <3>6. CASE Reset(t)
      BY <3>6, ResetEffect DEF Home, Idle, SameStates
    <3> QED BY <1>8, <3>1, <3>2, <3>3, <3>4, <3>5, <3>6 DEF Deed
  <2> QED BY <1>8, <2>1, RegularListing
<1>9. ASSUME NEW t \in Threads, Load(t) \/ Get(t)
      PROVE  Listing'
  <2>1. Regular(t) /\ (Calm(t) \/ Deed(t))
    BY <1>9, LoadStep, GetStep, LoadKinds, GetKinds
  <2> QED BY <1>4, <1>7, <1>8, <2>1
<1>10. ASSUME NEW t \in Threads, Graphs(t)
       PROVE  Listing'
  BY <1>2, <1>4, <1>7, <1>8, <1>10, GraphsStep, GraphsKinds
<1>11. ASSUME NEW t \in Threads, Devices(t)
       PROVE  Listing'
  <2>1. ASSUME ResetEnter(t) \/ Reset(t)
        PROVE  Listing'
    <3>1. Regular(t)
      BY <2>1, ResetStep
    <3>2. CASE Reset(t)
      BY <3>1, <3>2, <1>4, <1>8 DEF Deed
    <3>3. CASE ResetEnter(t)
      <4>1. Calm(t)
        BY <3>3 DEF ResetEnter, Calm, Edge, ByList
      <4> QED BY <3>1, <4>1, <1>7
    <3> QED BY <2>1, <3>2, <3>3
  <2>2. ASSUME Add(t), device' = device
        PROVE  Listing'
    <3>1. /\ UNCHANGED <<graph, devLock>> \/ devLock' = None
          /\ graph' = graph /\ \A u \in Threads \ {t} : thr'[u] = thr[u]
          /\ thr[t].pc = "enter" /\ thr'[t].pc = "idle"
      BY <2>2, AddEffect DEF Home, Idle, Add
    <3>2. Kept' => Kept
      BY <3>1 DEF Kept, ByDev, Shape
    <3> QED BY <2>2, <3>1, <3>2 DEF Listing, OneGraph, NoGraph
  <2> QED BY <1>3, <1>5, <1>6, <1>11, <2>1, <2>2 DEF Devices
<1>12. CASE StickDone \/ UNCHANGED vars
  BY <1>12 DEF StickDone, vars, Listing, OneGraph, NoGraph, Kept
<1> QED BY <1>1, <1>9, <1>10, <1>11, <1>12 DEF Next, Inside

-----------------------------------------------------------------------------
(* The operations of the threads, and the options before the first tensor.   *)

\* Every step keeps the usage; the other threads stay where they are, and t is in the
\* operation that its place says.
LEMMA NextDoing ==
  ASSUME Shape, Held, Doing, [Next]_vars
  PROVE  usage' = usage /\ Doing'
<1> DEFINE D(u) ==
      /\ thr[u].op \in usage.ops[u] \cup {"NONE", "DEBUG"}
      /\ thr[u].pc \in OfLoad => thr[u].op = "LOAD"
      /\ thr[u].pc \in OfGet => thr[u].op = "GET"
      /\ thr[u].pc = "reset" => thr[u].op = "RESET"
<1>1. ASSUME NEW t \in Threads, usage' = usage,
             \A u \in Threads \ {t} : thr'[u].pc = thr[u].pc /\ thr'[u].op = thr[u].op,
             D(t)'
      PROVE  usage' = usage /\ Doing'
  BY <1>1 DEF Doing
<1>2. ASSUME NEW t \in Threads, usage' = usage, Home(t)
      PROVE  usage' = usage /\ Doing'
  <2>1. D(t)'
    BY <1>2 DEF Home, Idle, OfLoad, OfGet
  <2> HIDE DEF D
  <2> QED BY <1>1, <1>2, <2>1 DEF Home
<1>3. ASSUME NEW t \in Threads, NEW pc, usage' = usage, Onward(t, pc),
             pc \in OfLoad => thr[t].op = "LOAD", pc \in OfGet => thr[t].op = "GET",
             pc = "reset" => thr[t].op = "RESET"
      PROVE  usage' = usage /\ Doing'
  <2>1. D(t)'
    BY <1>3 DEF Onward, Doing
  <2> HIDE DEF D
  <2> QED BY <1>1, <1>3, <2>1 DEF Onward
<1>4. ASSUME NEW t \in Threads, Call(t)
      PROVE  usage' = usage /\ Doing'
  <2>1. D(t)'
    BY <1>4, CallEffect DEF OfLoad, OfGet
  <2> HIDE DEF D
  <2> QED BY <1>1, <1>4, <2>1, CallEffect
<1>5. ASSUME NEW t \in Threads, Calm(t)
      PROVE  usage' = usage /\ Doing'
  <2>1. CASE Return(t)
    BY <1>2, <1>5, <2>1, ReturnHome DEF Calm
  <2>2. ASSUME NEW pc \in ByList \cup ByDev \cup Elsewhere, Goto(t, pc), Edge(t, pc)
        PROVE  usage' = usage /\ Doing'
    <3>1. /\ pc \in OfLoad => thr[t].op = "LOAD"
          /\ pc \in OfGet => thr[t].op = "GET"
          /\ pc = "reset" => thr[t].op = "RESET"
      BY <2>2 DEF Edge, OfLoad, OfGet, Doing
    <3> QED BY <1>3, <1>5, <2>2, <3>1, GotoOnward DEF Calm
  <2> QED BY <1>5, <2>1, <2>2 DEF Calm
<1>6. ASSUME NEW t \in Threads, Deed(t)
      PROVE  usage' = usage /\ Doing'
  <2>1. CASE LoadOptions(t)
    BY <1>2, <1>3, <2>1, OptionsEffect DEF OfLoad, OfGet, Doing
  <2>2. CASE LoadDevice(t)
    BY <1>3, <2>2, DeviceEffect DEF OfLoad, OfGet, Doing
  <2>3. CASE LoadSend(t)
    BY <1>3, <2>3, SendEffect DEF OfLoad, OfGet, Doing
  <2>4. CASE GetOutput(t)
    BY <1>3, <2>4, OutputEffect DEF OfLoad, OfGet, Doing
  <2>5. CASE GetLate(t)
    BY <1>3, <2>5, LateEffect DEF OfLoad, OfGet, Doing
  <2>6. CASE GetAux(t)
    <3>1. CASE Home(t)
      BY <1>2, <2>6, <3>1, AuxEffect
    <3>2. CASE ~Home(t)
      <4>1. D(t)'
        BY <2>6, <3>2, AuxEffect DEF OfLoad, OfGet
      <4> HIDE DEF D
      <4> QED BY <1>1, <2>6, <3>2, <4>1, AuxEffect
    <3> QED BY <3>1, <3>2
  <2>7. CASE LoadSendFails(t) \/ LoadCount(t) \/ GetFails(t) \/ GetDrop(t)
             \/ Alloc(t) \/ Option(t) \/ Reset(t)
    BY <1>2, <2>7, FailEffect, CountEffect, FailsEffect, DropEffect, AllocEffect,
       OptionEffect, ResetEffect
  <2> QED BY <1>6, <2>1, <2>2, <2>3, <2>4, <2>5, <2>6, <2>7 DEF Deed
<1>7. ASSUME NEW t \in Threads, NEW as, Deletes(t, as)
      PROVE  usage' = usage /\ Doing'
  <2>1. D(t)'
    BY <1>7 DEF Deletes, Idle, OfLoad, OfGet
  <2> HIDE DEF D
  <2> QED BY <1>1, <1>7, <2>1 DEF Deletes, Alike
<1>8. CASE StickDone \/ UNCHANGED vars
  BY <1>8 DEF StickDone, vars, Doing
<1> QED BY <1>2, <1>4, <1>5, <1>6, <1>7, <1>8, Kinds, DeallocEffect, DeleteEffect, AddEffect

\* The same of any step.
LEMMA KeptFrom ==
  ASSUME Shape, Held, [Next]_vars, Kept', ~Kept
  PROVE  \E t \in Threads : thr[t].pc \in ByDev
<1>1. ASSUME NEW t \in Threads, Regular(t)
      PROVE  thr[t].pc \in ByDev
  BY <1>1, RegularKept
<1>2. ASSUME NEW t \in Threads, Dealloc(t) \/ RemoveDelete(t)
      PROVE  FALSE
  BY <1>2, DeallocEffect, DeleteEffect DEF Deletes, Kept
<1>3. ASSUME NEW t \in Threads, Add(t)
      PROVE  FALSE
  <2>1. devLock' = devLock \/ devLock' = None
    BY <1>3, AddEffect
  <2>2. thr[t].pc = "enter" /\ \A u \in Threads \ {t} : thr'[u] = thr[u]
    BY <1>3, AddEffect DEF Add, Home
  <2> QED BY <2>1, <2>2 DEF Kept, ByDev, Shape
<1>4. ASSUME NEW t \in Threads, RemoveErase(t)
      PROVE  FALSE
  <2>1. devLock' = devLock /\ thr[t].pc = "enter" /\ (Goto(t, "delete") \/ Return(t))
    BY <1>4 DEF RemoveErase
  <2>2. \A u \in Threads \ {t} : thr'[u] = thr[u]
    BY <2>1, GotoOnward, ReturnHome DEF Onward, Home
  <2> QED BY <2>1, <2>2 DEF Kept, ByDev, Shape
<1>5. CASE StickDone \/ UNCHANGED vars
  BY <1>5 DEF StickDone, vars, Kept
<1> QED BY <1>1, <1>2, <1>3, <1>4, <1>5, CallStep, LoadStep, GetStep, GraphsStep, ResetStep
        DEF Next, Inside, Devices

\* While a graph is listed no other is, and its options stay sent.
LEMMA ListedStays ==
  ASSUME Shape, Held, Listing, [Next]_vars, ~NoGraph, NEW a \in Addrs,
         graph'[a].st = "listed"
  PROVE  graph[a].st = "listed" /\ (graph[a].started => graph'[a].started)
<1>1. ASSUME NEW t \in Threads, Calm(t) \/ Call(t)
      PROVE  graph' = graph
  BY <1>1, CallEffect DEF Calm
<1>2. ASSUME NEW t \in Threads, Alloc(t)
      PROVE  FALSE
  BY <1>2, AllocEffect DEF Listing
<1>3. ASSUME NEW t \in Threads, Deed(t), ~Alloc(t)
      PROVE  graph[a].st = "listed" /\ (graph[a].started => graph'[a].started)
  <2>1. CASE LoadOptions(t)
    BY <2>1, OptionsEffect DEF Alone
  <2>2. CASE LoadDevice(t) \/ GetLate(t)
    BY <2>2, DeviceEffect, LateEffect
  <2>3. CASE LoadSend(t) \/ GetOutput(t) \/ LoadSendFails(t) \/ LoadCount(t)
    <3>1. Alone(thr[t].g) /\ graph'[thr[t].g].started = graph[thr[t].g].started
      BY <2>3, SendEffect, OutputEffect, FailEffect, CountEffect DEF G
    <3> QED BY <3>1 DEF Alone
  <2>4. CASE GetFails(t) \/ GetDrop(t) \/ Option(t) \/ GetAux(t)
    BY <2>4, FailsEffect, DropEffect, OptionEffect, AuxEffect DEF Alone, G
  <2>5. CASE Reset(t)
    BY <2>5, ResetEffect
  <2> QED BY <1>3, <2>1, <2>2, <2>3, <2>4, <2>5 DEF Deed
<1>4. ASSUME NEW t \in Threads, NEW as, Deletes(t, as)
      PROVE  graph'[a] = graph[a]
  BY <1>4 DEF Deletes, Freed, NewGraph
<1>5. CASE StickDone \/ UNCHANGED vars
  BY <1>5 DEF StickDone, vars
<1> QED BY <1>1, <1>2, <1>3, <1>4, <1>5, Kinds, DeallocEffect, DeleteEffect, AddEffect

\* What a step leaves of a graph in the list, as far as Begun looks at it.
LEMMA NextBegun ==
  ASSUME Shape, Held, Listing, Begun, [Next]_vars, usage' = usage
  PROVE  Begun'
<1> SUFFICES ASSUME ~usage.reuse
             PROVE  /\ \A t \in Threads : thr'[t].pc = "opt" => ~G(t)'.started
                    /\ \A t \in Threads : thr'[t].pc \in Past =>
                         /\ thr'[t].g \in Addrs
                         /\ G(t)'.st = "freed" \/ (G(t)'.st = "listed" /\ G(t)'.started)
                    /\ \A a \in Addrs :
                         graph'[a].st = "listed" /\ graph'[a].have # 0 => graph'[a].started
                    /\ Kept' => \A a \in Addrs :
                                 graph'[a].st = "listed" => graph'[a].started
  BY DEF Begun
<1> DEFINE Ok(u) == /\ thr[u].pc = "opt" => ~G(u).started
                    /\ thr[u].pc \in Past =>
                         /\ thr[u].g \in Addrs
                         /\ G(u).st = "freed" \/ (G(u).st = "listed" /\ G(u).started)
           Fine == \A a \in Addrs :
                     graph[a].st = "listed" /\ graph[a].have # 0 => graph[a].started
           Before == \A u \in Threads : Ok(u)
<1>0. Before /\ Fine
  BY DEF Begun
<1> DEFINE Safe == Kept' => \A a \in Addrs : graph'[a].st = "listed" => graph'[a].started
<1>1. \A u \in Threads : thr[u].pc = "opt" => thr[u].g \in Addrs
  BY DEF Held, OnListed, OnGraph
\* Threads whose place and graph stay, while the graphs in the list and the freed
\* ones are what they were to them.
<1>2. ASSUME NEW t \in Threads, \A u \in Threads \ {t} : Alike(u),
             \A a \in Addrs : graph'[a].st = graph[a].st /\ graph'[a].started = graph[a].started
      PROVE  \A u \in Threads \ {t} : Ok(u)'
  BY <1>0, <1>1, <1>2 DEF Alike, G, Past
<1>3. ASSUME NEW t \in Threads, \A u \in Threads \ {t} : thr'[u] = thr[u]
      PROVE  \A u \in Threads \ {t} : Alike(u)
  BY <1>3 DEF Alike
<1>4. ASSUME NEW t \in Threads, Home(t)
      PROVE  Ok(t)'
  BY <1>4 DEF Home, Idle, Past, OfLoad, OfGet
<1>5. ASSUME NEW t \in Threads, Alone(thr[t].g), graph'[thr[t].g].started = G(t).started
      PROVE  \A a \in Addrs : /\ graph'[a].st = graph[a].st
                              /\ graph'[a].started = graph[a].started
  BY <1>5 DEF Alone, G
<1>6. ASSUME NEW t \in Threads, thr[t].pc \in Past, thr[t].pc \in OnGraph
      PROVE  thr[t].g \in Addrs /\ G(t).st = "listed" /\ G(t).started
  BY <1>0, <1>6 DEF Held, OnListed, G
<1>7. ASSUME NEW t \in Threads, NEW pc \in Past, Onward(t, pc), thr[t].g \in Addrs,
             graph'[thr[t].g].st = "listed", graph'[thr[t].g].started
      PROVE  Ok(t)'
  BY <1>7 DEF Onward, G, Past, OfLoad, OfGet
<1>8. ASSUME NEW t \in Threads, Calm(t)
      PROVE  (\A u \in Threads : Ok(u)') /\ Fine'
  <2>1. graph' = graph /\ Fine'
    BY <1>0, <1>8 DEF Calm
  <2>2. CASE Return(t)
    <3>1. Home(t)
      BY <2>2, ReturnHome
    <3>2. Ok(t)'
      BY <3>1, <1>4
    <3>3. \A u \in Threads \ {t} : Ok(u)'
      BY <1>2, <1>3, <2>1, <3>1 DEF Home
    <3> QED BY <2>1, <3>2, <3>3
  <2>3. ASSUME NEW pc \in ByList \cup ByDev \cup Elsewhere, Goto(t, pc), Edge(t, pc)
        PROVE  (\A u \in Threads : Ok(u)') /\ Fine'
    <3>1. Onward(t, pc)
      BY <2>3, GotoOnward
    <3>2. \A u \in Threads \ {t} : Ok(u)'
      BY <1>2, <1>3, <2>1, <3>1 DEF Onward
    <3>3. pc = "opt" => ~G(t).started
      BY <2>3 DEF Edge
    <3>4. pc \in Past => /\ thr[t].g \in Addrs
                         /\ G(t).st = "freed" \/ (G(t).st = "listed" /\ G(t).started)
      <4>1. pc \in Past =>
              \/ thr[t].pc \in Past
              \/ Exists(thr[t].g) /\ G(t).started
              \/ thr[t].pc = "getTest" /\ G(t).have # 0
        BY <2>3 DEF Edge, Past, OfLoad, OfGet
      <4>2. thr[t].pc = "getTest" => thr[t].g \in Addrs /\ G(t).st = "listed"
        BY DEF Held, OnListed, OnGraph, G
      <4>3. Exists(thr[t].g) => thr[t].g \in Addrs /\ G(t).st = "listed"
        BY DEF Exists, Shape, ThreadType, G
      <4> QED BY <1>0, <4>1, <4>2, <4>3 DEF G
    <3>5. Ok(t)'
      BY <2>1, <3>1, <3>3, <3>4 DEF Onward, G
    <3> QED BY <2>1, <3>2, <3>5
  <2> QED BY <1>8, <2>2, <2>3 DEF Calm
<1>9. ASSUME NEW t \in Threads, Call(t)
      PROVE  (\A u \in Threads : Ok(u)') /\ Fine'
  <2>1. Ok(t)' /\ graph' = graph /\ \A u \in Threads \ {t} : thr'[u] = thr[u]
    BY <1>9, CallEffect DEF Past, OfLoad, OfGet
  <2>2. \A u \in Threads \ {t} : Ok(u)'
    BY <1>2, <1>3, <2>1
  <2> QED BY <1>0, <2>1, <2>2
\* A deed on a started graph, after which t is home.
<1>10. ASSUME NEW t \in Threads, Home(t), Alone(thr[t].g),
              graph'[thr[t].g].started = G(t).started,
              graph'[thr[t].g].have = G(t).have \/ thr[t].pc \in Past \cap OnGraph
       PROVE  (\A u \in Threads : Ok(u)') /\ Fine'
  <2>1. Ok(t)'
    BY <1>4, <1>10
  <2>2. \A a \in Addrs : graph'[a].st = graph[a].st /\ graph'[a].started = graph[a].started
    BY <1>5, <1>10
  <2>3. \A u \in Threads \ {t} : Ok(u)'
    BY <1>2, <1>3, <1>10, <2>2 DEF Home
  <2>4. Fine'
    BY <1>0, <1>6, <1>10, <2>2 DEF Alone, G
  <2> QED BY <2>1, <2>3, <2>4
\* A deed after which t goes on on its started graph.
<1>11. ASSUME NEW t \in Threads, NEW pc \in Past, Onward(t, pc), thr[t].pc \in Past \cap OnGraph,
              graph' = graph \/ (/\ Alone(thr[t].g)
                                 /\ graph'[thr[t].g].started = G(t).started
                                 /\ graph'[thr[t].g].have = G(t).have)
       PROVE  (\A u \in Threads : Ok(u)') /\ Fine'
  <2>1. thr[t].g \in Addrs /\ G(t).st = "listed" /\ G(t).started
    BY <1>6, <1>11
  <2>2. \A a \in Addrs : /\ graph'[a].st = graph[a].st /\ graph'[a].started = graph[a].started
                         /\ graph'[a].have = graph[a].have
    BY <1>5, <1>11 DEF Alone, G
  <2>3. Ok(t)'
    BY <1>7, <1>11, <2>1, <2>2 DEF G
  <2>4. \A u \in Threads \ {t} : Ok(u)'
    BY <1>2, <1>3, <1>11, <2>2 DEF Onward
  <2>5. Fine'
    BY <1>0, <2>2
  <2> QED BY <2>3, <2>4, <2>5
<1>12. ASSUME NEW t \in Threads, Deed(t)
       PROVE  (\A u \in Threads : Ok(u)') /\ Fine'
  <2>1. CASE LoadOptions(t)
    <3>1. CASE Home(t) /\ graph' = graph
      <4>1. Ok(t)' /\ \A u \in Threads \ {t} : Ok(u)'
        BY <1>2, <1>3, <1>4, <3>1 DEF Home
      <4> QED BY <1>0, <3>1, <4>1
    <3>2. CASE /\ Onward(t, "test") /\ Alone(thr[t].g) /\ graph'[thr[t].g].started
               /\ Pipes(graph'[thr[t].g]) = Pipes(G(t))
      <4>1. Ok(t)'
        BY <1>7, <3>2 DEF Alone, Past, OfLoad, OfGet
      <4>2. \A a \in Addrs : graph'[a].st = graph[a].st /\ (graph[a].started => graph'[a].started)
        BY <3>2 DEF Alone
      <4>3. ASSUME NEW u \in Threads \ {t}, thr[u].pc = "opt"
            PROVE  FALSE
        <5>1. Kept
          BY <2>1, <4>3, OptionsEffect DEF Held, HasList, ByList
        <5>2. thr[u].g \in Addrs /\ graph[thr[u].g].st = "listed" /\ ~graph[thr[u].g].started
          BY <1>0, <4>3 DEF Held, OnListed, OnGraph, G
        <5> QED BY <5>1, <5>2 DEF Begun
      <4>4. \A u \in Threads \ {t} : Ok(u)'
        BY <1>0, <1>1, <3>2, <4>2, <4>3 DEF Onward, G, Past
      <4>5. Fine'
        BY <1>0, <3>2, <4>2 DEF Alone, G, Pipes
      <4> QED BY <4>1, <4>4, <4>5
    <3> QED BY <2>1, <3>1, <3>2, OptionsEffect
  <2>2. CASE LoadDevice(t)
    BY <1>11, <2>2, DeviceEffect DEF Past, OfLoad, OfGet, OnGraph
  <2>3. CASE LoadSend(t)
    BY <1>11, <2>3, SendEffect DEF Past, OfLoad, OfGet, OnGraph
  <2>4. CASE GetOutput(t)
    BY <1>11, <2>4, OutputEffect DEF Past, OfLoad, OfGet, OnGraph, Pipes
  <2>5. CASE LoadSendFails(t) \/ LoadCount(t) \/ GetFails(t) \/ GetDrop(t)
    BY <1>10, <2>5, FailEffect, CountEffect, FailsEffect, DropEffect
       DEF Past, OfLoad, OfGet, OnGraph
  <2>6. CASE GetAux(t)
    <3>1. thr[t].pc \in Past \cap OnGraph /\ Alone(thr[t].g)
          /\ graph'[thr[t].g].started = G(t).started
      BY <2>6, AuxEffect DEF Past, OfLoad, OfGet, OnGraph
    <3>2. CASE Home(t)
      BY <1>10, <3>1, <3>2
    <3>3. CASE ~Home(t)
      <4>1. Ok(t)' /\ \A u \in Threads \ {t} : thr'[u] = thr[u]
        BY <2>6, <3>3, AuxEffect DEF Past, OfLoad, OfGet
      <4>2. \A a \in Addrs : graph'[a].st = graph[a].st /\ graph'[a].started = graph[a].started
        BY <1>5, <3>1
      <4>3. \A u \in Threads \ {t} : Ok(u)'
        BY <1>2, <1>3, <4>1, <4>2
      <4>4. Fine'
        BY <1>0, <1>6, <3>1, <4>2 DEF Alone, G
      <4> QED BY <4>1, <4>3, <4>4
    <3> QED BY <3>2, <3>3
  <2>7. CASE GetLate(t)
    <3>1. thr[t].pc = "getRetry" /\ Onward(t, "drop") /\ graph' = graph
          /\ thr[t].g \in Addrs /\ G(t).st = "listed"
      BY <2>7, LateEffect
    <3>2. G(t).started
      BY <1>0, <3>1 DEF Past, OfLoad, OfGet
    <3>3. Ok(t)'
      BY <1>7, <3>1, <3>2 DEF Past, OfLoad, OfGet, G
    <3>4. \A u \in Threads \ {t} : Ok(u)'
      BY <1>2, <1>3, <3>1 DEF Onward
    <3> QED BY <1>0, <3>1, <3>3, <3>4
  <2>8. CASE Alloc(t)
    <3>1. Home(t)
      BY <2>8, AllocEffect
    <3>2. CASE graph' = graph
      <4>1. Ok(t)' /\ \A u \in Threads \ {t} : Ok(u)'
        BY <1>2, <1>3, <1>4, <3>1, <3>2 DEF Home
      <4> QED BY <1>0, <3>2, <4>1
    <3>3. CASE \E a \in Addrs : /\ graph[a].st = "unused" /\ graph'[a] = NewGraph
                                /\ \A b \in Addrs \ {a} : graph'[b] = graph[b]
      <4>1. Ok(t)'
        BY <1>4, <3>1
      <4>2. \A u \in Threads \ {t} : Ok(u)'
        <5>1. \A u \in Threads : thr[u].pc = "opt" => G(u).st = "listed"
          BY DEF Held, OnListed, OnGraph
        <5> QED BY <1>0, <1>1, <3>1, <3>3, <5>1 DEF Home, G, Past
      <4>3. Fine'
        BY <1>0, <3>3 DEF NewGraph
      <4> QED BY <4>1, <4>2, <4>3
    <3> QED BY <2>8, <3>2, <3>3, AllocEffect
  <2>9. CASE Option(t)
    BY <1>10, <2>9, OptionEffect DEF Pipes
  <2>10. CASE Reset(t)
    <3>1. Ok(t)' /\ \A u \in Threads \ {t} : Ok(u)'
      BY <1>2, <1>3, <1>4, <2>10, ResetEffect DEF Home
    <3>2. Fine'
      BY <1>0, <2>10, ResetEffect DEF Pipes
    <3> QED BY <3>1, <3>2
  <2> QED BY <1>12, <2>1, <2>2, <2>3, <2>4, <2>5, <2>6, <2>7, <2>8, <2>9, <2>10 DEF Deed
<1>13. ASSUME NEW t \in Threads, NEW as, Deletes(t, as)
       PROVE  (\A u \in Threads : Ok(u)') /\ Fine'
  <2>1. Ok(t)'
    BY <1>13 DEF Deletes, Idle, Past, OfLoad, OfGet
  <2>2. \A a \in Addrs : graph'[a] = graph[a] \/ graph'[a].st = "freed"
    BY <1>13 DEF Deletes, Freed, NewGraph
  <2>3. \A u \in Threads \ {t} : Ok(u)'
    <3>1. \A u \in Threads \ {t} : thr[u].pc # "opt" /\ Alike(u)
      BY <1>13 DEF Deletes, OnGraph
    <3> QED BY <1>0, <2>2, <3>1 DEF Alike, G
  <2>4. Fine'
    BY <1>0, <2>2
  <2> QED BY <2>1, <2>3, <2>4
<1>14. ASSUME NEW t \in Threads, Add(t)
       PROVE  (\A u \in Threads : Ok(u)') /\ Fine'
  <2>1. Home(t) /\ graph' = graph
    BY <1>14, AddEffect
  <2>2. Ok(t)' /\ \A u \in Threads \ {t} : Ok(u)'
    BY <1>2, <1>3, <1>4, <2>1 DEF Home
  <2> QED BY <1>0, <2>1, <2>2
<1>15. ASSUME StickDone \/ UNCHANGED vars
       PROVE  (\A u \in Threads : Ok(u)') /\ Fine'
  BY <1>0, <1>15 DEF StickDone, vars, G
<1>16. (\A u \in Threads : Ok(u)') /\ Fine'
  BY <1>8, <1>9, <1>12, <1>13, <1>14, <1>15, Kinds, DeallocEffect, DeleteEffect
<1>17. Safe
  <2> SUFFICES ASSUME Kept'
               PROVE  ~NoGraph /\ \A a \in Addrs : graph[a].st = "listed" => graph[a].started
    BY ListedStays
  <2>1. CASE Kept
    BY <2>1 DEF Begun, Listing
  <2>2. CASE ~Kept
    <3>1. PICK t \in Threads : thr[t].pc \in ByDev
      BY <2>2, KeptFrom
    <3>2. thr[t].g \in Addrs /\ graph[thr[t].g].st = "listed" /\ graph[thr[t].g].started
      BY <1>6, <3>1 DEF ByDev, OnGraph, Past, OfLoad, OfGet, G
    <3> QED BY <3>2 DEF NoGraph, Listing, OneGraph
  <2> QED BY <2>1, <2>2
<1> QED BY <1>16, <1>17

-----------------------------------------------------------------------------
(* The bound of have_data.                                                   *)

\* A graph that a thread is past the options of was used before.
LEMMA PastUsed ==
  ASSUME Begun, ~usage.reuse, NEW t \in Threads, thr[t].pc \in Past
  PROVE  thr[t].g \in Addrs /\ G(t).st # "unused"
  BY DEF Begun

LEMMA NextCounted ==
  ASSUME Shape, Held, Doing, Begun, Counted, [Next]_vars, usage' = usage
  PROVE  Counted'
<1> SUFFICES ASSUME OneLoads, OneGets, ~usage.reuse
             PROVE  /\ \A a \in Addrs : graph'[a].have \in 0..2
                    /\ \A t \in Threads : thr'[t].seen \in 0..2
                    /\ \A t \in Threads :
                         /\ thr'[t].pc \in {"loadDev", "send"} => G(t)'.have # 2
                         /\ thr'[t].pc = "count" => thr'[t].seen # 2
                         /\ thr'[t].pc = "drop" => thr'[t].seen # 0
                    /\ \A t \in Threads :
                         thr'[t].pc \in {"getDev", "getRetry", "output", "aux", "drop"} =>
                           thr'[t].g \in Addrs /\ (G(t)'.st = "listed" => G(t)'.have # 0)
  BY DEF Counted, OneLoads, OneGets
<1> DEFINE Has == \A a \in Addrs : graph[a].have \in 0..2
           Getting == {"getDev", "getRetry", "output", "aux", "drop"}
           Lim(u) == /\ thr[u].seen \in 0..2
                     /\ thr[u].pc \in {"loadDev", "send"} => G(u).have # 2
                     /\ thr[u].pc = "count" => thr[u].seen # 2
                     /\ thr[u].pc = "drop" => thr[u].seen # 0
                     /\ thr[u].pc \in Getting =>
                          thr[u].g \in Addrs /\ (G(u).st = "listed" => G(u).have # 0)
           Goal == Has' /\ \A u \in Threads : Lim(u)'
<1>0. Has /\ \A u \in Threads : Lim(u)
  BY DEF Counted
<1> SUFFICES Goal
  OBVIOUS
<1> HIDE DEF Goal
<1>1. \A u \in Threads : thr[u].pc \in {"loadDev", "send", "output", "aux", "drop", "getDev"} =>
        thr[u].g \in Addrs /\ G(u).st = "listed"
  BY DEF Held, OnListed, OnGraph
\* One loader and one getter.
<1>2. \A s, t \in Threads : thr[s].pc \in OfLoad /\ thr[t].pc \in OfLoad => s = t
  BY DEF Doing, OneLoads
<1>3. \A s, t \in Threads : thr[s].pc \in OfGet /\ thr[t].pc \in OfGet => s = t
  BY DEF Doing, OneGets
<1>4. ASSUME NEW t \in Threads, \A u \in Threads \ {t} : Alike(u),
             \A a \in Addrs : graph'[a].st = graph[a].st /\ graph'[a].have = graph[a].have
      PROVE  Has' /\ \A u \in Threads \ {t} : Lim(u)'
  BY <1>0, <1>1, <1>4 DEF Alike, G
<1>5. ASSUME NEW t \in Threads, \A u \in Threads \ {t} : thr'[u] = thr[u]
      PROVE  \A u \in Threads \ {t} : Alike(u)
  BY <1>5 DEF Alike
<1>6. ASSUME NEW t \in Threads, thr'[t] = Idle
      PROVE  Lim(t)'
  BY <1>6 DEF Idle
<1>7. ASSUME NEW t \in Threads, Alone(thr[t].g), graph'[thr[t].g].have = G(t).have
      PROVE  \A a \in Addrs : graph'[a].st = graph[a].st /\ graph'[a].have = graph[a].have
  BY <1>7 DEF Alone, G
\* A step that does not change have_data, after which t is home, and one after which it
\* goes on.
<1>8. ASSUME NEW t \in Threads, Home(t),
             \A a \in Addrs : graph'[a].st = graph[a].st /\ graph'[a].have = graph[a].have
      PROVE  Goal
  BY <1>4, <1>5, <1>6, <1>8 DEF Home, Goal
<1>9. ASSUME NEW t \in Threads, Lim(t)', \A u \in Threads \ {t} : thr'[u] = thr[u],
             \A a \in Addrs : graph'[a].st = graph[a].st /\ graph'[a].have = graph[a].have
      PROVE  Goal
  <2> HIDE DEF Lim, Has
  <2> QED BY <1>4, <1>5, <1>9 DEF Goal
<1>10. ASSUME NEW t \in Threads, Call(t)
       PROVE  Goal
  <2>1. Lim(t)'
    BY <1>10, CallEffect
  <2> HIDE DEF Lim
  <2> QED BY <1>9, <1>10, <2>1, CallEffect
<1>11. ASSUME NEW t \in Threads, Calm(t)
       PROVE  Goal
  <2>1. CASE Return(t)
    BY <1>8, <1>11, <2>1, ReturnHome DEF Calm
  <2>2. ASSUME NEW pc \in ByList \cup ByDev \cup Elsewhere, Goto(t, pc), Edge(t, pc)
        PROVE  Goal
    <3>1. Onward(t, pc) /\ thr'[t].seen = thr[t].seen /\ graph' = graph
      BY <1>11, <2>2, GotoOnward DEF Calm
    <3>2. pc \notin {"count", "drop", "aux", "send"}
      BY <2>2 DEF Edge
    <3>3. pc = "loadDev" => G(t).have # 2
      BY <2>2 DEF Edge
    <3>4. pc \in Getting => thr[t].g \in Addrs /\ (G(t).st = "listed" => G(t).have # 0)
      <4>1. thr[t].pc = "getTest" => thr[t].g \in Addrs
        BY DEF Held, OnListed, OnGraph
      <4> QED BY <1>0, <2>2, <4>1 DEF Edge
    <3>5. Lim(t)'
      BY <1>0, <3>1, <3>2, <3>3, <3>4 DEF Onward, G
    <3> HIDE DEF Lim
    <3> QED BY <1>9, <3>1, <3>5 DEF Onward
  <2> QED BY <1>11, <2>1, <2>2 DEF Calm
<1>12. ASSUME NEW t \in Threads, Deed(t)
       PROVE  Goal
  <2>1. CASE LoadOptions(t)
    <3>1. CASE Home(t) /\ graph' = graph
      BY <1>8, <3>1
    <3>2. CASE /\ Onward(t, "test") /\ thr'[t].seen = thr[t].seen /\ Alone(thr[t].g)
               /\ Pipes(graph'[thr[t].g]) = Pipes(G(t))
      <4>1. Lim(t)'
        BY <1>0, <3>2 DEF Onward
      <4>2. \A a \in Addrs : graph'[a].st = graph[a].st /\ graph'[a].have = graph[a].have
        BY <1>7, <3>2 DEF Pipes
      <4> HIDE DEF Lim
      <4> QED BY <1>9, <3>2, <4>1, <4>2 DEF Onward
    <3> QED BY <2>1, <3>1, <3>2, OptionsEffect
  <2>2. CASE LoadDevice(t)
    <3>1. Lim(t)'
      BY <1>0, <2>2, DeviceEffect DEF Onward, G
    <3> HIDE DEF Lim
    <3> QED BY <1>9, <2>2, <3>1, DeviceEffect DEF Onward
  <2>3. CASE LoadSend(t)
    <3>1. thr[t].pc = "send" /\ Onward(t, "count") /\ thr'[t].seen = G(t).have
          /\ Alone(thr[t].g) /\ graph'[thr[t].g].have = G(t).have
      BY <2>3, SendEffect
    <3>2. Lim(t)'
      BY <1>0, <1>1, <3>1 DEF Onward, G
    <3>3. \A a \in Addrs : graph'[a].st = graph[a].st /\ graph'[a].have = graph[a].have
      BY <1>7, <3>1
    <3> HIDE DEF Lim
    <3> QED BY <1>9, <3>1, <3>2, <3>3 DEF Onward
  <2>4. CASE GetOutput(t)
    <3>1. thr[t].pc = "output" /\ Onward(t, "aux") /\ thr'[t].seen = thr[t].seen
          /\ Alone(thr[t].g) /\ graph'[thr[t].g].have = G(t).have
      BY <2>4, OutputEffect DEF Pipes
    <3>2. Lim(t)'
      BY <1>0, <1>1, <3>1 DEF Onward, G
    <3>3. \A a \in Addrs : graph'[a].st = graph[a].st /\ graph'[a].have = graph[a].have
      BY <1>7, <3>1
    <3> HIDE DEF Lim
    <3> QED BY <1>9, <3>1, <3>2, <3>3 DEF Onward
  <2>5. CASE GetLate(t)
    <3>1. thr[t].pc = "getRetry" /\ Onward(t, "drop") /\ thr'[t].seen = G(t).have
          /\ graph' = graph /\ thr[t].g \in Addrs /\ G(t).st = "listed"
      BY <2>5, LateEffect
    <3>2. Lim(t)'
      BY <1>0, <3>1 DEF Onward, G
    <3> HIDE DEF Lim
    <3> QED BY <1>9, <3>1, <3>2 DEF Onward
  <2>6. CASE LoadSendFails(t) \/ GetFails(t) \/ Option(t)
    <3>1. Home(t) /\ Alone(thr[t].g) /\ graph'[thr[t].g].have = G(t).have
      BY <2>6, FailEffect, FailsEffect, OptionEffect DEF Pipes
    <3> QED BY <1>7, <1>8, <3>1
  <2>7. CASE Reset(t)
    BY <1>8, <2>7, ResetEffect DEF Pipes
\* The steps that change have_data: nobody else loads, or gets a result.
  <2>8. ASSUME Alone(thr[t].g), graph'[thr[t].g].have \in 0..2, Lim(t)',
               \A u \in Threads \ {t} : thr'[u] = thr[u],
               \/ thr[t].pc \in OfLoad /\ graph'[thr[t].g].have # 0
               \/ thr[t].pc \in OfGet /\ graph'[thr[t].g].have # 2
        PROVE  Goal
    <3>1. Has'
      BY <1>0, <2>8 DEF Alone
    <3>2. \A u \in Threads \ {t} : Lim(u)'
      <4> SUFFICES ASSUME NEW u \in Threads \ {t} PROVE Lim(u)'
        OBVIOUS
      <4>1. thr'[u] = thr[u]
        BY <2>8
      <4>2. CASE thr[t].pc \in OfLoad /\ graph'[thr[t].g].have # 0
        <5>1. thr[u].pc \notin {"loadDev", "send", "count"}
          BY <1>2, <4>2 DEF OfLoad
        <5> QED BY <1>0, <2>8, <4>1, <4>2, <5>1 DEF Alone, G
      <4>3. CASE thr[t].pc \in OfGet /\ graph'[thr[t].g].have # 2
        <5>1. thr[u].pc \notin Getting
          BY <1>3, <4>3 DEF OfGet
        <5> QED BY <1>0, <1>1, <2>8, <4>1, <4>3, <5>1 DEF Alone, G
      <4> QED BY <2>8, <4>2, <4>3
    <3>3. Lim(t)'
      BY <2>8
    <3> HIDE DEF Lim
    <3> QED BY <3>1, <3>2, <3>3 DEF Goal
  <2>9. CASE LoadCount(t)
    <3>1. thr[t].pc = "count" /\ Home(t) /\ Alone(thr[t].g)
          /\ graph'[thr[t].g].have = thr[t].seen + 1
      BY <2>9, CountEffect
    <3>2. graph'[thr[t].g].have \in 1..2 /\ Lim(t)'
      BY <1>0, <1>6, <3>1 DEF Home
    <3> HIDE DEF Lim
    <3> QED BY <2>8, <3>1, <3>2 DEF Home, OfLoad
  <2>10. CASE GetDrop(t)
    <3>1. thr[t].pc = "drop" /\ Home(t) /\ Alone(thr[t].g)
          /\ graph'[thr[t].g].have = thr[t].seen - 1
      BY <2>10, DropEffect
    <3>2. graph'[thr[t].g].have \in 0..1 /\ Lim(t)'
      BY <1>0, <1>6, <3>1 DEF Home
    <3> HIDE DEF Lim
    <3> QED BY <2>8, <3>1, <3>2 DEF Home, OfGet
  <2>11. CASE GetAux(t)
    <3>1. thr[t].pc = "aux" /\ Alone(thr[t].g) /\ graph'[thr[t].g].have = G(t).have - 1
      BY <2>11, AuxEffect
    <3>2. \A u \in Threads \ {t} : thr'[u] = thr[u]
      BY <2>11, AuxEffect DEF Home
    <3>3. graph'[thr[t].g].have \in 0..1
      BY <1>0, <1>1, <3>1 DEF G
    <3>4. Lim(t)'
      <4>1. CASE Home(t)
        BY <1>6, <4>1 DEF Home
      <4>2. CASE ~Home(t)
        BY <1>0, <2>11, <4>2, AuxEffect
      <4> QED BY <4>1, <4>2
    <3> HIDE DEF Lim
    <3> QED BY <2>8, <3>1, <3>2, <3>3, <3>4 DEF OfGet
  <2>12. CASE Alloc(t)
    <3>1. CASE graph' = graph
      BY <1>8, <2>12, <3>1, AllocEffect
    <3>2. CASE \E a \in Addrs : /\ graph[a].st = "unused" /\ graph'[a] = NewGraph
                                /\ \A b \in Addrs \ {a} : graph'[b] = graph[b]
      <4>1. PICK a \in Addrs : /\ graph[a].st = "unused" /\ graph'[a] = NewGraph
                               /\ \A b \in Addrs \ {a} : graph'[b] = graph[b]
        BY <3>2
      <4>2. Home(t)
        BY <2>12, AllocEffect
      <4>3. Has'
        BY <1>0, <4>1 DEF NewGraph
      <4>4. Lim(t)'
        BY <1>6, <4>2 DEF Home
      <4>5. \A u \in Threads \ {t} : Lim(u)'
        <5> SUFFICES ASSUME NEW u \in Threads \ {t} PROVE Lim(u)'
          OBVIOUS
        <5>1. thr'[u] = thr[u]
          BY <4>2 DEF Home
        <5>2. thr[u].pc \in {"loadDev", "send"} \cup Getting =>
                thr[u].g \in Addrs /\ thr[u].g # a
          BY <4>1, PastUsed DEF Past, OfLoad, OfGet, G
        <5> QED BY <1>0, <4>1, <5>1, <5>2 DEF G
      <4> HIDE DEF Lim
      <4> QED BY <4>3, <4>4, <4>5 DEF Goal
    <3> QED BY <2>12, <3>1, <3>2, AllocEffect
  <2> QED BY <1>12, <2>1, <2>2, <2>3, <2>4, <2>5, <2>6, <2>7, <2>9, <2>10, <2>11, <2>12
          DEF Deed
<1>13. ASSUME NEW t \in Threads, NEW as, Deletes(t, as)
       PROVE  Goal
  <2>1. \A a \in Addrs : \/ graph'[a] = graph[a]
                         \/ graph'[a].st = "freed" /\ graph'[a].have = 0
    BY <1>13 DEF Deletes, Freed, NewGraph
  <2>2. Has' /\ Lim(t)'
    BY <1>0, <1>6, <1>13, <2>1 DEF Deletes
  <2>3. \A u \in Threads \ {t} : Lim(u)'
    <3>1. \A u \in Threads \ {t} : Alike(u) /\ thr[u].pc \notin {"loadDev", "send"}
      BY <1>13 DEF Deletes, OnGraph
    <3> QED BY <1>0, <2>1, <3>1 DEF Alike, G
  <2> HIDE DEF Lim
  <2> QED BY <2>2, <2>3 DEF Goal
<1>14. ASSUME NEW t \in Threads, Add(t)
       PROVE  Goal
  BY <1>8, <1>14, AddEffect
<1>15. CASE StickDone \/ UNCHANGED vars
  BY <1>0, <1>15 DEF StickDone, vars, G, Goal
<1> QED BY <1>10, <1>11, <1>12, <1>13, <1>14, <1>15, Kinds, DeallocEffect, DeleteEffect

-----------------------------------------------------------------------------
(* Who talks to the stick.                                                   *)

LEMMA TalksAlone ==
  ASSUME Shape, Held, Listing, Doing, Begun, OneResets, ~usage.reuse,
         NEW s \in Threads, NEW t \in Threads,
         thr[s].pc \in Talking, thr[t].pc \in Talking
  PROVE  s = t
<1>1. \A u \in Threads : thr[u].pc \in {"send", "output", "aux"} =>
        /\ devLock = u /\ thr[u].op \in {"LOAD", "GET"} /\ thr[u].op \in usage.ops[u]
        /\ thr[u].g \in Addrs /\ graph[thr[u].g].st = "listed" /\ graph[thr[u].g].started
  <2> SUFFICES ASSUME NEW u \in Threads, thr[u].pc \in {"send", "output", "aux"}
               PROVE  /\ devLock = u /\ thr[u].op \in {"LOAD", "GET"}
                      /\ thr[u].op \in usage.ops[u]
                      /\ thr[u].g \in Addrs /\ graph[thr[u].g].st = "listed"
                      /\ graph[thr[u].g].started
    OBVIOUS
  <2>1. devLock = u
    BY DEF Held, HasDev, ByDev
  <2>2. thr[u].op \in {"LOAD", "GET"} /\ thr[u].op \in usage.ops[u]
    BY DEF Doing, OfLoad, OfGet
  <2>3. thr[u].g \in Addrs /\ graph[thr[u].g].st = "listed"
    BY DEF Held, OnListed, OnGraph, G
  <2>4. graph[thr[u].g].started
    BY <2>3 DEF Begun, Past, OfLoad, OfGet, G
  <2> QED BY <2>1, <2>2, <2>3, <2>4
<1>2. \A u \in Threads : thr[u].pc = "opt" =>
        /\ thr[u].g \in Addrs /\ graph[thr[u].g].st = "listed" /\ ~graph[thr[u].g].started
        /\ ~Kept /\ lock = u
  <2> SUFFICES ASSUME NEW u \in Threads, thr[u].pc = "opt"
               PROVE  /\ thr[u].g \in Addrs /\ graph[thr[u].g].st = "listed"
                      /\ ~graph[thr[u].g].started /\ ~Kept /\ lock = u
    OBVIOUS
  <2>1. thr[u].g \in Addrs /\ graph[thr[u].g].st = "listed"
    BY DEF Held, OnListed, OnGraph, G
  <2>2. ~graph[thr[u].g].started
    BY DEF Begun, G
  <2>3. ~Kept
    BY <2>1, <2>2 DEF Begun
  <2> QED BY <2>1, <2>2, <2>3 DEF Held, HasList, ByList
<1>3. \A u \in Threads : thr[u].pc = "alloc" => NoGraph /\ ~Kept /\ lock = u
  BY DEF Listing, Held, HasList, ByList
<1>4. \A u \in Threads : thr[u].pc = "reset" =>
        "RESET" \in usage.ops[u] /\ (Kept \/ lock = u)
  BY DEF Doing, Held, HasList, ByList
<1>5. \A u, v \in Threads : thr[u].pc = "opt" /\ thr[v].pc \in Talking => u = v
  BY <1>1, <1>2, <1>3, <1>4 DEF Talking, Listing, OneGraph, NoGraph
<1>6. \A u, v \in Threads : thr[u].pc = "alloc" /\ thr[v].pc \in Talking => u = v
  BY <1>1, <1>2, <1>3, <1>4 DEF Talking, NoGraph
<1>7. \A u, v \in Threads :
        thr[u].pc = "reset" /\ thr[v].pc \in {"reset", "send", "output", "aux"} => u = v
  <2> SUFFICES ASSUME NEW u \in Threads, NEW v \in Threads, thr[u].pc = "reset",
                      thr[v].pc \in {"reset", "send", "output", "aux"}
               PROVE  u = v
    OBVIOUS
  <2>1. usage.ops[v] \cap {"LOAD", "GET", "RESET"} # {}
    BY <1>1, <1>4
  <2> QED BY <1>4, <2>1 DEF OneResets
<1> QED BY <1>1, <1>5, <1>6, <1>7 DEF Talking

-----------------------------------------------------------------------------
(* The numbers of the tensors.                                               *)

LEMMA NextNewer ==
  ASSUME Shape, Held, Listing, Doing, Newer, [Next]_vars, usage' = usage
  PROVE  Newer'
<1> DEFINE Old == \A a \in Addrs, i \in {0, 1} : graph[a].param[i] <= loads
           New(u) == /\ thr[u].op = "LOAD" => thr[u].n # 0 /\ thr[u].n <= loads
                     /\ thr[u].op = "LOAD" /\ thr[u].pc \in Waits =>
                          \A a \in Addrs, i \in {0, 1} : graph[a].param[i] < thr[u].n
                     /\ thr[u].pc = "count" =>
                          /\ G(u).param[1 - G(u).inIdx] = thr[u].n
                          /\ G(u).param[G(u).inIdx] # thr[u].n
           Goal == Old' /\ \A u \in Threads : New(u)'
<1> SUFFICES ASSUME OneLoads
             PROVE  Goal
  BY DEF Newer, OneLoads
<1>0. Old /\ \A u \in Threads : New(u)
  BY DEF Newer
<1> HIDE DEF Goal
<1>1. \A s, t \in Threads : thr[s].op = "LOAD" /\ thr[t].op = "LOAD" => s = t
  BY DEF Doing, OneLoads
<1>2. \A u \in Threads : thr[u].pc = "count" =>
        thr[u].g \in Addrs /\ graph[thr[u].g].st = "listed" /\ thr[u].op = "LOAD"
  BY DEF Held, OnListed, OnGraph, G, Doing, OfLoad
<1>3. /\ loads \in Nat /\ \A u \in Threads : thr[u].n \in Nat
      /\ \A a \in Addrs : /\ graph[a].inIdx \in {0, 1}
                          /\ graph[a].param[0] \in Nat /\ graph[a].param[1] \in Nat
  BY MvNcAssumption DEF Shape, GraphType, ThreadType, Numbers
<1> DEFINE SameParams ==
      \A a \in Addrs : graph'[a].param = graph[a].param /\ graph'[a].inIdx = graph[a].inIdx
<1>4. ASSUME NEW t \in Threads, \A u \in Threads \ {t} : Alike(u), SameParams,
             loads' = loads \/ loads' = loads + 1
      PROVE  Old' /\ \A u \in Threads \ {t} : New(u)'
  BY <1>0, <1>2, <1>3, <1>4 DEF Alike, G
<1>5. ASSUME NEW t \in Threads, \A u \in Threads \ {t} : thr'[u] = thr[u]
      PROVE  \A u \in Threads \ {t} : Alike(u)
  BY <1>5 DEF Alike
<1>6. ASSUME NEW t \in Threads, thr'[t] = Idle
      PROVE  New(t)'
  BY <1>6 DEF Idle
<1>7. ASSUME NEW t \in Threads, Alone(thr[t].g),
             graph'[thr[t].g].param = G(t).param, graph'[thr[t].g].inIdx = G(t).inIdx
      PROVE  SameParams
  BY <1>7 DEF Alone, G
\* A step that changes no parameter, after which t is home or goes on.
<1>8. ASSUME NEW t \in Threads, New(t)', \A u \in Threads \ {t} : Alike(u), SameParams,
             loads' = loads \/ loads' = loads + 1
      PROVE  Goal
  <2>1. Old' /\ \A u \in Threads \ {t} : New(u)'
    BY <1>4, <1>8
  <2>2. New(t)'
    BY <1>8
  <2> HIDE DEF Old, New, SameParams
  <2> QED BY <2>1, <2>2 DEF Goal
<1>9. ASSUME NEW t \in Threads, Home(t), SameParams, loads' = loads
      PROVE  Goal
  <2>1. New(t)' /\ \A u \in Threads \ {t} : Alike(u)
    BY <1>5, <1>6, <1>9 DEF Home
  <2> HIDE DEF New
  <2> QED BY <1>8, <1>9, <2>1
<1>10. ASSUME NEW t \in Threads, NEW pc, Onward(t, pc), SameParams, loads' = loads,
              pc # "count", thr[t].pc \in Waits \/ pc \notin Waits
       PROVE  Goal
  <2>1. New(t)'
    BY <1>0, <1>10 DEF Onward
  <2>2. \A u \in Threads \ {t} : Alike(u)
    BY <1>5, <1>10 DEF Onward
  <2> HIDE DEF New
  <2> QED BY <1>8, <1>10, <2>1, <2>2
<1>11. ASSUME NEW t \in Threads, Call(t)
       PROVE  Goal
  <2>1. graph' = graph /\ (loads' = loads \/ loads' = loads + 1)
        /\ \A u \in Threads \ {t} : thr'[u] = thr[u]
    BY <1>11, CallEffect
  <2>2. New(t)'
    <3>1. CASE thr'[t].op = "LOAD"
      <4>1. loads' = loads + 1 /\ thr'[t].n = loads + 1 /\ thr'[t].pc = "enter"
        BY <1>11, <3>1, CallEffect
      <4> QED BY <1>0, <1>3, <2>1, <4>1
    <3>2. CASE thr'[t].op # "LOAD"
      BY <1>11, <3>2, CallEffect
    <3> QED BY <3>1, <3>2
  <2>3. \A u \in Threads \ {t} : Alike(u)
    BY <1>5, <2>1
  <2> HIDE DEF New
  <2> QED BY <1>8, <2>1, <2>2, <2>3
<1>12. ASSUME NEW t \in Threads, Calm(t)
       PROVE  Goal
  <2>1. CASE Return(t)
    BY <1>9, <1>12, <2>1, ReturnHome DEF Calm
  <2>2. ASSUME NEW pc \in ByList \cup ByDev \cup Elsewhere, Goto(t, pc), Edge(t, pc)
        PROVE  Goal
    <3>1. pc # "count" /\ (thr[t].pc \in Waits \/ pc \notin Waits)
      BY <2>2 DEF Edge, Waits
    <3> QED BY <1>10, <1>12, <2>2, <3>1, GotoOnward DEF Calm
  <2> QED BY <1>12, <2>1, <2>2 DEF Calm
<1>13. ASSUME NEW t \in Threads, Deed(t)
       PROVE  Goal
  <2>1. CASE LoadOptions(t)
    <3>1. CASE Home(t) /\ graph' = graph
      BY <1>9, <2>1, <3>1, OptionsEffect
    <3>2. CASE /\ Onward(t, "test") /\ Alone(thr[t].g)
               /\ Pipes(graph'[thr[t].g]) = Pipes(G(t))
      <4>1. SameParams
        BY <1>7, <3>2 DEF Pipes
      <4> HIDE DEF SameParams
      <4> QED BY <1>10, <2>1, <3>2, <4>1, OptionsEffect DEF Waits
    <3> QED BY <2>1, <3>1, <3>2, OptionsEffect
  <2>2. CASE LoadDevice(t)
    BY <1>10, <2>2, DeviceEffect DEF Waits
  <2>3. CASE LoadSend(t)
    <3> DEFINE g == thr[t].g
               i == G(t).inIdx
    <3>1. /\ Onward(t, "count") /\ Alone(g) /\ loads' = loads /\ thr[t].pc = "send"
          /\ graph'[g].inIdx = 1 - i
          /\ graph'[g].param[i] = thr[t].n /\ graph'[g].param[1 - i] = graph[g].param[1 - i]
      BY <2>3, SendEffect DEF G
    <3>2. thr[t].op = "LOAD" /\ i \in {0, 1} /\ g \in Addrs
      BY <1>3, <3>1 DEF Doing, OfLoad, Alone, G
    <3>3. thr[t].n <= loads /\ graph[g].param[1 - i] < thr[t].n
      BY <1>0, <3>1, <3>2 DEF Waits
    <3> HIDE DEF g, i
    <3>4. Old'
      <4>1. ASSUME NEW j \in {0, 1}
            PROVE  graph'[g].param[j] <= loads
        <5>1. j = i \/ j = 1 - i
          BY <3>2
        <5> QED BY <1>0, <3>1, <3>2, <3>3, <5>1
      <4> QED BY <1>0, <3>1, <4>1 DEF Alone
    <3>5. New(t)'
      <4>1. thr'[t].g = g /\ thr'[t].n = thr[t].n /\ thr'[t].op = "LOAD" /\ thr'[t].pc = "count"
        BY <3>1, <3>2 DEF Onward, g
      <4>2. thr[t].n # 0
        BY <1>0, <3>2
      <4>3. 1 - (1 - i) = i /\ graph[g].param[1 - i] # thr[t].n
        BY <1>3, <3>2, <3>3
      <4> QED BY <3>1, <3>2, <3>3, <4>1, <4>2, <4>3 DEF Waits, G
    <3>6. \A u \in Threads \ {t} : New(u)'
      <4> SUFFICES ASSUME NEW u \in Threads \ {t} PROVE New(u)'
        OBVIOUS
      <4>1. thr'[u] = thr[u] /\ thr[u].op # "LOAD"
        BY <1>1, <3>1, <3>2 DEF Onward
      <4>2. thr[u].pc # "count"
        BY <1>2, <4>1
      <4> QED BY <4>1, <4>2
    <3> HIDE DEF Old, New
    <3> QED BY <3>4, <3>5, <3>6 DEF Goal
  <2>4. CASE GetOutput(t)
    <3>1. SameParams
      BY <1>7, <2>4, OutputEffect DEF Pipes
    <3> HIDE DEF SameParams
    <3> QED BY <1>10, <2>4, <3>1, OutputEffect DEF Waits
  <2>5. CASE GetLate(t)
    BY <1>10, <2>5, LateEffect DEF Waits
  <2>6. CASE LoadSendFails(t) \/ LoadCount(t) \/ GetFails(t) \/ GetDrop(t) \/ Option(t)
    <3>1. Home(t) /\ Alone(thr[t].g) /\ graph'[thr[t].g].param = G(t).param
          /\ graph'[thr[t].g].inIdx = G(t).inIdx /\ loads' = loads
      BY <2>6, FailEffect, CountEffect, FailsEffect, DropEffect, OptionEffect DEF Pipes
    <3>2. SameParams
      BY <1>7, <3>1
    <3> HIDE DEF SameParams
    <3> QED BY <1>9, <3>1, <3>2
  <2>7. CASE GetAux(t)
    <3>1. SameParams /\ loads' = loads
      BY <1>7, <2>7, AuxEffect
    <3>2. CASE Home(t)
      BY <1>9, <3>1, <3>2
    <3>3. CASE ~Home(t)
      <4>1. New(t)' /\ \A u \in Threads \ {t} : thr'[u] = thr[u]
        BY <2>7, <3>3, AuxEffect
      <4>2. \A u \in Threads \ {t} : Alike(u)
        BY <1>5, <4>1
      <4> HIDE DEF New, SameParams
      <4> QED BY <1>8, <3>1, <4>1, <4>2
    <3> QED BY <3>2, <3>3
  <2>8. CASE Alloc(t)
    <3>1. Home(t) /\ loads' = loads /\ NoGraph
      BY <2>8, AllocEffect DEF Listing
    <3>2. CASE graph' = graph
      BY <1>9, <3>1, <3>2
    <3>3. ASSUME NEW a \in Addrs, graph'[a] = NewGraph,
                 \A b \in Addrs \ {a} : graph'[b] = graph[b]
          PROVE  Goal
      <4>1. graph'[a].param[0] = 0 /\ graph'[a].param[1] = 0
        BY <3>3 DEF NewGraph
      <4>2. Old'
        BY <1>0, <1>3, <3>1, <3>3, <4>1
      <4>3. New(t)'
        BY <1>6, <3>1 DEF Home
      <4>4. ASSUME NEW u \in Threads \ {t} PROVE New(u)'
        <5>1. thr'[u] = thr[u] /\ thr[u].pc # "count"
          BY <1>2, <3>1 DEF Home, NoGraph
        <5>2. thr[u].op = "LOAD" => 0 < thr[u].n
          BY <1>0, <1>3
        <5> QED BY <1>0, <1>3, <3>1, <3>3, <4>1, <5>1, <5>2
      <4> HIDE DEF Old, New
      <4> QED BY <4>2, <4>3, <4>4 DEF Goal
    <3> QED BY <2>8, <3>2, <3>3, AllocEffect
  <2>9. CASE Reset(t)
    <3>1. SameParams
      BY <2>9, ResetEffect DEF Pipes
    <3> HIDE DEF SameParams
    <3> QED BY <1>9, <2>9, <3>1, ResetEffect
  <2> QED BY <1>13, <2>1, <2>2, <2>3, <2>4, <2>5, <2>6, <2>7, <2>8, <2>9 DEF Deed
<1>14. ASSUME NEW t \in Threads, NEW as, Deletes(t, as)
       PROVE  Goal
  <2>1. \A a \in Addrs : \/ graph'[a] = graph[a]
                         \/ graph'[a].param[0] = 0 /\ graph'[a].param[1] = 0
    <3>1. Freed.param[0] = 0 /\ Freed.param[1] = 0
      BY DEF Freed, NewGraph
    <3>2. \A a \in Addrs : graph'[a] = graph[a] \/ graph'[a] = Freed
      BY <1>14 DEF Deletes
    <3> QED BY <3>1, <3>2
  <2>2. Old'
    BY <1>0, <1>3, <1>14, <2>1 DEF Deletes
  <2>3. New(t)'
    BY <1>6, <1>14 DEF Deletes
  <2>4. ASSUME NEW u \in Threads \ {t} PROVE New(u)'
    <3>1. Alike(u) /\ thr[u].pc # "count" /\ loads' = loads
      BY <1>14 DEF Deletes, OnGraph
    <3>2. thr[u].op = "LOAD" => 0 < thr[u].n
      BY <1>0, <1>3
    <3> QED BY <1>0, <1>3, <2>1, <3>1, <3>2 DEF Alike
  <2> HIDE DEF Old, New
  <2> QED BY <2>2, <2>3, <2>4 DEF Goal
<1>15. ASSUME NEW t \in Threads, Add(t)
       PROVE  Goal
  BY <1>9, <1>15, AddEffect
<1>16. CASE StickDone \/ UNCHANGED vars
  BY <1>0, <1>16 DEF StickDone, vars, G, Goal
<1> QED BY <1>11, <1>12, <1>13, <1>14, <1>15, <1>16, Kinds, DeallocEffect, DeleteEffect

-----------------------------------------------------------------------------
(* The pipeline.                                                             *)

\* What becomes of the stages when a tensor is sent, a result is returned, and the
\* stick finishes an inference.
LEMMA SendStages ==
  ASSUME NEW g \in GraphType, NEW h, NEW s \in StickType, NEW k \in {0, 1},
         NEW n \in Numbers, n # 0, Stages(g, s, k),
         h.outIdx = g.outIdx, h.inIdx = 1 - g.inIdx, h.param[g.inIdx] = n,
         h.param[1 - g.inIdx] = g.param[1 - g.inIdx]
  PROVE  Stages(h, Started([s EXCEPT !.in[g.inIdx] = n], k = 0), k + 1)
<1> DEFINE i == g.inIdx
           q == [s.in EXCEPT ![i] = n]
           p == [s EXCEPT !.in = q]
<1>1. i \in {0, 1} /\ g.outIdx \in {0, 1} /\ s.in \in [{0, 1} -> Numbers]
  BY DEF GraphType, StickType
<1>2. [s EXCEPT !.in[g.inIdx] = n] = p
  BY DEF StickType
<1>3. q[i] = n /\ q[1 - i] = s.in[1 - i] /\ q \in [{0, 1} -> Numbers]
  BY <1>1
<1> HIDE DEF q
<1>4. p.in = q /\ p.idx = s.idx /\ p.run = s.run /\ p.done = s.done /\ p \in StickType
  BY <1>3 DEF StickType
<1> HIDE DEF p
<1>5. CASE k = 0
  <2>1. Empty(g, s)
    BY <1>5 DEF Stages
  <2>2. p.run = 0 /\ p.done = 0 /\ p.in[p.idx] = n /\ p.idx = i
    BY <1>1, <1>3, <1>4, <2>1 DEF Empty
  <2> DEFINE r == [p EXCEPT !.in[p.idx] = 0, !.run = p.in[p.idx], !.idx = 1 - @]
             x == [q EXCEPT ![i] = 0]
             y == 1 - i
  <2>3. Started(p, k = 0) = [p EXCEPT !.in = x, !.run = n, !.idx = y]
    <3>1. Started(p, k = 0) = r
      BY <1>5, <2>2 DEF Started
    <3>2. r = [p EXCEPT !.in = x, !.run = n, !.idx = y]
      BY <1>4, <2>2 DEF StickType
    <3> QED BY <3>1, <3>2
  <2>4. x[i] = 0 /\ x[1 - i] = 0
    BY <1>1, <1>3, <2>1 DEF Empty
  <2> HIDE DEF x, y
  <2> DEFINE z == [p EXCEPT !.in = x, !.run = n, !.idx = y]
  <2>5. z.in = x /\ z.run = n /\ z.idx = y /\ z.done = 0
    BY <1>4, <2>2 DEF StickType
  <2> HIDE DEF z
  <2>6. One(h, z)
    BY <1>1, <2>1, <2>4, <2>5 DEF One, First, Empty, y
  <2> QED BY <1>2, <1>5, <2>3, <2>6 DEF Stages, z
<1>6. CASE k = 1
  <2>1. One(g, s)
    BY <1>6 DEF Stages
  <2>2. Started(p, k = 0) = p
    BY <1>6 DEF Started
  <2>3. Two(h, p)
    BY <1>1, <1>3, <1>4, <2>1 DEF One, Two, First
  <2> QED BY <1>2, <1>6, <2>2, <2>3 DEF Stages
<1> QED BY <1>5, <1>6

LEMMA AuxStages ==
  ASSUME NEW g \in GraphType, NEW h, NEW s \in StickType, NEW k \in 0..2,
         Stages(g, s, k), s.done # 0,
         h.outIdx = 1 - g.outIdx, h.inIdx = g.inIdx, h.param = g.param
  PROVE  k # 0 /\ Stages(h, Started([s EXCEPT !.done = 0], k = 2), k - 1)
<1> DEFINE o == g.outIdx
           p == [s EXCEPT !.done = 0]
<1>1. o \in {0, 1} /\ s.in \in [{0, 1} -> Numbers] /\ g.param \in [{0, 1} -> Numbers]
  BY DEF GraphType, StickType
<1>2. p.in = s.in /\ p.idx = s.idx /\ p.run = s.run /\ p.done = 0 /\ p \in StickType
  BY ZeroNumber DEF StickType
<1> HIDE DEF p
<1>3. CASE k = 0
  BY <1>3 DEF Stages, Empty
<1>4. CASE k = 1
  <2>1. One(g, s) /\ s.run = 0
    BY <1>4 DEF Stages, One, First
  <2>2. Started(p, k = 2) = p
    BY <1>4 DEF Started
  <2>3. Empty(h, p)
    BY <1>1, <1>2, <2>1 DEF One, First, Empty
  <2> QED BY <1>4, <2>2, <2>3 DEF Stages, p
<1>5. CASE k = 2
  <2>1. Two(g, s) /\ s.run = 0
    BY <1>5 DEF Stages, Two, First
  <2> DEFINE n == g.param[1 - o]
             x == [s.in EXCEPT ![1 - o] = 0]
  <2>2. p.run = 0 /\ p.done = 0 /\ p.in[p.idx] = n /\ n # 0 /\ p.idx = 1 - o
    BY <1>1, <1>2, <2>1 DEF Two, First
  <2>3. Started(p, k = 2) = [p EXCEPT !.in = x, !.run = n, !.idx = o]
    <3>1. Started(p, k = 2) = [p EXCEPT !.in[p.idx] = 0, !.run = p.in[p.idx], !.idx = 1 - @]
      BY <1>5, <2>2 DEF Started
    <3>2. 1 - p.idx = o
      BY <1>1, <2>2
    <3> HIDE DEF o
    <3> QED BY <1>2, <2>2, <3>1, <3>2 DEF StickType
  <2>4. x[o] = 0 /\ x[1 - o] = 0
    BY <1>1, <2>1 DEF Two, First
  <2> HIDE DEF x, n
  <2> DEFINE z == [p EXCEPT !.in = x, !.run = n, !.idx = o]
  <2>5. z.in = x /\ z.run = n /\ z.idx = o /\ z.done = 0
    BY <1>2 DEF StickType
  <2> HIDE DEF z
  <2>6. One(h, z)
    BY <1>1, <2>1, <2>2, <2>4, <2>5 DEF One, First, Two, n
  <2> QED BY <1>5, <2>3, <2>6 DEF Stages, z, p
<1> QED BY <1>3, <1>4, <1>5

LEMMA DoneStages ==
  ASSUME NEW g, NEW s \in StickType, NEW k, Stages(g, s, k), s.run # 0
  PROVE  s.done = 0 /\ Stages(g, [s EXCEPT !.run = 0, !.done = s.run], k)
<1> DEFINE n == s.run
           p == [s EXCEPT !.run = 0, !.done = n]
<1>1. p.in = s.in /\ p.idx = s.idx /\ p.run = 0 /\ p.done = n
  BY DEF StickType
<1> HIDE DEF p
<1>2. s.done = 0 /\ Stages(g, p, k)
  BY <1>1 DEF Stages, Empty, One, Two, First
<1> QED BY <1>2 DEF p

LEMMA NextPipeline ==
  ASSUME Shape, Held, Listing, Doing, Newer, Pipeline, [Next]_vars, usage' = usage
  PROVE  Pipeline'
<1> SUFFICES ASSUME OneLoads, NEW a \in Addrs, graph'[a].st = "listed", graph'[a].clean
             PROVE  Flows(graph[a])'
  BY DEF Pipeline, OneLoads
<1> DEFINE g == graph[a]
           W(u) == /\ thr[u].pc = "loadDev" => g.have # 2
                   /\ thr[u].pc = "send" => g.have # 2 /\ thr[u].ready = (g.have = 0)
                   /\ thr[u].pc = "count" => thr[u].seen = g.have
                   /\ thr[u].pc = "aux" => stick.done # 0 /\ thr[u].ready = (g.have = 2)
           S == g.have \in Nat /\ Stages(g, stick, g.have + (IF Counting THEN 1 ELSE 0))
<1>1. /\ g \in GraphType /\ stick \in StickType
      /\ \A u \in Threads : thr[u].n \in Numbers
  BY DEF Shape, ThreadType
<1>2. \A u \in Threads : thr[u].pc \in OnGraph =>
        thr[u].g \in Addrs /\ graph[thr[u].g].st = "listed"
  BY DEF Held, OnListed, G
<1>3. g.st = "listed" => \A u \in Threads : thr[u].pc \in OnGraph => thr[u].g = a
  BY <1>2 DEF Listing, OneGraph
<1>4. g.st = "listed" /\ g.clean => S /\ \A u \in Threads : W(u)
  BY DEF Pipeline, Flows
<1>5. \A u, v \in Threads : thr[u].pc \in ByDev /\ thr[v].pc \in ByDev => u = v
  BY DEF Held, HasDev
<1>6. \A u, v \in Threads : thr[u].pc \in OfLoad /\ thr[v].pc \in OfLoad => u = v
  BY DEF Doing, OneLoads
\* A step that changes neither the stick nor the pipeline of the graph.
<1>7. ASSUME NEW t \in Threads, \A u \in Threads \ {t} : Alike(u), stick' = stick,
             g.st = "listed", Pipes(graph'[a]) = Pipes(g),
             thr[t].pc # "count", thr'[t].pc # "count", W(t)'
      PROVE  Flows(graph[a])'
  <2>1. S /\ \A u \in Threads : W(u)
    BY <1>4, <1>7 DEF Pipes
  <2>2. Counting' <=> Counting
    BY <1>7 DEF Counting, Alike
  <2>3. S'
    BY <1>7, <2>1, <2>2 DEF Pipes, Stages, Empty, One, Two, First
  <2>4. \A u \in Threads \ {t} : W(u)'
    BY <1>7, <2>1 DEF Pipes, Alike
  <2>5. W(t)'
    BY <1>7
  <2> HIDE DEF W
  <2>6. \A u \in Threads : W(u)'
    BY <2>4, <2>5
  <2> QED BY <2>3, <2>6 DEF Flows, W
<1>8. ASSUME NEW t \in Threads, \A u \in Threads \ {t} : thr'[u] = thr[u]
      PROVE  \A u \in Threads \ {t} : Alike(u)
  BY <1>8 DEF Alike
<1>9. ASSUME NEW t \in Threads, thr'[t] = Idle
      PROVE  W(t)' /\ thr'[t].pc # "count"
  BY <1>9 DEF Idle
\* A step on one graph: it is this one.
<1>10. ASSUME NEW b, Alone(b)
       PROVE  b = a /\ g.st = "listed"
  <2>1. b \in Addrs /\ graph[b].st = "listed" /\ g.st = "listed"
    BY <1>10 DEF Alone
  <2> QED BY <2>1 DEF Listing, OneGraph
<1>11. ASSUME NEW t \in Threads, Call(t)
       PROVE  Flows(graph[a])'
  <2>1. W(t)' /\ graph' = graph /\ stick' = stick /\ thr[t].pc # "count"
        /\ thr'[t].pc # "count" /\ \A u \in Threads \ {t} : thr'[u] = thr[u]
    BY <1>11, CallEffect
  <2> HIDE DEF W
  <2> QED BY <1>7, <1>8, <2>1
<1>12. ASSUME NEW t \in Threads, Calm(t)
       PROVE  Flows(graph[a])'
  <2>1. graph' = graph /\ stick' = stick /\ thr[t].pc # "count"
    BY <1>12 DEF Calm
  <2>2. \A u \in Threads \ {t} : thr'[u] = thr[u]
    BY <1>12, GotoOnward, ReturnHome DEF Calm, Onward, Home
  <2>3. W(t)' /\ thr'[t].pc # "count"
    <3>1. CASE Return(t)
      BY <1>9, <3>1, ReturnHome DEF Home
    <3>2. ASSUME NEW pc \in ByList \cup ByDev \cup Elsewhere, Goto(t, pc), Edge(t, pc)
          PROVE  W(t)' /\ thr'[t].pc # "count"
      <4>1. pc \notin {"send", "count", "aux"} /\ thr'[t].pc = pc
        BY <3>2, GotoOnward DEF Edge, Onward
      <4>2. pc = "loadDev" => g.have # 2
        BY <1>3, <2>1, <3>2 DEF Edge, OnGraph, G
      <4> QED BY <2>1, <4>1, <4>2
    <3> QED BY <1>12, <3>1, <3>2 DEF Calm
  <2> HIDE DEF W
  <2> QED BY <1>7, <1>8, <2>1, <2>2, <2>3
<1>13. ASSUME NEW t \in Threads, LoadOptions(t) \/ Option(t) \/ Reset(t)
       PROVE  Flows(graph[a])'
  <2>1. /\ stick' = stick /\ thr[t].pc # "count"
        /\ Home(t) \/ Onward(t, "test")
        /\ g.st = "listed" /\ Pipes(graph'[a]) = Pipes(g)
    <3>1. CASE LoadOptions(t) \/ Option(t)
      <4>1. graph' = graph \/ (Alone(thr[t].g) /\ Pipes(graph'[thr[t].g]) = Pipes(G(t)))
        BY <3>1, OptionsEffect, OptionEffect
      <4>2. g.st = "listed" /\ Pipes(graph'[a]) = Pipes(g)
        BY <1>10, <4>1 DEF G
      <4> QED BY <3>1, <4>2, OptionsEffect, OptionEffect
    <3>2. CASE Reset(t)
      BY <3>2, ResetEffect
    <3> QED BY <1>13, <3>1, <3>2
  <2>2. W(t)' /\ thr'[t].pc # "count" /\ \A u \in Threads \ {t} : thr'[u] = thr[u]
    BY <1>9, <2>1 DEF Home, Onward
  <2> HIDE DEF W
  <2> QED BY <1>7, <1>8, <2>1, <2>2
<1>14. ASSUME NEW t \in Threads, LoadDevice(t)
       PROVE  Flows(graph[a])'
  <2>1. /\ graph' = graph /\ stick' = stick /\ thr[t].pc = "loadDev" /\ Onward(t, "send")
        /\ thr'[t].ready = (G(t).have = 0)
    BY <1>14, DeviceEffect
  <2>2. G(t) = g /\ W(t)
    BY <1>3, <1>4, <2>1 DEF OnGraph, G
  <2>3. W(t)' /\ thr'[t].pc # "count" /\ \A u \in Threads \ {t} : thr'[u] = thr[u]
    BY <2>1, <2>2 DEF Onward
  <2> HIDE DEF W
  <2> QED BY <1>7, <1>8, <2>1, <2>3
<1>15. ASSUME NEW t \in Threads, GetOutput(t)
       PROVE  Flows(graph[a])'
  <2>1. /\ stick' = stick /\ thr[t].pc = "output" /\ Onward(t, "aux") /\ stick.done # 0
        /\ thr'[t].ready = (G(t).have = 2)
        /\ Alone(thr[t].g) /\ Pipes(graph'[thr[t].g]) = Pipes(G(t))
    BY <1>15, OutputEffect
  <2>2. thr[t].g = a /\ g.st = "listed" /\ G(t) = g
    BY <1>10, <2>1 DEF G
  <2>3. W(t)' /\ thr'[t].pc # "count" /\ \A u \in Threads \ {t} : thr'[u] = thr[u]
    BY <2>1, <2>2 DEF Onward, Pipes
  <2> HIDE DEF W
  <2> QED BY <1>7, <1>8, <2>1, <2>2, <2>3
<1>16. ASSUME NEW t \in Threads, GetLate(t)
       PROVE  Flows(graph[a])'
  <2>1. /\ graph' = graph /\ stick' = stick /\ thr[t].pc = "getRetry" /\ Onward(t, "drop")
    BY <1>16, LateEffect
  <2>2. W(t)' /\ thr'[t].pc # "count" /\ \A u \in Threads \ {t} : thr'[u] = thr[u]
    BY <2>1 DEF Onward
  <2> HIDE DEF W
  <2> QED BY <1>7, <1>8, <2>1, <2>2
\* The graph of a tensor or a result that is given up is not followed.
<1>17. ASSUME NEW t \in Threads, LoadSendFails(t) \/ GetFails(t) \/ GetDrop(t)
       PROVE  FALSE
  <2>1. Alone(thr[t].g) /\ ~graph'[thr[t].g].clean
    BY <1>17, FailEffect, FailsEffect, DropEffect
  <2> QED BY <1>10, <2>1
\* The steps that move the pipeline: the thread has the lock of the device.
<1>18. ASSUME NEW t \in Threads, LoadSend(t)
       PROVE  Flows(graph[a])'
  <2> DEFINE h == graph'[a]
  <2>1. thr[t].g = a /\ g.st = "listed" /\ G(t) = g
    BY <1>10, <1>18, SendEffect DEF G
  <2>2. /\ thr[t].pc = "send" /\ Onward(t, "count") /\ thr'[t].seen = g.have
        /\ h.have = g.have /\ h.outIdx = g.outIdx /\ h.inIdx = 1 - g.inIdx
        /\ h.clean = g.clean /\ h.param[g.inIdx] = thr[t].n
        /\ h.param[1 - g.inIdx] = g.param[1 - g.inIdx]
        /\ stick' = Started([stick EXCEPT !.in[g.inIdx] = thr[t].n], thr[t].ready)
    BY <1>18, <2>1, SendEffect, ZenonT(30)
  <2> HIDE DEF h
  <2>3. S /\ W(t) /\ (\A u \in Threads \ {t} : thr[u].pc \notin ByDev /\ thr[u].pc # "loadDev")
    BY <1>4, <1>5, <1>6, <2>1, <2>2 DEF ByDev, OfLoad, h
  <2>4. ~Counting /\ Counting'
    BY <2>2, <2>3 DEF Counting, ByDev, Onward
  <2>5. thr[t].n # 0
    BY <2>2 DEF Newer, Doing, OfLoad
  <2>6. Stages(g, stick, g.have) /\ g.have \in {0, 1} /\ thr[t].ready = (g.have = 0)
    BY <1>1, <2>2, <2>3, <2>4 DEF Stages, GraphType
  <2>7. Stages(h, stick', g.have + 1)
    BY <1>1, <2>2, <2>5, <2>6, SendStages
  <2>8. S'
    BY <2>2, <2>4, <2>6, <2>7 DEF h
  <2>9. \A u \in Threads : W(u)'
    BY <2>2, <2>3 DEF Onward, ByDev, h
  <2> QED BY <2>8, <2>9 DEF Flows
<1>19. ASSUME NEW t \in Threads, LoadCount(t)
       PROVE  Flows(graph[a])'
  <2> DEFINE h == graph'[a]
  <2>1. thr[t].g = a /\ g.st = "listed" /\ G(t) = g
    BY <1>10, <1>19, CountEffect DEF G
  <2>2. /\ thr[t].pc = "count" /\ Home(t) /\ stick' = stick /\ h.have = thr[t].seen + 1
        /\ h.outIdx = g.outIdx /\ h.inIdx = g.inIdx /\ h.param = g.param /\ h.clean = g.clean
    BY <1>19, <2>1, CountEffect
  <2> HIDE DEF h
  <2>3. S /\ W(t) /\ (\A u \in Threads \ {t} : thr[u].pc \notin ByDev /\ thr[u].pc # "loadDev")
    BY <1>4, <1>5, <1>6, <2>1, <2>2 DEF ByDev, OfLoad, h
  <2>4. Counting /\ ~Counting'
    BY <2>2, <2>3 DEF Counting, ByDev, Home, Idle
  <2>5. g.have \in Nat /\ Stages(g, stick, g.have + 1) /\ h.have = g.have + 1
    BY <2>2, <2>3, <2>4
  <2>6. Stages(h, stick, h.have)
    BY <2>2, <2>5 DEF Stages, Empty, One, Two, First
  <2>7. S'
    <3>1. h.have \in Nat /\ h.have + 0 = h.have
      BY <2>5
    <3> QED BY <2>2, <2>4, <2>6, <3>1 DEF h
  <2>8. \A u \in Threads : W(u)'
    BY <2>2, <2>3 DEF Home, Idle, ByDev, h
  <2> QED BY <2>7, <2>8 DEF Flows
<1>20. ASSUME NEW t \in Threads, GetAux(t)
       PROVE  Flows(graph[a])'
  <2> DEFINE h == graph'[a]
  <2>1. thr[t].g = a /\ g.st = "listed" /\ G(t) = g
    BY <1>10, <1>20, AuxEffect DEF G
  <2>2. /\ thr[t].pc = "aux" /\ h.have = g.have - 1 /\ h.outIdx = 1 - g.outIdx
        /\ h.inIdx = g.inIdx /\ h.param = g.param /\ h.clean = g.clean
        /\ stick' = Started([stick EXCEPT !.done = 0], thr[t].ready)
        /\ \A u \in Threads \ {t} : thr'[u] = thr[u]
        /\ thr'[t].pc \in {"idle", "enter"}
    <3>1. Home(t) \/ (/\ \A u \in Threads \ {t} : thr'[u] = thr[u]
                      /\ thr'[t].pc = "enter")
      BY <1>20, AuxEffect
    <3>2. /\ \A u \in Threads \ {t} : thr'[u] = thr[u]
          /\ thr'[t].pc \in {"idle", "enter"}
      BY <3>1 DEF Home, Idle
    <3>3. LET k == graph'[thr[t].g]
          IN  /\ thr[t].pc = "aux" /\ k.have = G(t).have - 1 /\ k.outIdx = 1 - G(t).outIdx
              /\ k.inIdx = G(t).inIdx /\ k.param = G(t).param /\ k.clean = G(t).clean
              /\ stick' = Started([stick EXCEPT !.done = 0], thr[t].ready)
      BY <1>20, AuxEffect
    <3> QED BY <2>1, <3>2, <3>3
  <2> HIDE DEF h
  <2>3. S /\ W(t) /\ (\A u \in Threads : W(u))
        /\ (\A u \in Threads \ {t} : thr[u].pc \notin ByDev)
    BY <1>4, <1>5, <2>1, <2>2 DEF ByDev, h
  <2>4. ~Counting /\ ~Counting'
    BY <2>2, <2>3 DEF Counting, ByDev
  <2>5. Stages(g, stick, g.have) /\ g.have \in 0..2 /\ thr[t].ready = (g.have = 2)
        /\ stick.done # 0
    BY <1>1, <2>2, <2>3, <2>4 DEF Stages, GraphType
  <2>6. g.have # 0 /\ Stages(h, stick', g.have - 1)
    BY <1>1, <2>2, <2>5, AuxStages
  <2>7. S'
    <3>1. h.have \in Nat /\ h.have + 0 = h.have
      BY <2>2, <2>5, <2>6
    <3> QED BY <2>2, <2>4, <2>6, <3>1 DEF h
  <2>8. \A u \in Threads : W(u)'
    BY <2>2, <2>3, <2>5 DEF ByDev, h
  <2> QED BY <2>7, <2>8 DEF Flows
<1>21. ASSUME NEW t \in Threads, Alloc(t)
       PROVE  Flows(graph[a])'
  <2>1. NoGraph /\ Home(t) /\ thr[t].pc = "alloc"
    BY <1>21, AllocEffect DEF Listing
  <2>2. graph'[a] = NewGraph /\ stick' = NewStick
    BY <1>21, <2>1, AllocEffect DEF NoGraph
  <2>3. \A u \in Threads : thr'[u].pc \notin {"loadDev", "send", "count", "aux"}
    BY <1>2, <2>1 DEF Home, Idle, NoGraph, OnGraph
  <2>4. Stages(NewGraph, NewStick, 0) /\ NewGraph.have = 0
    BY DEF Stages, Empty, NewGraph, NewStick
  <2>5. ~Counting'
    BY <2>3 DEF Counting
  <2>6. S'
    BY <2>2, <2>4, <2>5
  <2>7. \A u \in Threads : W(u)'
    BY <2>3
  <2> QED BY <2>6, <2>7 DEF Flows
<1>22. ASSUME NEW t \in Threads, NEW as, Deletes(t, as)
       PROVE  Flows(graph[a])'
  <2>1. /\ stick' = stick /\ thr[t].pc # "count" /\ thr'[t] = Idle
        /\ \A u \in Threads \ {t} : Alike(u)
    BY <1>22 DEF Deletes
  <2>2. graph'[a] = g
    BY <1>22 DEF Deletes, Freed, NewGraph
  <2>3. W(t)' /\ thr'[t].pc # "count"
    BY <1>9, <2>1
  <2> HIDE DEF W
  <2> QED BY <1>7, <2>1, <2>2, <2>3
<1>23. ASSUME NEW t \in Threads, Add(t)
       PROVE  Flows(graph[a])'
  <2>1. graph' = graph
    BY <1>23, AddEffect
  <2>2. Calm(t)
    BY <1>23, <2>1, AddEffect DEF Listing, NoGraph
  <2> QED BY <1>12, <2>2
<1>24. CASE StickDone
  <2>1. /\ graph' = graph /\ thr' = thr /\ stick.run # 0
        /\ stick' = [stick EXCEPT !.run = 0, !.done = stick.run]
    BY <1>24 DEF StickDone
  <2>2. S /\ \A u \in Threads : W(u)
    BY <1>4, <2>1
  <2>3. stick.done = 0 /\ S'
    BY <1>1, <2>1, <2>2, DoneStages DEF Counting
  <2>4. \A u \in Threads : W(u)'
    BY <2>1, <2>2, <2>3
  <2> QED BY <2>3, <2>4 DEF Flows
<1>25. CASE UNCHANGED vars
  BY <1>4, <1>25 DEF vars, Flows, Counting
<1>26. ASSUME NEW t \in Threads, Deed(t)
       PROVE  Flows(graph[a])'
  BY <1>13, <1>14, <1>15, <1>16, <1>17, <1>18, <1>19, <1>20, <1>21, <1>26 DEF Deed
<1> QED BY <1>11, <1>12, <1>22, <1>23, <1>24, <1>25, <1>26, Kinds, DeallocEffect, DeleteEffect

\* The output buffer of a call that takes a result keeps the first tensor's.
LEMMA NextPaired ==
  ASSUME Shape, Held, Listing, Doing, Pipeline, ResultPaired, [Next]_vars, usage' = usage
  PROVE  ResultPaired'
<1> SUFFICES ASSUME OneLoads, OneResets, NEW t \in Threads, thr'[t].pc = "aux",
                    G(t)'.clean
             PROVE  G(t)'.out = G(t)'.param[G(t)'.outIdx]
  BY DEF ResultPaired, OneLoads, OneResets
<1> DEFINE a == thr[t].g
           Goal == G(t)'.out = G(t)'.param[G(t)'.outIdx]
<1>1. ASSUME thr[t].pc = "aux", thr'[t].g = a,
             graph'[a].out = graph[a].out, Pipes(graph'[a]) = Pipes(graph[a])
      PROVE  Goal
  BY <1>1 DEF ResultPaired, Pipes, G
<1>2. thr[t].pc = "aux" =>
        a \in Addrs /\ graph[a].st = "listed" /\ \A v \in Threads \ {t} : thr[v].pc \notin ByDev
  BY DEF Held, OnListed, OnGraph, HasDev, ByDev, G
<1> SUFFICES Goal
  OBVIOUS
<1> HIDE DEF Goal
<1>3. ASSUME NEW v \in Threads, Call(v)
      PROVE  Goal
  BY <1>1, <1>3, CallEffect
<1>4. ASSUME NEW v \in Threads, Calm(v)
      PROVE  Goal
  <2>1. \A u \in Threads \ {v} : thr'[u] = thr[u]
    BY <1>4, GotoOnward, ReturnHome DEF Calm, Onward, Home
  <2>2. thr'[v].pc # "aux"
    BY <1>4, GotoOnward, ReturnHome DEF Calm, Onward, Home, Idle, Edge
  <2> QED BY <1>1, <1>4, <2>1, <2>2 DEF Calm
<1>5. ASSUME NEW v \in Threads, Deed(v)
      PROVE  Goal
  <2>1. CASE LoadOptions(v) \/ Option(v)
    <3>1. /\ graph' = graph \/ (/\ Alone(thr[v].g)
                                /\ graph'[thr[v].g].out = graph[thr[v].g].out
                                /\ Pipes(graph'[thr[v].g]) = Pipes(graph[thr[v].g]))
          /\ Home(v) \/ Onward(v, "test")
      BY <2>1, OptionsEffect, OptionEffect DEF G
    <3>2. thr[t].pc = "aux" /\ thr'[t].g = a
      BY <3>1 DEF Home, Onward, Idle
    <3>3. graph'[a].out = graph[a].out /\ Pipes(graph'[a]) = Pipes(graph[a])
      BY <1>2, <3>1, <3>2 DEF Alone
    <3> QED BY <1>1, <3>2, <3>3
  <2>2. CASE LoadDevice(v) \/ GetLate(v)
    BY <1>1, <2>2, DeviceEffect, LateEffect DEF Onward
  <2>3. CASE GetOutput(v)
    <3>1. v = t
      BY <1>2, <2>3, OutputEffect DEF Onward, ByDev
    <3>2. /\ thr[t].pc = "output" /\ thr'[t].g = a /\ stick.done # 0 /\ Alone(a)
          /\ graph'[a].out = stick.done /\ Pipes(graph'[a]) = Pipes(graph[a])
      BY <2>3, <3>1, OutputEffect DEF Onward, G
    <3>3. a \in Addrs /\ graph[a].st = "listed" /\ graph[a].clean
      BY <3>2 DEF Alone, Pipes, G
    <3>4. \E k : Stages(graph[a], stick, k)
      BY <3>3 DEF Pipeline, Flows
    <3>5. stick.done = graph[a].param[graph[a].outIdx]
      BY <3>2, <3>4 DEF Stages, Empty, One, Two, First
    <3> QED BY <3>2, <3>5 DEF Goal, Pipes, G
  <2>4. CASE LoadSend(v) \/ LoadSendFails(v) \/ LoadCount(v) \/ GetFails(v) \/ GetAux(v)
    <3>1. thr[v].pc \in ByDev /\ thr'[v].pc # "aux"
          /\ \A u \in Threads \ {v} : thr'[u] = thr[u]
      <4>1. CASE LoadSend(v)
        BY <4>1, SendEffect DEF Onward, ByDev
      <4>2. CASE GetAux(v)
        BY <4>2, AuxEffect DEF Home, Idle, ByDev
      <4>3. CASE LoadSendFails(v) \/ LoadCount(v) \/ GetFails(v)
        BY <4>3, FailEffect, CountEffect, FailsEffect DEF Home, Idle, ByDev
      <4> QED BY <2>4, <4>1, <4>2, <4>3
    <3> QED BY <1>2, <3>1
  <2>5. CASE GetDrop(v)
    <3>1. Alone(thr[v].g) /\ ~graph'[thr[v].g].clean /\ Home(v)
      BY <2>5, DropEffect
    <3>2. thr[t].pc = "aux" /\ thr'[t].g = a
      BY <3>1 DEF Home, Idle
    <3>3. thr[v].g = a
      BY <1>2, <3>1, <3>2 DEF Alone, Listing, OneGraph
    <3> QED BY <3>1, <3>2, <3>3 DEF G
  <2>6. CASE Alloc(v)
    <3>1. NoGraph /\ Home(v)
      BY <2>6, AllocEffect DEF Listing
    <3>2. thr[t].pc = "aux"
      BY <3>1 DEF Home, Idle
    <3> QED BY <1>2, <3>1, <3>2 DEF NoGraph
  <2>7. CASE Reset(v)
    <3>1. thr[v].pc = "reset" /\ Home(v)
      BY <2>7, ResetEffect
    <3>2. v # t /\ thr[t].pc = "aux"
      BY <3>1 DEF Home, Idle
    <3>3. "RESET" \in usage.ops[v] /\ "GET" \in usage.ops[t]
      BY <3>1, <3>2 DEF Doing, OfGet
    <3> QED BY <3>2, <3>3 DEF OneResets
  <2> QED BY <1>5, <2>1, <2>2, <2>3, <2>4, <2>5, <2>6, <2>7 DEF Deed
<1>6. ASSUME NEW v \in Threads, NEW as, Deletes(v, as)
      PROVE  Goal
  <2>1. thr'[v].pc # "aux"
    BY <1>6 DEF Deletes, Idle
  <2>2. thr[t].pc = "aux" /\ thr[t].pc \notin OnGraph
    BY <1>6, <2>1 DEF Deletes, Alike
  <2> QED BY <2>2 DEF OnGraph
<1>7. ASSUME NEW v \in Threads, Add(v)
      PROVE  Goal
  BY <1>1, <1>7, AddEffect DEF Home, Idle
<1>8. CASE StickDone \/ UNCHANGED vars
  BY <1>1, <1>8 DEF StickDone, vars
<1> QED BY <1>3, <1>4, <1>5, <1>6, <1>7, <1>8, Kinds, DeallocEffect, DeleteEffect

-----------------------------------------------------------------------------
(* The theorems.                                                             *)

\* The inductive invariant, beside the types and the locks.
Agreed == Listing /\ Doing /\ Begun /\ Counted /\ Newer /\ Pipeline /\ ResultPaired

LEMMA InitAgreed == Init => Agreed
<1> SUFFICES ASSUME Init
             PROVE  Agreed
  OBVIOUS
<1>1. /\ \A a \in Addrs : /\ graph[a].st = "unused" /\ graph[a].have = 0
                          /\ graph[a].param[0] = 0 /\ graph[a].param[1] = 0
      /\ \A t \in Threads : /\ thr[t].pc = "idle" /\ thr[t].op = "NONE" /\ thr[t].seen = 0
      /\ devLock = None /\ device = "listed" /\ loads = 0
  BY DEF Init, Unused, NewGraph, Idle
<1>2. Listing
  BY <1>1 DEF Listing, OneGraph, NoGraph, Kept
<1>3. Doing
  BY <1>1 DEF Doing, OfLoad, OfGet
<1>4. Begun
  BY <1>1 DEF Begun, Past, OfLoad, OfGet, Kept
<1>5. Counted
  BY <1>1 DEF Counted
<1>6. Newer
  BY <1>1 DEF Newer
<1>7. Pipeline /\ ResultPaired
  BY <1>1 DEF Pipeline, ResultPaired
<1> QED BY <1>2, <1>3, <1>4, <1>5, <1>6, <1>7 DEF Agreed

\* The locks are held as LocksHeld says, one graph is listed at a time, its options
\* are sent before its first tensor, and while no result of it was given up the stick
\* has the tensors that have_data counts, in the order of the graph's parameters.
THEOREM PipelineHeld == Spec => [](Shape /\ Held /\ Agreed)
<1>1. Init => Shape /\ Held /\ Agreed
  BY InitShape, InitHeld, InitAgreed
<1>2. ASSUME Shape, Held, Agreed, [Next]_vars
      PROVE  (Shape /\ Held /\ Agreed)'
  <2>1. Shape' /\ Held'
    <3>1. Shape'
      BY <1>2, NextShape DEF Held
    <3>2. Held'
      BY <1>2, NextHeld
    <3> QED BY <3>1, <3>2
  <2>2. usage' = usage /\ Doing'
    BY <1>2, NextDoing DEF Agreed
  <2>3. Listing'
    BY <1>2, NextListing DEF Agreed
  <2>4. Begun'
    BY <1>2, <2>2, NextBegun DEF Agreed
  <2>5. Counted'
    BY <1>2, <2>2, NextCounted DEF Agreed
  <2>6. Newer'
    BY <1>2, <2>2, NextNewer DEF Agreed
  <2>7. Pipeline'
    BY <1>2, <2>2, NextPipeline DEF Agreed
  <2>8. ResultPaired'
    BY <1>2, <2>2, NextPaired DEF Agreed
  <2> QED BY <2>1, <2>2, <2>3, <2>4, <2>5, <2>6, <2>7, <2>8 DEF Agreed
<1> QED BY <1>1, <1>2, PTL DEF Spec

\* Every variable of NCAPI v1 has its type, and have_data, which load_tensor and
\* get_result change under different locks, counts at most two tensors when one
\* thread loads and one gets results.
THEOREM TypesAndBound == Spec => []TypeOK
<1>1. Shape /\ Agreed => TypeOK
  <2> SUFFICES ASSUME Shape, Agreed
               PROVE  TypeOK
    OBVIOUS
  <2>1. graph \in [Addrs ->
          [st: {"unused", "listed", "freed"}, started: BOOLEAN, have: Int,
           block: BOOLEAN, inIdx: {0, 1}, outIdx: {0, 1}, failed: BOOLEAN,
           param: [{0, 1} -> 0..MaxLoads], out: 0..MaxLoads, clean: BOOLEAN]]
    BY DEF Shape, GraphType, Numbers
  <2>2. ByList \cup ByDev \cup Elsewhere
          = {"idle", "enter", "loadSleep", "getSleep", "getRetry", "delete"}
              \cup OnGraph \cup Talking
    BY DEF ByList, ByDev, Elsewhere, OnGraph, Talking
  <2>3. thr \in [Threads ->
          [pc: {"idle", "enter", "loadSleep", "getSleep", "getRetry", "delete"}
                 \cup OnGraph \cup Talking,
           op: Ops \cup {"NONE", "DEBUG"}, g: Addrs \cup {None}, n: 0..MaxLoads,
           seen: Int, ready: BOOLEAN, gone: BOOLEAN]]
    BY <2>2 DEF Shape, ThreadType, Numbers
  <2>4. stick \in [in: [{0, 1} -> 0..MaxLoads], idx: {0, 1},
                   run: 0..MaxLoads, done: 0..MaxLoads]
    BY DEF Shape, StickType, Numbers
  <2>5. OneLoads /\ OneGets /\ ~usage.reuse =>
          /\ \A a \in Addrs : graph[a].have \in 0..2
          /\ \A t \in Threads : thr[t].seen \in 0..2
    BY DEF Agreed, Counted
  <2>6. /\ usage \in Usages
        /\ lock \in Threads \cup {None} /\ devLock \in Threads \cup {None}
        /\ device \in {"listed", "erased", "deleted"}
        /\ loads \in 0..MaxLoads
    BY DEF Shape, Numbers
  <2> QED BY <2>1, <2>3, <2>4, <2>5, <2>6 DEF TypeOK
<1> QED BY <1>1, PipelineHeld, PTL

\* One thread at a time talks to the stick, though send_opt_data, allocate_graph and
\* soft_reset talk under the list lock and the tensors under the lock of the device.
THEOREM OneTalks == Spec => []NoOverlap
<1>1. Shape /\ Held /\ Agreed => NoOverlap
  <2> SUFFICES ASSUME Shape, Held, Agreed, OneResets, ~usage.reuse
               PROVE  Cardinality({t \in Threads : thr[t].pc \in Talking}) <= 1
    BY DEF NoOverlap
  <2> DEFINE S == {t \in Threads : thr[t].pc \in Talking}
  <2>1. \A s, t \in S : s = t
    BY TalksAlone DEF Agreed
  <2>2. S = {} \/ \E t : S = {t}
    BY <2>1
  <2> HIDE DEF S
  <2>3. Cardinality(S) = 0 \/ Cardinality(S) = 1
    BY <2>2, FS_EmptySet, FS_Singleton
  <2> QED BY <2>3 DEF S
<1> QED BY <1>1, PipelineHeld, PTL

\* What the stick has of a graph, counted.
LEMMA StagesCount ==
  ASSUME NEW g \in GraphType, NEW s \in StickType, NEW k, Stages(g, s, k)
  PROVE  /\ Cardinality({i \in {0, 1} : s.in[i] # 0})
              + (IF s.run # 0 THEN 1 ELSE 0) + (IF s.done # 0 THEN 1 ELSE 0) = k
         /\ k > 0 => s.run # 0 \/ s.done # 0
<1> DEFINE I == {i \in {0, 1} : s.in[i] # 0}
<1>1. g.outIdx \in {0, 1} /\ k \in 0..2
  BY DEF GraphType, Stages
<1>2. CASE Empty(g, s) /\ k = 0
  <2>1. I = {}
    BY <1>2 DEF Empty
  <2> HIDE DEF I
  <2>2. Cardinality(I) = 0
    BY <2>1, FS_EmptySet
  <2> QED BY <1>2, <2>2 DEF Empty, I
<1>3. CASE One(g, s) /\ k = 1
  <2>1. I = {}
    BY <1>1, <1>3 DEF One, First
  <2> HIDE DEF I
  <2>2. Cardinality(I) = 0
    BY <2>1, FS_EmptySet
  <2> QED BY <1>3, <2>2 DEF One, First, I
<1>4. CASE Two(g, s) /\ k = 2
  <2>1. I = {1 - g.outIdx}
    BY <1>1, <1>4 DEF Two, First
  <2> HIDE DEF I
  <2>2. Cardinality(I) = 1
    BY <2>1, FS_Singleton
  <2> QED BY <1>4, <2>2 DEF Two, First, I
<1> QED BY <1>2, <1>3, <1>4 DEF Stages

\* have_data and the tensor that is about to be counted are the tensors that the
\* stick has, and the stick is never left with an input that nothing will start.
THEOREM HostAgreesWithStick == Spec => []HostAndStickAgree
<1>1. Shape /\ Held /\ Agreed => HostAndStickAgree
  <2> SUFFICES ASSUME Shape, Held, Agreed, OneLoads, NEW a \in Addrs,
                      graph[a].st = "listed", graph[a].clean
               PROVE  /\ graph[a].have
                           + Cardinality({t \in Threads : thr[t].pc = "count" /\ thr[t].g = a})
                           = InFlight(a)
                      /\ InFlight(a) > 0 => stick.run # 0 \/ stick.done # 0
    BY DEF HostAndStickAgree
  <2> DEFINE C == {t \in Threads : thr[t].pc = "count" /\ thr[t].g = a}
             n == IF Counting THEN 1 ELSE 0
  <2>1. graph[a] \in GraphType /\ stick \in StickType
    BY DEF Shape
  <2>2. Stages(graph[a], stick, graph[a].have + n)
    BY DEF Agreed, Pipeline, Flows
  <2>3. InFlight(a) = graph[a].have + n
        /\ (graph[a].have + n > 0 => stick.run # 0 \/ stick.done # 0)
    BY <2>1, <2>2, StagesCount DEF InFlight
  <2>4. \A t \in Threads : thr[t].pc = "count" => thr[t].g = a
    BY DEF Held, OnListed, OnGraph, G, Agreed, Listing, OneGraph
  <2>5. \A s, t \in Threads : thr[s].pc = "count" /\ thr[t].pc = "count" => s = t
    BY DEF Held, HasDev, ByDev
  <2>6. (C = {} /\ n = 0) \/ ((\E t : C = {t}) /\ n = 1)
    BY <2>4, <2>5 DEF Counting
  <2> HIDE DEF C, n
  <2>7. Cardinality(C) = n
    BY <2>6, FS_EmptySet, FS_Singleton
  <2> QED BY <2>3, <2>7 DEF C
<1> QED BY <1>1, PipelineHeld, PTL

\* get_result returns a result with the parameter that load_tensor was given with
\* the same tensor.
THEOREM ResultHasItsParameter == Spec => []ResultPaired
<1>1. Agreed => ResultPaired
  BY DEF Agreed
<1> QED BY <1>1, PipelineHeld, PTL

-----------------------------------------------------------------------------
(* The refinement of TensorPipe.                                             *)

LEMMA ParamsOf ==
  ASSUME NEW g \in GraphType
  PROVE  /\ g.have = 0 => Params(g) = <<>>
         /\ g.have = 1 => Params(g) = <<g.param[g.outIdx]>>
         /\ g.have = 2 => Params(g) = <<g.param[g.outIdx], g.param[1 - g.outIdx]>>
<1> DEFINE o == g.outIdx
<1>1. o \in {0, 1} /\ g.param \in [{0, 1} -> Numbers]
  BY DEF GraphType
<1>2. (o + 1 - 1) % 2 = o /\ (o + 2 - 1) % 2 = 1 - o
  BY <1>1
<1> HIDE DEF o
<1>3. CASE g.have = 0
  BY <1>3 DEF Params
<1>4. CASE g.have = 1
  <2>1. Params(g) = [i \in 1..1 |-> g.param[(o + i - 1) % 2]]
    BY <1>4 DEF Params, o
  <2>2. [i \in 1..1 |-> g.param[(o + i - 1) % 2]] = <<g.param[o]>>
    BY <1>2
  <2> QED BY <1>4, <2>1, <2>2 DEF o
<1>5. CASE g.have = 2
  <2>1. Params(g) = [i \in 1..2 |-> g.param[(o + i - 1) % 2]]
    BY <1>5 DEF Params, o
  <2>2. [i \in 1..2 |-> g.param[(o + i - 1) % 2]] = <<g.param[o], g.param[1 - o]>>
    BY <1>2
  <2> QED BY <1>5, <2>1, <2>2 DEF o
<1> QED BY <1>3, <1>4, <1>5

LEMMA AppendTwo ==
  ASSUME NEW m, NEW n
  PROVE  Append(<<m>>, n) = <<m, n>>
<1> DEFINE S == {m, n}
           s == Append(<<m>>, n)
           t == <<m, n>>
<1>1. <<m>> \in Seq(S) /\ Len(<<m>>) = 1 /\ n \in S
  OBVIOUS
<1>2. s \in Seq(S) /\ Len(s) = 2 /\ s[1] = m /\ s[2] = n
  BY <1>1, AppendProperties
<1>3. t \in Seq(S) /\ Len(t) = 2 /\ t[1] = m /\ t[2] = n
  OBVIOUS
<1> HIDE DEF s, t
<1>4. s = t
  BY <1>2, <1>3, SeqEqual
<1> QED BY <1>4 DEF s, t

LEMMA ChooseOnly ==
  ASSUME NEW S, NEW a, S = {a}
  PROVE  (CHOOSE b \in S : TRUE) = a
  OBVIOUS

LEMMA QueueOf ==
  ASSUME Listing, NEW a \in Followed
  PROVE  Queue = Params(graph[a]) /\ Output = graph[a].out
<1>1. Followed = {a}
  BY DEF Followed, Listing, OneGraph
<1>2. (CHOOSE b \in Followed : TRUE) = a
  BY <1>1, ChooseOnly
<1> QED BY <1>1, <1>2 DEF Queue, Output


\* A step on a graph that was followed and still is.
LEMMA FollowedStep ==
  ASSUME Shape, Held, Agreed, [Next]_vars, OneLoads, OneResets, NEW a \in Addrs,
         graph[a].st = "listed", graph[a].clean,
         graph'[a] \in GraphType, graph'[a].st = "listed", graph'[a].clean,
         Queue = Params(graph[a]), Output = graph[a].out,
         Queue' = Params(graph'[a]), Output' = graph'[a].out
  PROVE  Pipe!Next \/ UNCHANGED <<Queue, Output>>
<1> DEFINE g == graph[a]
           h == graph'[a]
           o == g.outIdx
           Goal == Pipe!Next \/ UNCHANGED <<Queue, Output>>
<1>1. g \in GraphType /\ o \in {0, 1} /\ stick \in StickType
  BY DEF Shape, GraphType
<1>2. Flows(g) /\ ResultPaired
  BY DEF Agreed, Pipeline
\* A step on one graph: it is this one.
<1>3. ASSUME NEW b, Alone(b)
      PROVE  b = a
  BY <1>3 DEF Alone, Agreed, Listing, OneGraph
<1>4. \A u, v \in Threads : thr[u].pc \in ByDev /\ thr[v].pc \in ByDev => u = v
  BY DEF Held, HasDev
\* A step that leaves the pipeline and the output buffer as they are.
<1>5. ASSUME Pipes(h) = Pipes(g), h.out = g.out
      PROVE  Goal
  <2>1. Params(h) = Params(g)
    BY <1>5 DEF Pipes, Params
  <2> QED BY <1>5, <2>1
<1> SUFFICES Goal
  OBVIOUS
<1> HIDE DEF Goal
<1>6. ASSUME graph' = graph
      PROVE  Goal
  BY <1>5, <1>6
<1>7. ASSUME NEW t \in Threads, LoadOptions(t) \/ Option(t)
      PROVE  Goal
  <2>1. \/ graph' = graph
        \/ /\ Alone(thr[t].g) /\ graph'[thr[t].g].out = G(t).out
           /\ Pipes(graph'[thr[t].g]) = Pipes(G(t))
    BY <1>7, OptionsEffect, OptionEffect
  <2> QED BY <1>3, <1>5, <1>6, <2>1 DEF G
<1>8. ASSUME NEW t \in Threads, LoadDevice(t) \/ GetLate(t) \/ Call(t) \/ Calm(t) \/ Add(t)
      PROVE  Goal
  BY <1>6, <1>8, DeviceEffect, LateEffect, CallEffect, AddEffect DEF Calm
<1>9. ASSUME NEW t \in Threads, LoadSendFails(t) \/ GetFails(t) \/ GetDrop(t) \/ Alloc(t)
      PROVE  FALSE
  <2>1. CASE Alloc(t)
    BY <2>1, AllocEffect DEF Agreed, Listing, NoGraph
  <2>2. CASE LoadSendFails(t) \/ GetFails(t) \/ GetDrop(t)
    <3>1. Alone(thr[t].g) /\ ~graph'[thr[t].g].clean
      BY <2>2, FailEffect, FailsEffect, DropEffect
    <3> QED BY <1>3, <3>1
  <2> QED BY <1>9, <2>1, <2>2
\* The tensor is written to the place that no result is expected of.
<1>10. ASSUME NEW t \in Threads, LoadSend(t)
       PROVE  Goal
  <2>1. thr[t].g = a /\ G(t) = g
    BY <1>3, <1>10, SendEffect DEF G
  <2>2. /\ thr[t].pc = "send" /\ h.have = g.have /\ h.out = g.out /\ h.outIdx = o
        /\ h.param[1 - g.inIdx] = g.param[1 - g.inIdx]
    BY <1>10, <2>1, SendEffect, ZenonT(30)
  <2>3. ~Counting /\ g.have # 2
    BY <1>2, <1>4, <2>2 DEF Counting, ByDev, Flows
  <2>4. g.have \in Int /\ Stages(g, stick, g.have)
    BY <1>1, <1>2, <2>3 DEF Flows, GraphType
  <2>5. g.have \in {0, 1} /\ (g.have = 1 => 1 - g.inIdx = o)
    BY <1>1, <2>3, <2>4 DEF Stages, One
  <2> HIDE DEF h, g, o
  <2>6. Params(h) = Params(g)
    BY <1>1, <2>2, <2>5, ParamsOf DEF g, h, o
  <2> QED BY <2>2, <2>6 DEF Goal, g, h
<1>11. ASSUME NEW t \in Threads, LoadCount(t)
       PROVE  Goal
  <2> DEFINE n == thr[t].n
  <2>1. thr[t].g = a /\ G(t) = g
    BY <1>3, <1>11, CountEffect DEF G
  <2>2. /\ thr[t].pc = "count" /\ h.have = thr[t].seen + 1 /\ h.out = g.out
        /\ h.outIdx = o /\ h.param = g.param
    BY <1>11, <2>1, CountEffect
  <2>3. g.have \in Nat /\ Stages(g, stick, g.have + 1) /\ h.have = g.have + 1
    BY <1>1, <1>2, <2>2 DEF Counting, Flows, GraphType
  <2>4. n # 0 /\ n \in Numbers /\ g.param[1 - g.inIdx] = n /\ g.param[g.inIdx] # n
    BY <2>1, <2>2 DEF Agreed, Newer, Doing, OfLoad, Shape, ThreadType
  <2>5. n \in 1..MaxLoads
    BY <2>4, MvNcAssumption DEF Numbers
  <2>6. \/ g.have = 0 /\ g.inIdx = 1 - o
        \/ g.have = 1 /\ g.inIdx = o
    BY <2>3 DEF Stages, One, Two
  <2>7. 1 - (1 - o) = o
    BY <1>1
  <2> HIDE DEF h, g, o, n
  <2>8. \/ Params(g) = <<>> /\ Params(h) = <<n>>
        \/ \E m : m # n /\ Params(g) = <<m>> /\ Params(h) = <<m, n>>
    BY <1>1, <2>2, <2>3, <2>4, <2>6, <2>7, ParamsOf DEF g, h, o
  <2>9. \/ Queue = <<>> /\ Queue' = <<n>>
        \/ \E m : m # n /\ Queue = <<m>> /\ Queue' = <<m, n>>
    BY <2>8 DEF g, h
  <2>10. Output' = Output
    BY <2>2 DEF g, h
  <2>11. ASSUME Queue = <<>>, Queue' = <<n>>
         PROVE  Pipe!Load(n)
    BY <2>10, <2>11 DEF Pipe!Load
  <2>12. ASSUME NEW m, m # n, Queue = <<m>>, Queue' = <<m, n>>
         PROVE  Pipe!Load(n)
    BY <2>10, <2>12, AppendTwo DEF Pipe!Load
  <2>13. Pipe!Load(n)
    BY <2>9, <2>11, <2>12
  <2> QED BY <2>5, <2>13 DEF Goal, Pipe!Next
<1>12. ASSUME NEW t \in Threads, GetOutput(t)
       PROVE  Goal
  <2>1. thr[t].g = a /\ G(t) = g
    BY <1>3, <1>12, OutputEffect DEF G
  <2>2. thr[t].pc = "output" /\ stick.done # 0 /\ h.out = stick.done /\ Pipes(h) = Pipes(g)
    BY <1>12, <2>1, OutputEffect
  <2>3. ~Counting
    BY <1>4, <2>2 DEF Counting, ByDev
  <2>4. g.have \in Int /\ Stages(g, stick, g.have)
    BY <1>1, <1>2, <2>3 DEF Flows, GraphType
  <2>5. g.have \in {1, 2} /\ stick.done = g.param[o]
    BY <2>2, <2>4 DEF Stages, Empty, One, Two, First
  <2>6. Params(h) = Params(g)
    BY <2>2 DEF Pipes, Params
  <2> HIDE DEF h, g, o
  <2>7. Params(g) # <<>> /\ Head(Params(g)) = stick.done
    BY <1>1, <2>5, ParamsOf DEF g, o
  <2>8. Pipe!Fetch
    BY <2>2, <2>6, <2>7 DEF Pipe!Fetch, g, h
  <2> QED BY <2>8 DEF Goal, Pipe!Next
<1>13. ASSUME NEW t \in Threads, GetAux(t)
       PROVE  Goal
  <2>1. thr[t].g = a /\ G(t) = g
    BY <1>3, <1>13, AuxEffect DEF G
  <2>2. LET k == graph'[thr[t].g]
        IN  /\ thr[t].pc = "aux" /\ k.have = G(t).have - 1 /\ k.out = G(t).out
            /\ k.outIdx = 1 - G(t).outIdx /\ k.param = G(t).param
    BY <1>13, AuxEffect
  <2>3. /\ thr[t].pc = "aux" /\ h.have = g.have - 1 /\ h.out = g.out
        /\ h.outIdx = 1 - o /\ h.param = g.param
    BY <2>1, <2>2
  <2>4. ~Counting /\ stick.done # 0
    BY <1>2, <1>4, <2>3 DEF Counting, ByDev, Flows
  <2>5. g.have \in Int /\ Stages(g, stick, g.have)
    BY <1>1, <1>2, <2>4 DEF Flows, GraphType
  <2>6. g.have \in {1, 2}
    BY <2>4, <2>5 DEF Stages, Empty
  <2>7. g.out = g.param[o]
    BY <1>2, <2>1, <2>3 DEF ResultPaired
  <2> HIDE DEF h, g, o
  <2>8. \/ Params(g) = <<g.out>> /\ Params(h) = <<>>
        \/ \E m : Params(g) = <<g.out, m>> /\ Params(h) = <<m>>
    BY <1>1, <2>3, <2>6, <2>7, ParamsOf DEF g, h, o
  <2>9. Output = g.out /\ Output' = Output
    BY <2>3 DEF g, h
  <2>10. ASSUME Queue = <<Output>>, Queue' = <<>>
         PROVE  Pipe!Return
    BY <2>9, <2>10 DEF Pipe!Return
  <2>11. ASSUME NEW m, Queue = <<Output, m>>, Queue' = <<m>>
         PROVE  Pipe!Return
    BY <2>9, <2>11 DEF Pipe!Return
  <2>12. Pipe!Return
    BY <2>8, <2>9, <2>10, <2>11 DEF g, h
  <2> QED BY <2>12 DEF Goal, Pipe!Next
<1>14. ASSUME NEW t \in Threads, Reset(t)
       PROVE  Goal
  <2>1. Pipes(h) = Pipes(g) /\ h.out = 0
    BY <1>14, ResetEffect
  <2>2. Params(h) = Params(g)
    BY <2>1 DEF Pipes, Params
  <2>3. Pipe!Clear
    BY <2>1, <2>2 DEF Pipe!Clear
  <2> QED BY <2>3 DEF Goal, Pipe!Next
<1>15. ASSUME NEW t \in Threads, NEW as, Deletes(t, as)
       PROVE  Goal
  <2>1. h = g
    BY <1>15 DEF Deletes, Freed, NewGraph
  <2> QED BY <1>5, <2>1
<1>16. CASE StickDone \/ UNCHANGED vars
  BY <1>6, <1>16 DEF StickDone, vars
<1>17. ASSUME NEW t \in Threads, Deed(t)
       PROVE  Goal
  BY <1>7, <1>8, <1>9, <1>10, <1>11, <1>12, <1>13, <1>14, <1>17 DEF Deed
<1> QED BY <1>8, <1>15, <1>16, <1>17, Kinds, DeallocEffect, DeleteEffect

\* A graph that becomes followed is a new one.
LEMMA NewlyFollowed ==
  ASSUME Shape, Held, [Next]_vars, NEW a \in Addrs,
         ~(graph[a].st = "listed" /\ graph[a].clean),
         graph'[a].st = "listed", graph'[a].clean
  PROVE  graph'[a] = NewGraph
<1>1. ASSUME NEW b, Alone(b)
      PROVE  graph'[a] = graph[a] \/ (a = b /\ graph[a].st = "listed" /\ ~graph[a].clean)
  BY <1>1 DEF Alone
<1>2. ASSUME NEW t \in Threads, Deed(t), ~Alloc(t)
      PROVE  FALSE
  <2>1. CASE LoadOptions(t) \/ GetOutput(t) \/ Option(t)
    <3>1. graph' = graph \/ (Alone(thr[t].g) /\ Pipes(graph'[thr[t].g]) = Pipes(G(t)))
      BY <2>1, OptionsEffect, OutputEffect, OptionEffect
    <3> QED BY <1>1, <3>1 DEF Pipes, G
  <2>2. CASE LoadDevice(t) \/ GetLate(t)
    BY <2>2, DeviceEffect, LateEffect
  <2>3. CASE LoadSend(t) \/ LoadCount(t)
    <3>1. Alone(thr[t].g) /\ graph'[thr[t].g].clean = G(t).clean
      BY <2>3, SendEffect, CountEffect
    <3> QED BY <1>1, <3>1 DEF G
  <2>4. CASE GetAux(t)
    <3>1. Alone(thr[t].g) /\ graph'[thr[t].g].clean = G(t).clean
      BY <2>4, AuxEffect
    <3> QED BY <1>1, <3>1 DEF G
  <2>5. CASE LoadSendFails(t) \/ GetFails(t) \/ GetDrop(t)
    <3>1. Alone(thr[t].g) /\ ~graph'[thr[t].g].clean
      BY <2>5, FailEffect, FailsEffect, DropEffect
    <3> QED BY <1>1, <3>1
  <2>6. CASE Reset(t)
    BY <2>6, ResetEffect DEF Pipes
  <2> QED BY <1>2, <2>1, <2>2, <2>3, <2>4, <2>5, <2>6 DEF Deed
<1>3. ASSUME NEW t \in Threads, Alloc(t)
      PROVE  graph'[a] = NewGraph
  BY <1>3, AllocEffect
<1>4. ASSUME NEW t \in Threads, Call(t) \/ Calm(t) \/ Add(t)
      PROVE  FALSE
  BY <1>4, CallEffect, AddEffect DEF Calm
<1>5. ASSUME NEW t \in Threads, NEW as, Deletes(t, as)
      PROVE  FALSE
  <2>1. Freed.st = "freed"
    BY DEF Freed, NewGraph
  <2>2. graph'[a] = graph[a] \/ graph'[a] = Freed
    BY <1>5 DEF Deletes
  <2> QED BY <2>1, <2>2
<1>6. ASSUME StickDone \/ UNCHANGED vars
      PROVE  FALSE
  BY <1>6 DEF StickDone, vars
<1> QED BY <1>2, <1>3, <1>4, <1>5, <1>6, Kinds, DeallocEffect, DeleteEffect

\* Every step is a step of the queue or leaves it alone.
LEMMA NextPipe ==
  ASSUME Shape, Held, Agreed, Shape', Agreed', [Next]_vars
  PROVE  Pipe!Next \/ UNCHANGED <<Queue, Output>>
<1>1. CASE Followed' = {}
  <2>1. Queue' = <<>> /\ Output' = 0
    BY <1>1 DEF Queue, Output
  <2>2. Pipe!Abandon
    BY <2>1 DEF Pipe!Abandon
  <2> QED BY <2>2 DEF Pipe!Next
<1>2. ASSUME NEW a \in Followed'
      PROVE  Pipe!Next \/ UNCHANGED <<Queue, Output>>
  <2>1. /\ a \in Addrs /\ graph'[a].st = "listed" /\ graph'[a].clean
        /\ OneLoads' /\ OneResets' /\ graph'[a] \in GraphType
    BY <1>2 DEF Followed, Shape
  <2>2. OneLoads /\ OneResets
    <3>1. usage' = usage
      BY NextDoing DEF Agreed
    <3> QED BY <2>1, <3>1 DEF OneLoads, OneResets
  <2>3. Followed' = {a}
    BY <1>2 DEF Followed, Agreed, Listing, OneGraph
  <2>4. Queue' = Params(graph'[a]) /\ Output' = graph'[a].out
    <3>1. (CHOOSE b \in Followed' : TRUE) = a
      BY <2>3, ChooseOnly
    <3> QED BY <2>3, <3>1 DEF Queue, Output
  <2>5. CASE graph[a].st = "listed" /\ graph[a].clean
    <3>1. a \in Followed
      BY <2>1, <2>2, <2>5 DEF Followed
    <3>2. Queue = Params(graph[a]) /\ Output = graph[a].out
      BY <3>1, QueueOf DEF Agreed
    <3> QED BY <2>1, <2>2, <2>4, <2>5, <3>2, FollowedStep
  <2>6. CASE ~(graph[a].st = "listed" /\ graph[a].clean)
    <3>1. graph'[a] = NewGraph
      BY <2>1, <2>6, NewlyFollowed
    <3>2. NewGraph.have = 0 /\ NewGraph.out = 0
      BY DEF NewGraph
    <3>3. Params(graph'[a]) = <<>>
      BY <2>1, <3>1, <3>2, ParamsOf
    <3>4. Queue' = <<>> /\ Output' = 0
      BY <2>4, <3>1, <3>2, <3>3
    <3>5. Pipe!Abandon
      BY <3>4 DEF Pipe!Abandon
    <3> QED BY <3>5 DEF Pipe!Next
  <2> QED BY <2>5, <2>6
<1> QED BY <1>1, <1>2

\* A graph of NCAPI v1 is a queue of two tensors: load_tensor appends, and get_result
\* returns the result of the first, once; until a result is given up or the graph is
\* deleted, and as long as one thread loads and soft_reset is not called beside it.
THEOREM GraphIsPipe == Spec => IsPipe
<1>1. Init => Pipe!Init
  <2> SUFFICES ASSUME Init
               PROVE  Pipe!Init
    OBVIOUS
  <2>1. Followed = {}
    BY DEF Init, Followed, Unused, NewGraph
  <2> QED BY <2>1 DEF Pipe!Init, Queue, Output
<1>2. /\ Shape /\ Held /\ Agreed /\ (Shape /\ Held /\ Agreed)' /\ [Next]_vars
      => [Pipe!Next]_<<Queue, Output>>
  BY NextPipe
<1> QED BY <1>1, <1>2, PipelineHeld, PTL DEF Spec, IsPipe, Pipe!Spec

=============================================================================
