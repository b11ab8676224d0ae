------------------------- MODULE NcApi2ParamProofs -------------------------
(***************************************************************************)
(* The theorem that a result of NCAPI v2 comes with the user parameter of  *)
(* its element, for any number of threads, graphs and fifos. The invariant *)
(* says where each parameter is: beside the elements of an input in their  *)
(* order, with the trigger that took it, or beside the results of an       *)
(* output and the jobs that will make them.                                *)
(***************************************************************************)
EXTENDS NcApi2PipeProofs

-----------------------------------------------------------------------------
(* The fifos that a call may use.                                            *)

\* The uses in which results and parameters stay together.
Pairing ==
  /\ Pipelined /\ FifosAllocated
  /\ usage.consumers = 1 /\ ~\E f \in Fifos : ChainedOutput(f)

\* What the list leads to is allocated or about to be.
Linked(f) == fifo[f].st # "created" \/ \E t \in Threads : Linking(t) /\ thr[t].f = f
LinksLive ==
  /\ head.fifos # None => Linked(head.fifos)
  /\ \A f \in Fifos : next[f] # None => Linked(next[f])
\* A fifo has no parameters before it is allocated.
Fresh == \A f \in Fifos : fifo[f].st = "created" => fifo[f].in = <<>> /\ fifo[f].out = <<>>
\* A call that is under way uses fifos that are allocated. (A trigger on an input that the
\* host writes takes no result from XLink.)
Begun(t) ==
  /\ thr[t].op = "WRITE" /\ thr[t].pc \in {"send", "count"} => fifo[thr[t].f].st # "created"
  /\ thr[t].op = "QUEUE" /\ thr[t].pc # "enter" =>
       fifo[thr[t].f].st # "created" /\ fifo[thr[t].o].st # "created" /\ thr[t].pc # "drain"
AllBegun == \A t \in Threads : Begun(t)
FreshInv == Pairing => LinksLive /\ Fresh /\ AllBegun

LEMMA PairingMeans ==
  ASSUME HoldInv, Pairing
  PROVE  /\ Alone({"WRITE"}) /\ Alone({"QUEUE"}) /\ Alone({"READ"})
         /\ Pipelined /\ FifosAllocated
         /\ \A f \in Fifos : usage.type[f] \in {"WO", "RO"} /\ (Chained(f) => usage.type[f] = "WO")
         /\ \A t \in Threads : thr[t].op \notin {"CLOSE", "FDESTROY"}
<1>1. /\ Alone({"WRITE"}) /\ Alone({"QUEUE"}) /\ Alone({"READ"}) /\ Pipelined /\ FifosAllocated
      /\ Callers({"CLOSE", "FDESTROY"}) = {}
  BY DEF Pairing, Pipelined
<1>2. \A f \in Fifos : usage.type[f] \in {"WO", "RO"}
  BY NcAssumption DEF HoldInv, ThreadInv, ThrOK
<1>3. \A f \in Fifos : Chained(f) => usage.type[f] # "RO"
  BY DEF Pairing, ChainedOutput
<1>4. ASSUME NEW t \in Threads, thr[t].op \in {"CLOSE", "FDESTROY"} PROVE FALSE
  <2>1. thr[t].pc # "idle"
    BY <1>4, InCall
  <2>2. t \in Callers({"CLOSE", "FDESTROY"})
    BY <1>4, <2>1 DEF HoldInv, ThreadInv, Calling, SameCall, Callers
  <2>3. QED
    BY <1>1, <2>2
<1>5. QED
  BY <1>1, <1>2, <1>3, <1>4

\* The input of a trigger is an input.
LEMMA TriggerInput ==
  ASSUME HoldInv, NEW t \in Threads, thr[t].op = "QUEUE"
  PROVE  Chained(thr[t].f) /\ thr[t].f \in Fifos /\ thr[t].o \in Fifos
<1>1. thr[t].pc # "idle"
  BY InCall
<1>2. Chained(thr[t].f)
  BY <1>1 DEF HoldInv, ThreadInv, Calling, SameCall, Chained
<1>3. QED
  BY <1>1, <1>2, CallHas DEF HoldInv, ThreadInv

LEMMA StatesRise ==
  ASSUME HoldInv, DataShape, NEW t \in Threads, OpsOf(t), NEW f \in Fifos, fifo'[f].st = "created"
  PROVE  fifo[f].st = "created"
<1>1. CASE Close(t)
  BY <1>1, CloseDoes
<1>2. CASE ~Close(t)
  BY <1>2, FifoStatesGo
<1>3. QED
  BY <1>1, <1>2

\* An allocation that has linked its fifo ends with the fifo allocated.
LEMMA LinkingGoes ==
  ASSUME HoldInv, DataInv, RespInv, FifosAllocated, DeviceKnown, NEW t \in Threads,
         Linking(t), OpsOf(t)
  PROVE  (Linking(t)' /\ thr'[t].f = thr[t].f) \/ fifo'[thr[t].f].st = "allocated"
<1>1. DataShape /\ FifoShape /\ thr[t].op = "FALLOC" /\ thr[t].pc \in {"send", "check"}
  BY DEF DataInv, DataShape, Linking
<1>2. FAllocSend(t) \/ FAllocCheck(t)
  BY <1>1 DEF OpsOf, DeviceOps, FifoAllocs, FAllocRead, FAllocFind, FAllocLink, At
<1>3. CASE FAllocSend(t)
  <2>1. thr[t].pc = "send"
    BY <1>3 DEF FAllocSend, At
  <2>2. ~SendFails(t)
    BY <1>1, <2>1 DEF DeviceKnown, Allocates, SendFails, FifosAllocated, Fails
  <2>3. Goes(t, "check")
    BY <1>1, <1>3, <2>1, <2>2, FAllocRestDoes
  <2>4. QED
    BY <1>1, <2>3 DEF Linking, Goes, KeepsWhat, SameCall
<1>4. CASE FAllocCheck(t)
  <2>1. thr[t].pc = "check"
    BY <1>4 DEF FAllocCheck, At
  <2>2. ~(resp # <<>> /\ ~Head(resp).ok)
    <3>1. usage.failing \cap Leaving = {}
      BY DEF FifosAllocated
    <3>2. CASE resp = <<>>
      BY <3>2
    <3>3. ASSUME NEW u \in Threads, NEW ok \in BOOLEAN, resp = <<AnswerOf(u, ok)>>,
                 thr[u].pc \in {"data", "check"}, ok \/ Fails(u, "refuse")
          PROVE  Head(resp).ok
      <4>1. u = t
        BY <2>1, <3>3, OneReader
      <4>2. ok
        BY <1>1, <3>3, <4>1 DEF Fails, FifosAllocated
      <4>3. QED
        BY <3>3, <4>2 DEF AnswerOf
    <3>4. QED
      BY <3>1, <3>2, <3>3 DEF RespInv
  <2>3. ~Fails(t, "check")
    BY <1>1 DEF FifosAllocated, Fails
  <2>4. QED
    BY <1>1, <1>4, <2>1, <2>2, <2>3, FAllocRestDoes
<1>5. QED
  BY <1>2, <1>3, <1>4

LEMMA LinkedStays ==
  ASSUME HoldInv, DataInv, RespInv, FifosAllocated, DeviceKnown, NEW t \in Threads, OpsOf(t),
         OnlyThread(t), NEW f \in Fifos, Linked(f)
  PROVE  Linked(f)'
<1>1. DataShape
  BY DEF DataInv
<1>2. CASE fifo[f].st # "created"
  BY <1>1, <1>2, StatesRise DEF Linked
<1>3. ASSUME NEW s \in Threads, Linking(s), thr[s].f = f
      PROVE  Linked(f)'
  <2>1. CASE s # t
    BY <1>3, <2>1 DEF OnlyThread, Linking, Linked
  <2>2. CASE s = t
    BY <1>3, <2>2, LinkingGoes DEF Linked
  <2>3. QED
    BY <2>1, <2>2
<1>4. QED
  BY <1>2, <1>3 DEF Linked

LEMMA ListLinked ==
  ASSUME ObjectShape, LinksLive
  PROVE  \A f \in List(head.fifos) : Linked(f)
<1>1. PICK S : S = {f \in Fifos : Linked(f)}
  OBVIOUS
<1>2. PICK h : h = head.fifos
  OBVIOUS
<1>3. S \in SUBSET Objs /\ h \in S \cup {None}
  BY <1>1, <1>2, ListsApart DEF ObjectShape, LinksLive, Objs
<1>4. \A y \in S : next[y] \in S \cup {None}
  BY <1>1 DEF ObjectShape, ListsShape, LinksLive
<1>5. Led(next, h) \subseteq S
  BY <1>3, <1>4, LedLeast
<1>6. QED
  BY <1>1, <1>2, <1>5, ListLed

LEMMA LinksStay ==
  ASSUME HoldInv, DataInv, ObjectShape, RespInv, FifosAllocated, DeviceKnown, LinksLive,
         NEW t \in Threads, OpsOf(t), OnlyThread(t), thr[t].op # "FDESTROY"
  PROVE  LinksLive'
<1>0. FifoShape /\ \A f \in Fifos : Linked(f) => Linked(f)'
  BY LinkedStays DEF DataInv, DataShape
<1>1. /\ head.fifos \in Fifos \cup {None} /\ \A f \in Fifos : next[f] \in Fifos \cup {None}
      /\ next = [x \in Objs |-> next[x]] /\ DOMAIN head = {"graphs", "fifos"}
  BY ListsApart DEF ObjectShape, ListsShape, Pointers
<1>2. CASE Close(t)
  <2>1. head'.fifos = None /\ next' = next
    BY <1>2 DEF Close
  <2>2. QED
    BY <1>0, <1>1, <2>1 DEF LinksLive
<1>3. CASE ~Close(t) /\ thr[t].op # "FALLOC"
  <2>1. FifosStay
    BY <1>3, OthersLeaveFifos
  <2>2. QED
    BY <1>0, <1>1, <2>1 DEF LinksLive, FifosStay
<1>4. CASE FAllocRead(t) \/ FAllocSend(t) \/ FAllocCheck(t)
  <2>1. UNCHANGED <<head, next>>
    BY <1>4, Zenon DEF FAllocRead, FAllocSend, FAllocCheck
  <2>2. QED
    BY <1>0, <1>1, <2>1 DEF LinksLive
<1>5. CASE FAllocFind(t)
  <2>1. /\ thr[t].f \in Fifos /\ head' = head
        /\ next' = next \/ next' = [next EXCEPT ![thr[t].f] = head.fifos]
    BY <1>0, <1>5, FAllocFindDoes
  <2>2. \A f \in Fifos : next'[f] = next[f] \/ next'[f] = head.fifos
    BY <1>1, <2>1 DEF Objs
  <2>3. QED
    BY <1>0, <1>1, <2>1, <2>2 DEF LinksLive
<1>6. CASE FAllocLink(t)
  <2>1. thr[t].pc = "link" /\ thr[t].op = "FALLOC"
    BY <1>6 DEF FAllocLink, At
  <2>2. /\ thr[t].f \in Fifos /\ head' = [head EXCEPT !.fifos = thr[t].f] /\ next' = next
        /\ (thr'[t] = Idle /\ Fails(t, "open")) \/ Goes(t, "send")
    BY <1>0, <1>6, <2>1, FAllocRestDoes
  <2>3. Goes(t, "send")
    BY <2>1, <2>2 DEF FifosAllocated, Fails
  <2>4. PICK h \in Fifos : h = thr[t].f
    BY <2>2
  <2>5. head'.fifos = h /\ Linked(h)'
    BY <1>1, <2>1, <2>2, <2>3, <2>4 DEF Linked, Linking, Goes, KeepsWhat, SameCall
  <2>6. QED
    BY <1>0, <1>1, <2>2, <2>5 DEF LinksLive
<1>7. QED
  BY <1>2, <1>3, <1>4, <1>5, <1>6 DEF OpsOf, FifoAllocs, DeviceOps

\* A fifo that is found or allocated is allocated, since no other call is about a fifo that
\* is being allocated.
LEMMA FoundAllocated ==
  ASSUME HoldInv, ObjectShape, LinksLive, NEW t \in Threads, thr[t].op = "WRITE",
         Found(thr[t].f) \/ fifo[thr[t].f].st = "allocated"
  PROVE  fifo[thr[t].f].st # "created"
<1>1. CASE Found(thr[t].f)
  <2>1. Linked(thr[t].f)
    BY <1>1, ListLinked DEF Found
  <2>2. ASSUME NEW s \in Threads, Linking(s), thr[s].f = thr[t].f PROVE FALSE
    <3>1. thr[s].op = "FALLOC" /\ t # s
      BY <2>2 DEF Linking
    <3>2. QED
      BY <2>2, <3>1, FifoApart DEF DeviceOps
  <2>3. QED
    BY <2>1, <2>2 DEF Linked
<1>2. QED
  BY <1>1

LEMMA BegunStays ==
  ASSUME HoldInv, DataInv, ObjectShape, Pairing, LinksLive, AllBegun,
         NEW t \in Threads, OpsOf(t), Steps(t), thr[t].pc # "idle"
  PROVE  AllBegun'
<1>0. DataShape /\ OnlyThread(t) /\ (thr'[t] = Idle \/ SameCall(thr'[t], thr[t]))
  BY DEF DataInv, Steps, Advances, OnlyThread
<1>1. \A f \in Fifos : fifo[f].st # "created" => fifo'[f].st # "created"
  BY <1>0, StatesRise
<1>2. ASSUME NEW s \in Threads, s # t PROVE Begun(s)'
  <2>1. thr'[s] = thr[s] /\ Begun(s)
    BY <1>0, <1>2 DEF OnlyThread, AllBegun
  <2>2. CASE thr[s].pc = "idle"
    BY <2>1, <2>2, InCall DEF Begun
  <2>3. CASE thr[s].pc # "idle"
    <3>1. /\ thr[s].op \in {"WRITE", "QUEUE"} => thr[s].f \in Fifos
          /\ thr[s].op = "QUEUE" => thr[s].o \in Fifos
      BY <2>3, CallHas DEF HoldInv, ThreadInv
    <3>2. QED
      BY <1>1, <2>1, <3>1 DEF Begun
  <2>4. QED
    BY <2>2, <2>3
<1>3. Begun(t)'
  <2>1. CASE thr'[t] = Idle
    BY <2>1 DEF Begun, Idle
  <2>2. CASE thr'[t] # Idle /\ thr[t].op \notin {"WRITE", "QUEUE"}
    BY <1>0, <2>2 DEF Begun, SameCall
  <2>3. CASE thr'[t] # Idle /\ thr[t].op = "WRITE"
    <3>1. thr[t].f \in Fifos /\ thr'[t].f = thr[t].f /\ thr'[t].op = "WRITE"
      BY <1>0, <2>3, CallHas DEF HoldInv, ThreadInv, SameCall
    <3>2. Writes(t)
      BY <2>3 DEF OpsOf, DeviceOps
    <3>3. CASE WriteEnter(t)
      <4>1. Goes(t, "crashed") \/ Found(thr[t].f) \/ fifo[thr[t].f].st = "allocated"
        BY <2>3, <3>3, WriteEnterDoes
      <4>2. CASE Goes(t, "crashed")
        BY <3>1, <4>2 DEF Begun, Goes
      <4>3. CASE ~Goes(t, "crashed")
        BY <1>1, <2>3, <3>1, <4>1, <4>3, FoundAllocated DEF Begun
      <4>4. QED
        BY <4>2, <4>3
    <3>4. CASE WriteSend(t)
      <4>1. thr[t].pc = "send" /\ Begun(t)
        BY <3>4 DEF WriteSend, At, AllBegun
      <4>2. QED
        BY <1>1, <2>3, <3>1, <4>1 DEF Begun
    <3>5. CASE WriteCount(t)
      BY <1>0, <2>3, <3>5, WriteCountDoes
    <3>6. QED
      BY <3>2, <3>3, <3>4, <3>5 DEF Writes
  <2>4. CASE thr'[t] # Idle /\ thr[t].op = "QUEUE"
    <3>1. /\ thr[t].f \in Fifos /\ thr[t].o \in Fifos /\ Chained(thr[t].f)
          /\ thr'[t].f = thr[t].f /\ thr'[t].o = thr[t].o /\ thr'[t].op = "QUEUE"
      BY <1>0, <2>4, TriggerInput DEF SameCall
    <3>2. Triggers(t)
      BY <2>4 DEF OpsOf, DeviceOps
    <3>3. CASE QueueEnter(t) \/ QueueCheck(t)
      <4>1. /\ thr'[t].pc = "in" /\ fifo[thr[t].f].st = "allocated"
            /\ fifo[thr[t].o].st = "allocated" /\ fifo' = fifo
        BY <2>4, <3>3, QueueRestDoes DEF Goes
      <4>2. QED
        BY <3>1, <4>1 DEF Begun
    <3>4. CASE ~(QueueEnter(t) \/ QueueCheck(t))
      <4>1. thr[t].pc # "enter"
        BY <3>2, <3>4 DEF Triggers, QueueIn, QueueDrain, QueueTake, QueueOut, QueueSend, At
      <4>2. fifo'[thr[t].f].st # "created" /\ fifo'[thr[t].o].st # "created"
        BY <1>1, <2>4, <3>1, <4>1 DEF AllBegun, Begun
      <4>3. thr'[t].pc # "drain"
        <5>1. CASE QueueIn(t)
          <6>1. fifo[thr[t].f].type # "RO"
            BY <3>1, PairingMeans DEF DataInv, FifosTyped, CountsTyped
          <6>2. QED
            BY <1>0, <5>1, <6>1, QueueInDoes DEF Goes
        <5>2. CASE ~QueueIn(t)
          BY <1>0, <2>4, <3>2, <3>4, <5>2, QueueDrainDoes, QueueTakeDoes, QueueOutDoes,
             QueueSendDoes DEF Triggers, Goes
        <5>3. QED
          BY <5>1, <5>2
      <4>4. QED
        BY <3>1, <4>2, <4>3 DEF Begun
    <3>5. QED
      BY <3>3, <3>4
  <2>5. QED
    BY <2>1, <2>2, <2>3, <2>4
<1>4. QED
  BY <1>2, <1>3 DEF AllBegun

LEMMA FreshStays ==
  ASSUME HoldInv, DataInv, Fresh, AllBegun, NEW t \in Threads, OpsOf(t), thr[t].op # "FDESTROY"
  PROVE  Fresh'
<1>0. DataShape /\ FifoShape
  BY DEF DataInv, DataShape
<1> SUFFICES ASSUME NEW f \in Fifos, fifo'[f].st = "created"
             PROVE  fifo'[f].in = <<>> /\ fifo'[f].out = <<>>
  BY DEF Fresh
<1>1. fifo[f].st = "created" /\ fifo[f].in = <<>> /\ fifo[f].out = <<>>
  BY <1>0, StatesRise DEF Fresh
<1>2. CASE Close(t)
  BY <1>0, <1>1, <1>2, CloseDoes
<1>3. CASE ~Close(t) /\ (Devices(t) \/ GraphCalls(t))
  BY <1>1, <1>3, DevicesDo, GraphsDo
<1>4. CASE SetType(t) \/ SetDesc(t)
  BY <1>0, <1>1, <1>4, OptionDoes DEF OthersSame, ElementsSame
<1>5. CASE FifoAllocs(t)
  <2>1. CASE FAllocRead(t)
    BY <1>1, <2>1, FAllocReadDoes
  <2>2. CASE FAllocFind(t)
    BY <1>0, <1>1, <2>2, FAllocFindDoes DEF OthersSame, ElementsSame
  <2>3. CASE FAllocLink(t) \/ FAllocSend(t) \/ FAllocCheck(t)
    BY <1>0, <1>1, <2>3, FAllocRestDoes DEF OthersSame, ElementsSame
  <2>4. QED
    BY <1>5, <2>1, <2>2, <2>3 DEF FifoAllocs
<1>6. CASE Writes(t)
  <2>1. CASE WriteEnter(t) \/ WriteSend(t)
    BY <1>0, <1>1, <2>1, WriteEnterDoes, WriteSendDoes
  <2>2. CASE WriteCount(t)
    <3>1. OthersSame(thr[t].f) /\ At(t, "WRITE", "count")
      BY <1>0, <2>2, WriteCountDoes
    <3>2. f # thr[t].f
      BY <1>1, <3>1 DEF AllBegun, Begun, At
    <3>3. QED
      BY <1>1, <3>1, <3>2 DEF OthersSame
  <2>3. QED
    BY <1>6, <2>1, <2>2 DEF Writes
<1>7. CASE Triggers(t)
  <2>1. CASE QueueEnter(t) \/ QueueCheck(t) \/ QueueDrain(t) \/ QueueSend(t)
    BY <1>0, <1>1, <2>1, QueueRestDoes, QueueDrainDoes, QueueSendDoes
  <2>2. CASE QueueIn(t)
    BY <1>0, <1>1, <2>2, QueueInDoes DEF OthersSame
  <2>3. CASE QueueTake(t)
    <3>1. OthersSame(thr[t].f) /\ At(t, "QUEUE", "take")
      BY <1>0, <2>3, QueueTakeDoes
    <3>2. f # thr[t].f
      BY <1>1, <3>1 DEF AllBegun, Begun, At
    <3>3. QED
      BY <1>1, <3>1, <3>2 DEF OthersSame
  <2>4. CASE QueueOut(t)
    <3>1. OthersSame(thr[t].o) /\ At(t, "QUEUE", "out")
      BY <1>0, <2>4, QueueOutDoes
    <3>2. f # thr[t].o
      BY <1>1, <3>1 DEF AllBegun, Begun, At
    <3>3. QED
      BY <1>1, <3>1, <3>2 DEF OthersSame
  <2>5. QED
    BY <1>7, <2>1, <2>2, <2>3, <2>4 DEF Triggers
<1>8. CASE ReadsElem(t)
  <2>1. CASE ReadEnter(t) \/ ReadWait(t)
    BY <1>0, <1>1, <2>1, ReadEnterDoes, ReadWaitDoes
  <2>2. CASE ReadCount(t)
    <3>1. OthersSame(thr[t].f) /\ At(t, "READ", "count")
      BY <1>0, <2>2, ReadCountDoes
    <3>2. f # thr[t].f
      BY <1>1, <3>1 DEF DataInv, CallsTyped, PlaceTyped, At
    <3>3. QED
      BY <1>1, <3>1, <3>2 DEF OthersSame
  <2>3. QED
    BY <1>8, <2>1, <2>2 DEF ReadsElem
<1>9. QED
  BY <1>2, <1>3, <1>4, <1>5, <1>6, <1>7, <1>8 DEF OpsOf

LEMMA PairingStays ==
  ASSUME usage' = usage
  PROVE  Pairing' <=> Pairing
  BY DEF Pairing, Pipelined, FifosAllocated, Alone, Callers, ChainedOutput, Chained, Leaving

LEMMA CallFresh ==
  ASSUME LinksLive, Fresh, AllBegun, HoldInv, NEW t \in Threads, Call(t)
  PROVE  LinksLive' /\ Fresh' /\ AllBegun'
<1>1. /\ OnlyThread(t) /\ thr[t] = Idle /\ thr'[t].pc = "enter"
      /\ UNCHANGED <<head, next, fifo>>
  BY CallBegins
<1>2. \A f : Linked(f) => Linked(f)'
  BY <1>1 DEF Linked, Linking, OnlyThread, Idle
<1>3. LinksLive'
  BY <1>1, <1>2 DEF LinksLive
<1>4. AllBegun'
  BY <1>1 DEF AllBegun, Begun, OnlyThread
<1>5. QED
  BY <1>1, <1>3, <1>4 DEF Fresh

LEMMA StepFresh ==
  HoldInv /\ DataInv /\ ObjectShape /\ RespInv /\ FifoInv /\ FreshInv /\ [Next]_vars => FreshInv'
<1> SUFFICES ASSUME HoldInv, DataInv, ObjectShape, RespInv, FifoInv, FreshInv, [Next]_vars,
                    Pairing'
             PROVE  LinksLive' /\ Fresh' /\ AllBegun'
  BY DEF FreshInv
<1>1. Pairing
  BY UsageStays, PairingStays
<1>2. LinksLive /\ Fresh /\ AllBegun /\ FifosAllocated /\ DeviceKnown
  BY <1>1, PairingMeans DEF FreshInv, FifoInv
<1>3. CASE UNCHANGED vars \/ StickRuns
  <2>1. UNCHANGED <<head, next, fifo, thr>>
    BY <1>3, Zenon DEF vars, StickRuns
  <2>2. \A f : Linked(f)' <=> Linked(f)
    BY <2>1 DEF Linked, Linking
  <2>3. QED
    BY <1>2, <2>1, <2>2 DEF LinksLive, Fresh, AllBegun, Begun
<1>4. ASSUME NEW t \in Threads, Thread(t)
      PROVE  LinksLive' /\ Fresh' /\ AllBegun'
  <2>1. CASE Call(t)
    BY <1>2, <2>1, CallFresh
  <2>2. CASE OpsOf(t) /\ thr[t].pc # "idle" /\ Steps(t)
    <3>1. OnlyThread(t) /\ thr[t].op # "FDESTROY"
      BY <1>1, <2>2, PairingMeans DEF Steps, Advances, OnlyThread
    <3>2. LinksLive'
      BY <1>2, <2>2, <3>1, LinksStay
    <3>3. Fresh'
      BY <1>2, <2>2, <3>1, FreshStays
    <3>4. AllBegun'
      BY <1>1, <1>2, <2>2, BegunStays
    <3>5. QED
      BY <3>2, <3>3, <3>4
  <2>3. QED
    BY <1>4, <2>1, <2>2, StepOps
<1>5. QED
  BY <1>3, <1>4 DEF Next

LEMMA InitFresh == Init => FreshInv
<1> SUFFICES ASSUME Init PROVE LinksLive /\ Fresh /\ AllBegun
  BY DEF FreshInv
<1>1. /\ fifo = [f \in Fifos |-> NewFifo(usage, f)] /\ thr = [t \in Threads |-> Idle]
      /\ head.fifos = First(usage.ready.fifos)
      /\ next = [x \in Objs |-> IF x \in Graphs THEN After(usage.ready.graphs, x)
                                ELSE After(usage.ready.fifos, x)]
      /\ usage \in Usages
  BY DEF Init
<1>2. PICK list : list = usage.ready.fifos
  OBVIOUS
<1>3. list \in Seq(Fifos)
  BY <1>1, <1>2, NcAssumption DEF IsReady
<1>4. \A i \in 1 .. Len(list) : Linked(list[i])
  <2> TAKE i \in 1 .. Len(list)
  <2>1. list[i] \in Fifos /\ list[i] \in Range(list)
    BY <1>3 DEF Range
  <2>2. fifo[list[i]].st = "allocated"
    BY <1>1, <1>2, <2>1 DEF NewFifo
  <2>3. QED
    BY <2>2 DEF Linked
<1>5. Fresh
  BY <1>1 DEF Fresh, NewFifo
<1>6. AllBegun
  BY <1>1 DEF AllBegun, Begun, Idle
<1>7. head.fifos # None => Linked(head.fifos)
  <2>1. CASE list = <<>>
    BY <1>1, <1>2, <2>1 DEF First
  <2>2. CASE list # <<>>
    <3>1. 1 \in 1 .. Len(list)
      BY <1>3, <2>2, EmptySeq
    <3>2. QED
      BY <1>1, <1>2, <1>4, <2>2, <3>1 DEF First
  <2>3. QED
    BY <2>1, <2>2
<1>8. \A f \in Fifos : next[f] # None => Linked(next[f])
  <2> SUFFICES ASSUME NEW f \in Fifos, next[f] # None PROVE Linked(next[f])
    OBVIOUS
  <2>1. f \notin Graphs /\ f \in Objs
    BY NcAssumption DEF Objs
  <2>2. next[f] = After(list, f)
    BY <1>1, <1>2, <2>1
  <2>3. \E i \in 1 .. Len(list) - 1 : list[i] = f
    BY <2>2 DEF After
  <2>4. PICK i : i = CHOOSE k \in 1 .. Len(list) - 1 : list[k] = f
    OBVIOUS
  <2>5. i \in 1 .. Len(list) - 1
    BY <2>3, <2>4
  <2>6. next[f] = list[i + 1]
    BY <2>2, <2>3, <2>4 DEF After
  <2>7. i + 1 \in 1 .. Len(list)
    BY <1>3, <2>5
  <2>8. QED
    BY <1>4, <2>6, <2>7
<1>9. QED
  BY <1>5, <1>6, <1>7, <1>8 DEF LinksLive

-----------------------------------------------------------------------------
(* Elements and their parameters.                                            *)

DeliveredAt(t, f) == At(t, "READ", "count") /\ thr[t].f = f
Delivered(f) == One(\E t \in Threads : DeliveredAt(t, f))

\* The elements b of an input of which u are taken: the parameters p are those of the next
\* ones, and w elements have not got theirs yet.
Lines(b, p, u, w) ==
  /\ Len(b) = u + Len(p) + w
  /\ \A i \in 1 .. Len(p) : b[u + i].n = p[i]
\* What is on its way to and from an input belongs together.
InputPaired(f) ==
  /\ Lines(stick.buf[f], fifo[f].in, Uses(f) + Took(f), Wrote(f))
  /\ \A t \in Threads : TookAt(t, f) => stick.buf[f][Uses(f) + 1].n = thr[t].param
  /\ \A t \in Threads : WroteAt(t, f) => stick.buf[f][Len(stick.buf[f])].n = thr[t].e.n
  /\ \A i \in 1 .. Len(stick.buf[f]) : "n" \in DOMAIN stick.buf[f][i]

\* The parameters p of an output: those of the d results that a reader has, of the results b
\* that wait for it, and of m results to come.
Results(p, b, d, m) ==
  /\ Len(p) = d + Len(b) + m
  /\ \A i \in 1 .. Len(b) : p[d + i] = b[i].n
\* The number of the element of the job k.
JobNumber(k) ==
  stick.buf[stick.jobs[k].f][Hits(Inputs(stick.jobs), k, stick.jobs[k].f)].n
OutputPaired(o) ==
  /\ Results(fifo[o].out, stick.out[o], Delivered(o), Makes(o) + Made(o))
  /\ \A t \in Threads : DeliveredAt(t, o) => fifo[o].out[1] = thr[t].e.n
  /\ \A k \in 1 .. Len(stick.jobs) : stick.jobs[k].o = o =>
       fifo[o].out[Delivered(o) + Len(stick.out[o]) + Hits(Outputs(stick.jobs), k, o)]
         = JobNumber(k)
  /\ \A t \in Threads : MadeAt(t, o) => fifo[o].out[Len(fifo[o].out)] = thr[t].param

InputsPaired == \A f \in Fifos : Chained(f) => InputPaired(f)
OutputsPaired == \A o \in Fifos : usage.type[o] # "WO" => OutputPaired(o)
ElementsMade == \A t \in Threads : At(t, "WRITE", "send") => "n" \in DOMAIN thr[t].e
Paired == InputsPaired /\ OutputsPaired /\ ElementsMade

\* What a reader waits for is an output.
ReadsResults ==
  \A t \in Threads : thr[t].op = "READ" /\ thr[t].pc \in {"wait", "count"} =>
    usage.type[thr[t].f] # "WO"

PairInv == Pairing => /\ ReadsResults /\ (Alive => Paired)
                      /\ \A r \in got : r.param = r.n

LEMMA InputTyped ==
  ASSUME DataInv, NEW f \in Fifos
  PROVE  /\ IsSeq(stick.buf[f]) /\ Len(stick.buf[f]) \in Nat
         /\ IsSeq(fifo[f].in) /\ Len(fifo[f].in) \in Nat
         /\ Uses(f) \in Nat /\ Took(f) \in Nat /\ Wrote(f) \in Nat
<1>1. IsSeq(stick.buf[f]) /\ IsSeq(fifo[f].in)
  BY DEF DataInv, DataShape, StickShape, FifosTyped, ParamsTyped
<1>2. QED
  BY <1>1, SeqLen, BalanceTyped

LEMMA OutputTyped ==
  ASSUME DataInv, NEW f \in Fifos
  PROVE  /\ IsSeq(stick.out[f]) /\ Len(stick.out[f]) \in Nat
         /\ IsSeq(fifo[f].out) /\ Len(fifo[f].out) \in Nat
         /\ Makes(f) \in Nat /\ Made(f) \in Nat /\ Delivered(f) \in Nat
<1>1. IsSeq(stick.out[f]) /\ IsSeq(fifo[f].out)
  BY DEF DataInv, DataShape, StickShape, FifosTyped, ParamsTyped
<1>2. Delivered(f) \in Nat
  BY DEF Delivered, One
<1>3. QED
  BY <1>1, <1>2, SeqLen, BalanceTyped

\* A place that is taken is counted.
LEMMA MarksCount ==
  ASSUME NEW t \in Threads, NEW f
  PROVE  /\ TookAt(t, f) => Took(f) = 1
         /\ WroteAt(t, f) => Wrote(f) = 1
         /\ MadeAt(t, f) => Made(f) = 1
         /\ DeliveredAt(t, f) => Delivered(f) = 1
<1>1. TookAt(t, f) => Took(f) = 1
  BY DEF Took, One
<1>2. WroteAt(t, f) => Wrote(f) = 1
  BY DEF Wrote, One
<1>3. MadeAt(t, f) => Made(f) = 1
  BY DEF Made, One
<1>4. DeliveredAt(t, f) => Delivered(f) = 1
  BY DEF Delivered, One
<1>5. QED
  BY <1>1, <1>2, <1>3, <1>4

\* One thread makes a kind of calls.
LEMMA OneOp ==
  ASSUME HoldInv, NEW op \in {"WRITE", "QUEUE", "READ"}, Alone({op}), NEW t \in Threads,
         thr[t].op = op, NEW s \in Threads, s # t
  PROVE  thr[s].op # op
<1> SUFFICES ASSUME thr[s].op = op PROVE FALSE
  OBVIOUS
<1>1. thr[s].pc # "idle" /\ thr[t].pc # "idle"
  BY InCall
<1>2. QED
  BY <1>1, OneCaller

LEMMA OnlyReader ==
  ASSUME HoldInv, Alone({"READ"}), NEW t \in Threads, OnlyThread(t), thr[t].op = "READ", NEW f
  PROVE  Delivered(f) = One(DeliveredAt(t, f)) /\ Delivered(f)' = One(DeliveredAt(t, f)')
<1>1. \A s \in Threads : s # t => ~DeliveredAt(s, f) /\ ~DeliveredAt(s, f)'
  BY OneOp DEF OnlyThread, DeliveredAt, At
<1>2. /\ (\E s \in Threads : DeliveredAt(s, f)) <=> DeliveredAt(t, f)
      /\ (\E s \in Threads : DeliveredAt(s, f)') <=> DeliveredAt(t, f)'
  BY <1>1, Zenon
<1>3. Delivered(f) = One(DeliveredAt(t, f))
  BY <1>2 DEF Delivered, One
<1>4. Delivered(f)' = One(DeliveredAt(t, f)')
  BY <1>2 DEF Delivered, One
<1>5. QED
  BY <1>3, <1>4

\* The places of t at an input and at an output, with what t has there.
SameIn(t, f) ==
  /\ WroteAt(t, f)' <=> WroteAt(t, f)
  /\ TookAt(t, f)' <=> TookAt(t, f)
  /\ WroteAt(t, f) => thr'[t].e = thr[t].e
  /\ TookAt(t, f) => thr'[t].param = thr[t].param
SameOut(t, o) ==
  /\ MadeAt(t, o)' <=> MadeAt(t, o)
  /\ DeliveredAt(t, o)' <=> DeliveredAt(t, o)
  /\ MadeAt(t, o) => thr'[t].param = thr[t].param
  /\ DeliveredAt(t, o) => thr'[t].e = thr[t].e

LEMMA InMarks ==
  ASSUME NEW t \in Threads, OnlyThread(t), NEW f, SameIn(t, f)
  PROVE  /\ Wrote(f)' = Wrote(f) /\ Took(f)' = Took(f)
         /\ \A s \in Threads : WroteAt(s, f)' => WroteAt(s, f) /\ thr'[s].e = thr[s].e
         /\ \A s \in Threads : TookAt(s, f)' => TookAt(s, f) /\ thr'[s].param = thr[s].param
<1>1. \A s \in Threads : s # t => /\ WroteAt(s, f)' <=> WroteAt(s, f)
                                  /\ TookAt(s, f)' <=> TookAt(s, f)
                                  /\ thr'[s] = thr[s]
  BY DEF OnlyThread, WroteAt, TookAt, At
<1>2. \A s \in Threads : (WroteAt(s, f)' <=> WroteAt(s, f)) /\ (TookAt(s, f)' <=> TookAt(s, f))
  BY <1>1 DEF SameIn
<1>3. /\ (\E s \in Threads : WroteAt(s, f)') <=> (\E s \in Threads : WroteAt(s, f))
      /\ (\E s \in Threads : TookAt(s, f)') <=> (\E s \in Threads : TookAt(s, f))
  BY <1>2, Zenon
<1>4. Wrote(f)' = Wrote(f)
  BY <1>3 DEF Wrote, One
<1>5. Took(f)' = Took(f)
  BY <1>3 DEF Took, One
<1>6. QED
  BY <1>1, <1>2, <1>4, <1>5 DEF SameIn

LEMMA OutMarks ==
  ASSUME NEW t \in Threads, OnlyThread(t), NEW o, SameOut(t, o)
  PROVE  /\ Made(o)' = Made(o) /\ Delivered(o)' = Delivered(o)
         /\ \A s \in Threads : MadeAt(s, o)' => MadeAt(s, o) /\ thr'[s].param = thr[s].param
         /\ \A s \in Threads : DeliveredAt(s, o)' => DeliveredAt(s, o) /\ thr'[s].e = thr[s].e
<1>1. \A s \in Threads : s # t => /\ MadeAt(s, o)' <=> MadeAt(s, o)
                                  /\ DeliveredAt(s, o)' <=> DeliveredAt(s, o)
                                  /\ thr'[s] = thr[s]
  BY DEF OnlyThread, MadeAt, DeliveredAt, At
<1>2. \A s \in Threads : /\ MadeAt(s, o)' <=> MadeAt(s, o)
                         /\ DeliveredAt(s, o)' <=> DeliveredAt(s, o)
  BY <1>1 DEF SameOut
<1>3. /\ (\E s \in Threads : MadeAt(s, o)') <=> (\E s \in Threads : MadeAt(s, o))
      /\ (\E s \in Threads : DeliveredAt(s, o)') <=> (\E s \in Threads : DeliveredAt(s, o))
  BY <1>2, Zenon
<1>4. Made(o)' = Made(o)
  BY <1>3 DEF Made, One
<1>5. Delivered(o)' = Delivered(o)
  BY <1>3 DEF Delivered, One
<1>6. QED
  BY <1>1, <1>2, <1>4, <1>5 DEF SameOut

LEMMA InputStays ==
  ASSUME NEW t \in Threads, OnlyThread(t), NEW f, SameIn(t, f), stick'.jobs = stick.jobs,
         stick'.buf[f] = stick.buf[f], fifo'[f].in = fifo[f].in, InputPaired(f)
  PROVE  InputPaired(f)'
<1>1. Uses(f)' = Uses(f)
  BY DEF Uses
<1>2. /\ Wrote(f)' = Wrote(f) /\ Took(f)' = Took(f)
      /\ \A s \in Threads : WroteAt(s, f)' => WroteAt(s, f) /\ thr'[s].e = thr[s].e
      /\ \A s \in Threads : TookAt(s, f)' => TookAt(s, f) /\ thr'[s].param = thr[s].param
  BY InMarks
<1>3. QED
  BY <1>1, <1>2 DEF InputPaired

NumbersStay == \A k \in 1 .. Len(stick.jobs) : JobNumber(k)' = JobNumber(k)

LEMMA OutputStays ==
  ASSUME NEW t \in Threads, OnlyThread(t), NEW o, SameOut(t, o), stick'.jobs = stick.jobs,
         NumbersStay, stick'.out[o] = stick.out[o], fifo'[o].out = fifo[o].out, OutputPaired(o)
  PROVE  OutputPaired(o)'
<1>1. Makes(o)' = Makes(o)
  BY DEF Makes
<1>2. /\ Made(o)' = Made(o) /\ Delivered(o)' = Delivered(o)
      /\ \A s \in Threads : MadeAt(s, o)' => MadeAt(s, o) /\ thr'[s].param = thr[s].param
      /\ \A s \in Threads : DeliveredAt(s, o)' => DeliveredAt(s, o) /\ thr'[s].e = thr[s].e
  BY OutMarks
<1>3. QED
  BY <1>1, <1>2 DEF OutputPaired, NumbersStay

\* The hits of a longer part, of a part with a hit at its end, and of one with none.
LEMMA HitsUp ==
  ASSUME NEW s, NEW n \in Nat, NEW k \in 1 .. n, NEW x
  PROVE  Hits(s, k, x) \in Nat /\ Hits(s, k, x) <= Hits(s, n, x)
<1>1. k \in Int /\ n \in Int
  OBVIOUS
<1>2. PICK S : S = {i \in 1 .. k : s[i] = x}
  OBVIOUS
<1>3. PICK T : T = {i \in 1 .. n : s[i] = x}
  OBVIOUS
<1>4. IsFiniteSet(T) /\ S \subseteq T
  <2>1. IsFiniteSet({i \in 1 .. n : s[i] = x})
    <3>1. IsFiniteSet(1 .. n)
      BY <1>1, FS_Interval
    <3>2. T \subseteq 1 .. n
      BY <1>3
    <3>3. IsFiniteSet(T)
      BY <3>1, <3>2, FS_Subset
    <3>4. QED
      BY <1>3, <3>3
  <2>2. \A i \in 1 .. k : i \in 1 .. n
    OBVIOUS
  <2>3. S \subseteq T
    BY <1>2, <1>3, <2>2
  <2>4. QED
    BY <1>3, <2>1, <2>3
<1>5. Cardinality(S) <= Cardinality(T)
  BY <1>4, FS_Subset
<1>6. Hits(s, k, x) = Cardinality(S) /\ Hits(s, n, x) = Cardinality(T)
  BY <1>2, <1>3 DEF Hits
<1>7. Hits(s, k, x) \in Nat
  BY <1>1, HitsNat
<1>8. QED
  BY <1>5, <1>6, <1>7

LEMMA HitsHere ==
  ASSUME NEW s, NEW k \in Nat \ {0}, NEW x, s[k] = x
  PROVE  Hits(s, k, x) \in Nat /\ Hits(s, k, x) >= 1
<1>1. PICK n \in Nat : k = n + 1
  <2>1. k - 1 \in Nat /\ k = (k - 1) + 1
    OBVIOUS
  <2>2. QED
    BY <2>1
<1>2. Hits(s, n + 1, x) = Hits(s, n, x) + Is(s[n + 1], x)
  BY HitsMore
<1>3. Hits(s, n, x) \in Nat
  BY HitsNat
<1>4. QED
  BY <1>1, <1>2, <1>3 DEF Is

LEMMA HitsNone ==
  ASSUME NEW s, NEW k, NEW x, \A i \in 1 .. k : s[i] # x
  PROVE  Hits(s, k, x) = 0
<1>1. {i \in 1 .. k : s[i] = x} = {}
  OBVIOUS
<1>2. QED
  BY <1>1, FS_EmptySet DEF Hits

LEMMA JobsKnown ==
  ASSUME DataInv, NEW k \in 1 .. Len(stick.jobs)
  PROVE  /\ Len(stick.jobs) \in Nat
         /\ stick.jobs[k] \in JobRecords /\ stick.jobs[k].f \in Fifos /\ stick.jobs[k].o \in Fifos
         /\ Inputs(stick.jobs)[k] = stick.jobs[k].f /\ Outputs(stick.jobs)[k] = stick.jobs[k].o
         /\ usage.type[stick.jobs[k].o] # "WO"
<1>1. stick.jobs \in Seq(JobRecords)
  BY DEF DataInv, DataShape, StickShape
<1>2. Len(stick.jobs) \in Nat /\ stick.jobs[k] \in JobRecords
  BY <1>1, LenProperties
<1>3. QED
  BY <1>2 DEF JobRecords, Inputs, Outputs, DataInv, JobsTyped

\* An input is no output.
LEMMA NoneMade ==
  ASSUME HoldInv, DataInv, Pairing, NEW f \in Fifos, Chained(f)
  PROVE  /\ usage.type[f] = "WO" /\ Makes(f) = 0 /\ Made(f) = 0
         /\ \A k \in 0 .. Len(stick.jobs) : Hits(Outputs(stick.jobs), k, f) = 0
<1>1. usage.type[f] = "WO"
  BY PairingMeans
<1>2. Len(stick.jobs) \in Nat
  BY LenProperties DEF DataInv, DataShape, StickShape
<1>3. \A i \in 1 .. Len(stick.jobs) : Outputs(stick.jobs)[i] # f
  BY <1>1, JobsKnown
<1>4. ASSUME NEW k \in 0 .. Len(stick.jobs)
      PROVE  Hits(Outputs(stick.jobs), k, f) = 0
  <2>1. \A i \in 1 .. k : Outputs(stick.jobs)[i] # f
    BY <1>2, <1>3
  <2>2. QED
    BY <2>1, HitsNone
<1>5. Makes(f) = 0
  BY <1>2, <1>4 DEF Makes
<1>6. \A t \in Threads : ~MadeAt(t, f)
  BY <1>1 DEF MadeAt, At, DataInv, CallsTyped, PlaceTyped
<1>7. Made(f) = 0
  BY <1>6 DEF Made, One
<1>8. QED
  BY <1>1, <1>4, <1>5, <1>7

\* The element of a job is at the stick.
LEMMA JobIndex ==
  ASSUME HoldInv, DataInv, Pairing, JobsFed, NEW k \in 1 .. Len(stick.jobs)
  PROVE  /\ stick.jobs[k].f \in Fifos
         /\ Hits(Inputs(stick.jobs), k, stick.jobs[k].f) \in 1 .. Len(stick.buf[stick.jobs[k].f])
<1>1. PICK f : f = stick.jobs[k].f
  OBVIOUS
<1>2. PICK p : p = Inputs(stick.jobs)
  OBVIOUS
<1>3. f \in Fifos /\ p[k] = f /\ Len(stick.jobs) \in Nat
  BY <1>1, <1>2, JobsKnown
<1>4. Chained(f) /\ Hits(p, k, f) <= Len(stick.buf[f]) + Hits(Outputs(stick.jobs), k - 1, f)
  BY <1>1, <1>2 DEF JobsFed, Fed
<1>5. k - 1 \in 0 .. Len(stick.jobs) /\ k \in Nat \ {0}
  BY <1>3
<1>6. Hits(Outputs(stick.jobs), k - 1, f) = 0
  BY <1>3, <1>4, <1>5, NoneMade
<1>7. Hits(p, k, f) \in Nat /\ Hits(p, k, f) >= 1
  BY <1>3, <1>5, HitsHere
<1>8. Len(stick.buf[f]) \in Nat
  BY <1>3, InputTyped
<1>9. Hits(p, k, f) \in 1 .. Len(stick.buf[f])
  BY <1>4, <1>6, <1>7, <1>8
<1>10. QED
  BY <1>1, <1>2, <1>3, <1>9

\* The numbers of the jobs stay while no element is taken.
LEMMA NumbersKept ==
  ASSUME HoldInv, DataInv, Pairing, JobsFed, stick'.jobs = stick.jobs,
         \A f \in Fifos : \A i \in 1 .. Len(stick.buf[f]) : stick'.buf[f][i] = stick.buf[f][i]
  PROVE  NumbersStay
<1> SUFFICES ASSUME NEW k \in 1 .. Len(stick.jobs)
             PROVE  JobNumber(k)' = JobNumber(k)
  BY DEF NumbersStay
<1>1. PICK f : f = stick.jobs[k].f
  OBVIOUS
<1>2. PICK i : i = Hits(Inputs(stick.jobs), k, f)
  OBVIOUS
<1>3. f \in Fifos /\ i \in 1 .. Len(stick.buf[f])
  BY <1>1, <1>2, JobIndex
<1>4. stick'.buf[f][i] = stick.buf[f][i]
  BY <1>3
<1>5. QED
  BY <1>1, <1>2, <1>4 DEF JobNumber

\* As many parameters wait at an input as elements that no trigger has asked for.
LEMMA ParamsCounted ==
  ASSUME HoldInv, DataInv, Pairing, Balanced, InputsPaired, NEW f \in Fifos, Chained(f)
  PROVE  Len(fifo[f].in) + fifo[f].consumed = fifo[f].writeCount
<1>1. PICK n \in Nat, m \in Nat, u \in Nat, k \in Nat, w \in Nat :
              /\ n = Len(stick.buf[f]) /\ m = Len(fifo[f].in)
              /\ u = Uses(f) /\ k = Took(f) /\ w = Wrote(f)
  BY InputTyped
<1>2. PICK c \in Nat, d \in Nat : c = fifo[f].consumed /\ d = fifo[f].writeCount
  BY BalanceTyped
<1>3. Makes(f) = 0 /\ Made(f) = 0
  BY NoneMade
<1>4. n + 0 + 0 + c = d + u + w + k
  BY <1>1, <1>2, <1>3 DEF Balanced, Balance
<1>5. n = (u + k) + m + w
  BY <1>1 DEF InputsPaired, InputPaired, Lines
<1>6. m + c = d
  BY <1>4, <1>5
<1>7. QED
  BY <1>1, <1>2, <1>6

-----------------------------------------------------------------------------
(* The steps of a write.                                                     *)

\* A call that is neither writing, triggering nor reading an element.
Resting(t) == Off(t) /\ ~At(t, "READ", "count")

LEMMA QuietPaired ==
  ASSUME HoldInv, DataInv, Pairing, JobsFed, Paired, NEW t \in Threads, OnlyThread(t),
         usage' = usage, stick' = stick,
         \A f \in Fifos : fifo'[f].in = fifo[f].in /\ fifo'[f].out = fifo[f].out,
         Resting(t), Resting(t)', At(t, "WRITE", "send")' => "n" \in DOMAIN thr'[t].e
  PROVE  Paired'
<1>1. \A f : SameIn(t, f) /\ SameOut(t, f)
  BY DEF Resting, Off, SameIn, SameOut, WroteAt, TookAt, MadeAt, DeliveredAt, At
<1>2. ASSUME NEW f \in Fifos, Chained(f) PROVE InputPaired(f)'
  BY <1>1, <1>2, InputStays DEF Paired, InputsPaired
<1>3. ASSUME NEW o \in Fifos, usage.type[o] # "WO" PROVE OutputPaired(o)'
  <2>1. NumbersStay
    BY DEF NumbersStay, JobNumber
  <2>2. QED
    BY <1>1, <1>3, <2>1, OutputStays DEF Paired, OutputsPaired
<1>4. ElementsMade'
  BY DEF Paired, ElementsMade, OnlyThread, At
<1>5. QED
  BY <1>2, <1>3, <1>4 DEF Paired, InputsPaired, OutputsPaired, Chained

LEMMA WriteEnterPaired ==
  ASSUME HoldInv, DataInv, Pairing, JobsFed, Paired, NEW t \in Threads, WriteEnter(t)
  PROVE  Paired'
<1>1. /\ thr[t].pc = "enter" /\ OnlyThread(t) /\ usage' = usage /\ fifo' = fifo /\ stick' = stick
      /\ thr'[t] = Idle \/ thr'[t].pc = "crashed"
           \/ (thr'[t].pc = "send" /\ thr'[t].op = "WRITE")
  BY WriteEnterDoes DEF Goes, SameCall, WriteEnter, At
<1>2. Resting(t) /\ Resting(t)'
  BY <1>1 DEF Resting, Off, At, Idle
<1>3. At(t, "WRITE", "send")' => "n" \in DOMAIN thr'[t].e
  <2> SUFFICES ASSUME thr'[t].pc = "send" PROVE "n" \in DOMAIN thr'[t].e
    BY DEF At
  <2>1. ~Goto(t, "crashed") /\ ~Return(t)
    BY <1>1, GoesTo
  <2>2. PICK x : "n" \in DOMAIN x /\ thr' = [thr EXCEPT ![t].pc = "send", ![t].e = x]
    <3>1. PICK y \in usage.tensors[F(t).host.dataType] :
                 thr' = [thr EXCEPT ![t].pc = "send", ![t].e =
                       [n |-> writes + 1, sent |-> y, type |-> F(t).host.dataType,
                        clear |-> Clear(F(t).host, F(t).graph),
                        mem |-> Transfer(InMemory(F(t).host, y), F(t).host, F(t).graph,
                                         F(t).host.dataType, "FP16")]]
      BY <2>1, Zenon DEF WriteEnter
    <3>2. PICK a, b, c, d, e : thr' = [thr EXCEPT ![t].pc = "send", ![t].e =
                       [n |-> a, sent |-> b, type |-> c, clear |-> d, mem |-> e]]
      BY <3>1, Zenon
    <3>3. "n" \in DOMAIN [n |-> a, sent |-> b, type |-> c, clear |-> d, mem |-> e]
      OBVIOUS
    <3>4. QED
      BY <3>2, <3>3, Zenon
  <2>3. PICK pc : pc = "send"
    OBVIOUS
  <2>4. WithElement(t, pc, x) /\ UNCHANGED usage
    BY <1>1, <2>2, <2>3, Zenon DEF WithElement
  <2>5. thr'[t].e = x
    BY <2>4, CarriesElement
  <2>6. QED
    BY <2>2, <2>5
<1>4. QED
  BY <1>1, <1>2, <1>3, QuietPaired

\* An element more at the stick, of which the number is known.
LEMMA LinesSent ==
  ASSUME NEW b, IsSeq(b), NEW p, IsSeq(p), NEW u \in Nat, NEW x, Lines(b, p, u, 0)
  PROVE  Lines(Append(b, x), p, u, 1)
<1>1. PICK n \in Nat, m \in Nat : n = Len(b) /\ m = Len(p)
  BY SeqLen
<1>2. n = u + m /\ \A i \in 1 .. m : b[u + i].n = p[i]
  BY <1>1 DEF Lines
<1>3. Len(Append(b, x)) = n + 1 /\ \A i \in 1 .. n : Append(b, x)[i] = b[i]
  BY <1>1, SeqAppended
<1>4. \A i \in 1 .. m : u + i \in 1 .. n
  BY <1>2
<1>5. QED
  BY <1>1, <1>2, <1>3, <1>4 DEF Lines

LEMMA WriteSendPaired ==
  ASSUME HoldInv, DataInv, Pairing, JobsFed, Paired, NEW t \in Threads, WriteSend(t)
  PROVE  Paired'
<1>0. DataShape /\ Alone({"WRITE"})
  BY PairingMeans DEF DataInv
<1>1. /\ thr[t].f \in Fifos /\ At(t, "WRITE", "send") /\ OnlyThread(t)
      /\ UNCHANGED <<usage, fifo>>
      /\ \/ thr'[t] = Idle /\ UNCHANGED stick
         \/ /\ Goes(t, "count")
            /\ stick'.jobs = stick.jobs /\ stick'.out = stick.out
            /\ stick'.buf[thr[t].f] = Append(stick.buf[thr[t].f], thr[t].e)
            /\ \A h \in Fifos : h # thr[t].f => stick'.buf[h] = stick.buf[h]
  BY <1>0, WriteSendDoes
<1>2. CASE thr'[t] = Idle /\ UNCHANGED stick
  <2>1. Resting(t) /\ Resting(t)' /\ ~At(t, "WRITE", "send")'
    BY <1>1, <1>2 DEF Resting, Off, At, Idle
  <2>2. QED
    BY <1>1, <1>2, <2>1, QuietPaired
<1>3. CASE ~(thr'[t] = Idle /\ UNCHANGED stick)
  <2>0. PICK e : e = thr[t].e
    OBVIOUS
  <2>1. PICK h \in Fifos : h = thr[t].f
    BY <1>1
  <2>2. /\ thr[t].op = "WRITE" /\ thr[t].pc = "send"
        /\ thr'[t].op = "WRITE" /\ thr'[t].pc = "count" /\ thr'[t].f = h /\ thr'[t].e = e
        /\ stick'.jobs = stick.jobs /\ stick'.out = stick.out
        /\ stick'.buf[h] = Append(stick.buf[h], e)
        /\ \A f \in Fifos : f # h => stick'.buf[f] = stick.buf[f]
    BY <1>1, <1>3, <2>0, <2>1 DEF Goes, KeepsWhat, SameCall, At
  <2>3. "n" \in DOMAIN e
    BY <1>1, <2>0, <2>1 DEF Paired, ElementsMade
  <2>4. ASSUME NEW f \in Fifos, Chained(f), f # h PROVE InputPaired(f)'
    <3>1. SameIn(t, f)
      BY <2>1, <2>2, <2>4 DEF SameIn, WroteAt, TookAt, At
    <3>2. QED
      BY <1>1, <2>2, <2>4, <3>1, InputStays DEF Paired, InputsPaired
  <2>5. ASSUME Chained(h) PROVE InputPaired(h)'
    <3>1. PICK b, c, p : b = stick.buf[h] /\ c = stick'.buf[h] /\ p = fifo[h].in
      OBVIOUS
    <3>2. PICK n \in Nat, u \in Nat, k \in Nat : n = Len(b) /\ u = Uses(h) /\ k = Took(h)
      BY <3>1, InputTyped
    <3>3. IsSeq(b) /\ IsSeq(p) /\ c = Append(b, e)
      BY <2>2, <3>1, InputTyped
    <3>4. /\ Wrote(h) = 0 /\ Wrote(h)' = 1
          /\ \A s \in Threads : WroteAt(s, h)' => s = t
      <4>1. Wrote(h) = One(WroteAt(t, h)) /\ Wrote(h)' = One(WroteAt(t, h)')
        BY <1>0, <1>1, <2>2, OnlyWriter
      <4>2. ~WroteAt(t, h) /\ WroteAt(t, h)'
        BY <2>2 DEF WroteAt, At
      <4>3. \A s \in Threads : WroteAt(s, h)' => s = t
        BY <1>0, <1>1, <2>2, OneOp DEF OnlyThread, WroteAt, At
      <4>4. QED
        BY <4>1, <4>2, <4>3 DEF One
    <3>5. /\ Uses(h)' = u /\ Took(h)' = k
          /\ \A s \in Threads : TookAt(s, h)' => TookAt(s, h) /\ thr'[s] = thr[s]
      <4>1. Took(h)' = Took(h)
        BY <1>1, <2>2, QueueMarks
      <4>2. \A s \in Threads : TookAt(s, h)' => s # t
        BY <2>2 DEF TookAt
      <4>3. QED
        BY <1>1, <2>2, <3>2, <4>1, <4>2 DEF Uses, OnlyThread, TookAt
    <3>6. /\ Lines(b, p, u + k, 0)
          /\ \A s \in Threads : TookAt(s, h) => b[u + 1].n = thr[s].param
          /\ \A i \in 1 .. n : "n" \in DOMAIN b[i]
      BY <2>5, <3>1, <3>2, <3>4 DEF Paired, InputsPaired, InputPaired
    <3>7. Lines(c, p, u + k, 1)
      <4>1. u + k \in Nat
        OBVIOUS
      <4>2. QED
        BY <3>3, <3>6, <4>1, LinesSent
    <3>8. Len(c) = n + 1 /\ c[n + 1] = e /\ \A i \in 1 .. n : c[i] = b[i]
      BY <3>2, <3>3, SeqAppended
    <3>9. \A s \in Threads : TookAt(s, h)' => c[u + 1].n = thr'[s].param
      <4> SUFFICES ASSUME NEW s \in Threads, TookAt(s, h)' PROVE c[u + 1].n = thr'[s].param
        OBVIOUS
      <4>1. TookAt(s, h) /\ thr'[s] = thr[s] /\ k = 1
        BY <3>2, <3>5, MarksCount
      <4>2. n = u + k + Len(p) /\ Len(p) \in Nat
        BY <3>2, <3>3, <3>6, SeqLen DEF Lines
      <4>3. u + 1 \in 1 .. n
        BY <4>1, <4>2
      <4>4. QED
        BY <3>6, <3>8, <4>1, <4>3
    <3>10. \A s \in Threads : WroteAt(s, h)' => c[Len(c)].n = thr'[s].e.n
      BY <2>2, <3>4, <3>8
    <3>11. \A i \in 1 .. Len(c) : "n" \in DOMAIN c[i]
      BY <2>3, <3>6, <3>8
    <3>12. p = fifo'[h].in
      BY <1>1, <3>1
    <3>13. QED
      BY <3>1, <3>4, <3>5, <3>7, <3>9, <3>10, <3>11, <3>12 DEF InputPaired
  <2>6. NumbersStay
    <3>1. ASSUME NEW f \in Fifos, NEW i \in 1 .. Len(stick.buf[f])
          PROVE  stick'.buf[f][i] = stick.buf[f][i]
      <4>1. IsSeq(stick.buf[f])
        BY InputTyped
      <4>2. QED
        BY <2>2, <3>1, <4>1, SeqAppended
    <3>2. QED
      BY <2>2, <3>1, NumbersKept
  <2>7. ASSUME NEW o \in Fifos, usage.type[o] # "WO" PROVE OutputPaired(o)'
    <3>1. SameOut(t, o)
      BY <2>2 DEF SameOut, MadeAt, DeliveredAt, At
    <3>2. QED
      BY <1>1, <2>2, <2>6, <2>7, <3>1, OutputStays DEF Paired, OutputsPaired
  <2>8. ElementsMade'
    BY <1>1, <2>2 DEF Paired, ElementsMade, OnlyThread, At
  <2>9. QED
    BY <1>1, <2>4, <2>5, <2>7, <2>8 DEF Paired, InputsPaired, OutputsPaired, Chained
<1>4. QED
  BY <1>2, <1>3

\* The parameter of the last element.
LEMMA LinesCounted ==
  ASSUME NEW b, IsSeq(b), NEW p, IsSeq(p), NEW u \in Nat, NEW x, Lines(b, p, u, 1),
         b[Len(b)].n = x
  PROVE  Lines(b, Append(p, x), u, 0)
<1>1. PICK n \in Nat, m \in Nat : n = Len(b) /\ m = Len(p)
  BY SeqLen
<1>2. n = u + m + 1 /\ \A i \in 1 .. m : b[u + i].n = p[i]
  BY <1>1 DEF Lines
<1>3. /\ Len(Append(p, x)) = m + 1 /\ \A i \in 1 .. m : Append(p, x)[i] = p[i]
      /\ Append(p, x)[m + 1] = x
  BY <1>1, SeqAppended
<1>4. n = u + (m + 1) + 0
  BY <1>2
<1>5. b[u + (m + 1)].n = x
  BY <1>1, <1>4
<1>6. ASSUME NEW i \in 1 .. m + 1 PROVE b[u + i].n = Append(p, x)[i]
  <2>1. CASE i = m + 1
    BY <1>3, <1>5, <2>1
  <2>2. CASE i # m + 1
    <3>1. i \in 1 .. m
      BY <2>2
    <3>2. QED
      BY <1>2, <1>3, <3>1
  <2>3. QED
    BY <2>1, <2>2
<1>7. QED
  BY <1>1, <1>3, <1>4, <1>6 DEF Lines

LEMMA WriteCountPaired ==
  ASSUME HoldInv, DataInv, Pairing, JobsFed, Paired, NEW t \in Threads, WriteCount(t)
  PROVE  Paired'
<1>0. DataShape /\ Alone({"WRITE"})
  BY PairingMeans DEF DataInv
<1>1. /\ thr[t].f \in Fifos /\ At(t, "WRITE", "count") /\ OnlyThread(t) /\ thr'[t] = Idle
      /\ OthersSame(thr[t].f) /\ UNCHANGED <<usage, stick>>
      /\ fifo'[thr[t].f].in = Append(fifo[thr[t].f].in, thr[t].e.n)
      /\ fifo'[thr[t].f].out = fifo[thr[t].f].out
  BY <1>0, WriteCountDoes
<1>9. PICK x : x = thr[t].e.n
  OBVIOUS
<1>2. PICK h \in Fifos : h = thr[t].f
  BY <1>1
<1>3. /\ thr[t].op = "WRITE" /\ thr[t].pc = "count" /\ thr'[t].op = "NONE" /\ thr'[t].pc = "idle"
      /\ fifo'[h].in = Append(fifo[h].in, x)
      /\ \A f \in Fifos : f # h => fifo'[f].in = fifo[f].in
      /\ \A f \in Fifos : fifo'[f].out = fifo[f].out
  <2>1. thr[t].op = "WRITE" /\ thr[t].pc = "count" /\ thr'[t].op = "NONE" /\ thr'[t].pc = "idle"
    BY <1>1 DEF At, Idle
  <2>2. fifo'[h].in = Append(fifo[h].in, x) /\ fifo'[h].out = fifo[h].out
    BY <1>1, <1>2, <1>9
  <2>3. \A f \in Fifos : f # h => fifo'[f] = fifo[f]
    BY <1>1, <1>2 DEF OthersSame
  <2>4. QED
    BY <2>1, <2>2, <2>3
<1>4. ASSUME NEW f \in Fifos, Chained(f), f # h PROVE InputPaired(f)'
  <2>1. SameIn(t, f)
    BY <1>2, <1>3, <1>4 DEF SameIn, WroteAt, TookAt, At
  <2>2. QED
    BY <1>1, <1>3, <1>4, <2>1, InputStays DEF Paired, InputsPaired
<1>5. ASSUME Chained(h) PROVE InputPaired(h)'
  <2>1. PICK b, p, q : b = stick.buf[h] /\ p = fifo[h].in /\ q = fifo'[h].in
    OBVIOUS
  <2>2. PICK u \in Nat, k \in Nat : u = Uses(h) /\ k = Took(h)
    BY InputTyped
  <2>3. IsSeq(b) /\ IsSeq(p) /\ q = Append(p, x)
    BY <1>3, <2>1, InputTyped
  <2>4. /\ Wrote(h) = 1 /\ Wrote(h)' = 0 /\ WroteAt(t, h)
        /\ \A s \in Threads : ~WroteAt(s, h)'
    <3>1. Wrote(h) = One(WroteAt(t, h)) /\ Wrote(h)' = One(WroteAt(t, h)')
      BY <1>0, <1>1, <1>3, OnlyWriter
    <3>2. WroteAt(t, h) /\ ~WroteAt(t, h)'
      BY <1>2, <1>3 DEF WroteAt, At
    <3>3. \A s \in Threads : s # t => ~WroteAt(s, h)'
      BY <1>0, <1>1, <1>3, OneOp DEF OnlyThread, WroteAt, At
    <3>4. QED
      BY <3>1, <3>2, <3>3 DEF One
  <2>5. /\ Uses(h)' = u /\ Took(h)' = k
        /\ \A s \in Threads : TookAt(s, h)' => TookAt(s, h) /\ thr'[s] = thr[s]
    <3>1. Took(h)' = Took(h)
      BY <1>1, <1>3, QueueMarks
    <3>2. \A s \in Threads : TookAt(s, h)' => s # t
      BY <1>3 DEF TookAt
    <3>3. QED
      BY <1>1, <2>2, <3>1, <3>2 DEF Uses, OnlyThread, TookAt
  <2>6. /\ Lines(b, p, u + k, 1) /\ b[Len(b)].n = x
        /\ \A s \in Threads : TookAt(s, h) => b[u + 1].n = thr[s].param
        /\ \A i \in 1 .. Len(b) : "n" \in DOMAIN b[i]
    BY <1>9, <1>5, <2>1, <2>2, <2>4 DEF Paired, InputsPaired, InputPaired
  <2>7. Lines(b, q, u + k, 0)
    <3>1. u + k \in Nat
      OBVIOUS
    <3>2. QED
      BY <2>3, <2>6, <3>1, LinesCounted
  <2>8. b = stick'.buf[h]
    BY <1>1, <2>1
  <2>9. QED
    BY <2>1, <2>4, <2>5, <2>6, <2>7, <2>8 DEF InputPaired
<1>6. ASSUME NEW o \in Fifos, usage.type[o] # "WO" PROVE OutputPaired(o)'
  <2>1. SameOut(t, o)
    BY <1>3 DEF SameOut, MadeAt, DeliveredAt, At
  <2>2. NumbersStay
    BY <1>1 DEF NumbersStay, JobNumber
  <2>3. QED
    BY <1>1, <1>3, <1>6, <2>1, <2>2, OutputStays DEF Paired, OutputsPaired
<1>7. ElementsMade'
  BY <1>1, <1>3 DEF Paired, ElementsMade, OnlyThread, At
<1>8. QED
  BY <1>1, <1>4, <1>5, <1>6, <1>7 DEF Paired, InputsPaired, OutputsPaired, Chained

-----------------------------------------------------------------------------
(* The steps of a trigger.                                                   *)

\* The oldest parameter is that of the next element.
LEMMA LinesTaken ==
  ASSUME NEW b, NEW p, IsSeq(p), Len(p) > 0, NEW u \in Nat, NEW w \in Nat, Lines(b, p, u, w)
  PROVE  Lines(b, Pop(p), u + 1, w) /\ b[u + 1].n = Top(p)
<1>1. PICK m \in Nat : m = Len(p)
  BY SeqLen
<1>2. PICK q : q = Pop(p)
  OBVIOUS
<1>3. /\ Len(q) = m - 1 /\ Top(p) = p[1] /\ m > 0
      /\ \A i \in 1 .. Len(q) : i + 1 \in 1 .. m /\ q[i] = p[i + 1]
  BY <1>1, <1>2, Popped
<1>4. Len(b) = u + m + w /\ \A i \in 1 .. m : b[u + i].n = p[i]
  BY <1>1 DEF Lines
<1>5. Len(b) = (u + 1) + (m - 1) + w
  BY <1>4
<1>6. \A i \in 1 .. Len(q) : u + (i + 1) = (u + 1) + i
  BY <1>3
<1>7. \A i \in 1 .. Len(q) : b[(u + 1) + i].n = q[i]
  BY <1>3, <1>4, <1>6
<1>8. 1 \in 1 .. m
  BY <1>3
<1>9. b[u + 1].n = Top(p)
  BY <1>3, <1>4, <1>8
<1>10. QED
  BY <1>2, <1>3, <1>5, <1>7, <1>9 DEF Lines

LEMMA QueueTakePaired ==
  ASSUME HoldInv, DataInv, Pairing, JobsFed, Balanced, Paired, NEW t \in Threads, QueueTake(t)
  PROVE  Paired'
<1>0. DataShape /\ Alone({"QUEUE"})
  BY PairingMeans DEF DataInv
<1>1. /\ thr[t].f \in Fifos /\ At(t, "QUEUE", "take") /\ OnlyThread(t) /\ OthersSame(thr[t].f)
      /\ fifo'[thr[t].f].in = Pop(fifo[thr[t].f].in)
      /\ fifo'[thr[t].f].out = fifo[thr[t].f].out
      /\ \/ thr'[t] = Idle /\ fifo[thr[t].f].writeCount <= fifo[thr[t].f].consumed
         \/ /\ ~(fifo[thr[t].f].writeCount <= fifo[thr[t].f].consumed)
            /\ thr'[t].pc = "out" /\ SameCall(thr'[t], thr[t])
            /\ thr'[t].param = Top(fifo[thr[t].f].in)
      /\ UNCHANGED <<usage, stick>>
  BY <1>0, QueueTakeDoes
<1>2. PICK h \in Fifos : h = thr[t].f
  BY <1>1
<1>3. /\ Chained(h) /\ thr[t].op = "QUEUE" /\ thr[t].pc = "take"
      /\ fifo'[h].in = Pop(fifo[h].in)
      /\ \A f \in Fifos : f # h => fifo'[f].in = fifo[f].in
      /\ \A f \in Fifos : fifo'[f].out = fifo[f].out
  <2>1. thr[t].op = "QUEUE" /\ thr[t].pc = "take"
    BY <1>1 DEF At
  <2>2. Chained(h)
    BY <1>2, <2>1, TriggerInput
  <2>3. fifo'[h].in = Pop(fifo[h].in) /\ fifo'[h].out = fifo[h].out
    BY <1>1, <1>2
  <2>4. \A f \in Fifos : f # h => fifo'[f] = fifo[f]
    BY <1>1, <1>2 DEF OthersSame
  <2>5. QED
    BY <2>1, <2>2, <2>3, <2>4
<1>41. PICK p : p = fifo[h].in
  OBVIOUS
<1>42. IsSeq(p) /\ Len(p) \in Nat
  BY <1>41, InputTyped DEF DataInv
<1>43. fifo[h].consumed \in Nat /\ fifo[h].writeCount \in Nat
  BY BalanceTyped
<1>44. PICK m \in Nat, c \in Nat, d \in Nat :
            /\ m = Len(p) /\ c = fifo[h].consumed /\ d = fifo[h].writeCount
  BY <1>42, <1>43
<1>4. p = fifo[h].in /\ m = Len(p) /\ c = fifo[h].consumed /\ d = fifo[h].writeCount
  BY <1>41, <1>44
<1>5. IsSeq(p) /\ m + c = d
  BY <1>3, <1>4, InputTyped, ParamsCounted DEF Paired
<1>6. CASE d <= c
  <2>1. m = 0 /\ p = <<>>
    BY <1>4, <1>5, <1>6, SeqLen
  <2>2. fifo'[h].in = fifo[h].in
    BY <1>3, <1>4, <2>1 DEF Pop
  <2>3. thr'[t] = Idle
    BY <1>1, <1>2, <1>4, <1>6
  <2>4. Resting(t) /\ Resting(t)' /\ ~At(t, "WRITE", "send")'
    BY <1>3, <2>3 DEF Resting, Off, At, Idle
  <2>5. QED
    BY <1>1, <1>3, <2>2, <2>4, QuietPaired
<1>7. CASE ~(d <= c)
  <2>1. /\ thr'[t].pc = "out" /\ thr'[t].op = "QUEUE" /\ thr'[t].f = h
        /\ thr'[t].param = Top(p)
    BY <1>1, <1>2, <1>4, <1>7 DEF SameCall, At
  <2>2. m > 0
    BY <1>5, <1>7
  <2>3. ASSUME NEW f \in Fifos, Chained(f), f # h PROVE InputPaired(f)'
    <3>1. SameIn(t, f)
      BY <1>2, <1>3, <2>1, <2>3 DEF SameIn, WroteAt, TookAt, At
    <3>2. QED
      BY <1>1, <1>3, <2>3, <3>1, InputStays DEF Paired, InputsPaired
  <2>4. InputPaired(h)'
    <3>1. PICK b, q : b = stick.buf[h] /\ q = fifo'[h].in
      OBVIOUS
    <3>2. PICK u \in Nat, w \in Nat : u = Uses(h) /\ w = Wrote(h)
      BY InputTyped
    <3>3. /\ Took(h) = 0 /\ Took(h)' = 1
          /\ \A s \in Threads : TookAt(s, h)' => s = t
      <4>1. Took(h) = One(TookAt(t, h)) /\ Took(h)' = One(TookAt(t, h)')
        BY <1>0, <1>1, <1>3, OnlyTaker
      <4>2. ~TookAt(t, h) /\ TookAt(t, h)'
        BY <1>3, <2>1 DEF TookAt
      <4>3. \A s \in Threads : TookAt(s, h)' => s = t
        BY <1>0, <1>1, <1>3, OnlyTrigger DEF TookAt
      <4>4. QED
        BY <4>1, <4>2, <4>3 DEF One
    <3>4. /\ Uses(h)' = u /\ Wrote(h)' = w
          /\ \A s \in Threads : WroteAt(s, h)' => WroteAt(s, h) /\ thr'[s] = thr[s]
      <4>1. Wrote(h)' = Wrote(h)
        BY <1>1, <1>3, <2>1, WriteMarks
      <4>2. \A s \in Threads : WroteAt(s, h)' => s # t
        BY <2>1 DEF WroteAt, At
      <4>3. QED
        BY <1>1, <3>2, <4>1, <4>2 DEF Uses, OnlyThread, WroteAt, At
    <3>5. /\ Lines(b, p, u, w)
          /\ \A s \in Threads : WroteAt(s, h) => b[Len(b)].n = thr[s].e.n
          /\ \A i \in 1 .. Len(b) : "n" \in DOMAIN b[i]
      <4>1. u + 0 = u
        OBVIOUS
      <4>2. QED
        BY <1>3, <1>4, <3>1, <3>2, <3>3, <4>1 DEF Paired, InputsPaired, InputPaired
    <3>6. Lines(b, q, u + 1, w) /\ b[u + 1].n = Top(p)
      BY <1>3, <1>4, <1>5, <2>2, <3>1, <3>5, LinesTaken
    <3>7. \A s \in Threads : TookAt(s, h)' => b[u + 1].n = thr'[s].param
      BY <2>1, <3>3, <3>6
    <3>8. b = stick'.buf[h]
      BY <1>1, <3>1
    <3>9. QED
      BY <3>1, <3>3, <3>4, <3>5, <3>6, <3>7, <3>8 DEF InputPaired
  <2>5. ASSUME NEW o \in Fifos, usage.type[o] # "WO" PROVE OutputPaired(o)'
    <3>1. SameOut(t, o)
      BY <1>3, <2>1 DEF SameOut, MadeAt, DeliveredAt, At
    <3>2. NumbersStay
      BY <1>1 DEF NumbersStay, JobNumber
    <3>3. QED
      BY <1>1, <1>3, <2>5, <3>1, <3>2, OutputStays DEF Paired, OutputsPaired
  <2>6. ElementsMade'
    BY <1>1, <1>3, <2>1 DEF Paired, ElementsMade, OnlyThread, At
  <2>7. QED
    BY <1>1, <2>3, <2>4, <2>5, <2>6 DEF Paired, InputsPaired, OutputsPaired, Chained
<1>8. QED
  BY <1>6, <1>7

\* A parameter goes to the output, and the result will come.
LEMMA ResultsMade ==
  ASSUME NEW p, IsSeq(p), NEW b, IsSeq(b), NEW d \in Nat, NEW m \in Nat, NEW x,
         Results(p, b, d, m)
  PROVE  Results(Append(p, x), b, d, m + 1)
<1>1. PICK n \in Nat, k \in Nat : n = Len(p) /\ k = Len(b)
  BY SeqLen
<1>2. n = d + k + m /\ \A i \in 1 .. k : p[d + i] = b[i].n
  BY <1>1 DEF Results
<1>3. Len(Append(p, x)) = n + 1 /\ \A i \in 1 .. n : Append(p, x)[i] = p[i]
  BY <1>1, SeqAppended
<1>4. \A i \in 1 .. k : d + i \in 1 .. n
  BY <1>2
<1>5. QED
  BY <1>1, <1>2, <1>3, <1>4 DEF Results

\* The parameter of the result of a job is one of the output.
LEMMA JobParam ==
  ASSUME HoldInv, DataInv, Paired, NEW k \in 1 .. Len(stick.jobs), NEW o, stick.jobs[k].o = o
  PROVE  /\ Hits(Outputs(stick.jobs), k, o) \in Nat /\ Hits(Outputs(stick.jobs), k, o) >= 1
         /\ Delivered(o) + Len(stick.out[o]) + Hits(Outputs(stick.jobs), k, o)
              \in 1 .. Len(fifo[o].out)
         /\ fifo[o].out[Delivered(o) + Len(stick.out[o]) + Hits(Outputs(stick.jobs), k, o)]
              = JobNumber(k)
<1>1. o \in Fifos /\ usage.type[o] # "WO" /\ Outputs(stick.jobs)[k] = o /\ Len(stick.jobs) \in Nat
  BY JobsKnown
<1>2. OutputPaired(o)
  BY <1>1 DEF Paired, OutputsPaired
<1>3. PICK a \in Nat, d \in Nat, l \in Nat, m \in Nat, n \in Nat :
             /\ a = Len(fifo[o].out) /\ d = Delivered(o) /\ l = Len(stick.out[o])
             /\ m = Makes(o) /\ n = Made(o)
  BY <1>1, OutputTyped
<1>4. PICK i : i = Hits(Outputs(stick.jobs), k, o)
  OBVIOUS
<1>5. i \in Nat /\ i >= 1
  BY <1>1, <1>4, HitsHere
<1>6. i <= m
  BY <1>1, <1>3, <1>4, HitsUp DEF Makes
<1>7. a = d + l + (m + n)
  BY <1>2, <1>3 DEF OutputPaired, Results
<1>8. d + l + i \in 1 .. a
  BY <1>5, <1>6, <1>7
<1>9. fifo[o].out[d + l + i] = JobNumber(k)
  BY <1>2, <1>3, <1>4 DEF OutputPaired
<1>10. QED
  BY <1>3, <1>4, <1>5, <1>8, <1>9

LEMMA QueueOutPaired ==
  ASSUME HoldInv, DataInv, Pairing, JobsFed, Paired, NEW t \in Threads, QueueOut(t)
  PROVE  Paired'
<1>0. DataShape /\ Alone({"QUEUE"})
  BY PairingMeans DEF DataInv
<1>1. /\ thr[t].o \in Fifos /\ At(t, "QUEUE", "out") /\ OnlyThread(t)
      /\ Goes(t, "send") /\ OthersSame(thr[t].o)
      /\ fifo'[thr[t].o].in = fifo[thr[t].o].in
      /\ fifo'[thr[t].o].out = Append(fifo[thr[t].o].out, thr[t].param)
      /\ UNCHANGED <<usage, stick>>
  BY <1>0, QueueOutDoes
<1>2. PICK q \in Fifos : q = thr[t].o
  BY <1>1
<1>3. PICK x : x = thr[t].param
  OBVIOUS
<1>4. /\ thr[t].op = "QUEUE" /\ thr[t].pc = "out" /\ thr'[t].op = "QUEUE" /\ thr'[t].pc = "send"
      /\ thr'[t].f = thr[t].f /\ thr'[t].o = q /\ thr'[t].param = x
      /\ fifo'[q].out = Append(fifo[q].out, x)
      /\ \A f \in Fifos : f # q => fifo'[f].out = fifo[f].out
      /\ \A f \in Fifos : fifo'[f].in = fifo[f].in
  <2>1. /\ thr[t].op = "QUEUE" /\ thr[t].pc = "out" /\ thr'[t].op = "QUEUE" /\ thr'[t].pc = "send"
        /\ thr'[t].f = thr[t].f /\ thr'[t].o = q /\ thr'[t].param = x
    BY <1>1, <1>2, <1>3 DEF Goes, KeepsWhat, SameCall, At
  <2>2. fifo'[q].in = fifo[q].in /\ fifo'[q].out = Append(fifo[q].out, x)
    BY <1>1, <1>2, <1>3
  <2>3. \A f \in Fifos : f # q => fifo'[f] = fifo[f]
    BY <1>1, <1>2 DEF OthersSame
  <2>4. QED
    BY <2>1, <2>2, <2>3
<1>5. ASSUME NEW f \in Fifos, Chained(f) PROVE InputPaired(f)'
  <2>1. SameIn(t, f)
    BY <1>3, <1>4 DEF SameIn, WroteAt, TookAt, At
  <2>2. QED
    BY <1>1, <1>4, <1>5, <2>1, InputStays DEF Paired, InputsPaired
<1>6. NumbersStay
  BY <1>1 DEF NumbersStay, JobNumber
<1>7. ASSUME NEW o \in Fifos, usage.type[o] # "WO", o # q PROVE OutputPaired(o)'
  <2>1. SameOut(t, o)
    BY <1>2, <1>4, <1>7 DEF SameOut, MadeAt, DeliveredAt, At
  <2>2. QED
    BY <1>1, <1>4, <1>6, <1>7, <2>1, OutputStays DEF Paired, OutputsPaired
<1>8. ASSUME usage.type[q] # "WO" PROVE OutputPaired(q)'
  <2>1. PICK p, r, b : p = fifo[q].out /\ r = fifo'[q].out /\ b = stick.out[q]
    OBVIOUS
  <2>2. PICK n \in Nat, d \in Nat, m \in Nat : n = Len(p) /\ d = Delivered(q) /\ m = Makes(q)
    BY <2>1, OutputTyped
  <2>3. IsSeq(p) /\ IsSeq(b) /\ r = Append(p, x)
    BY <1>4, <2>1, OutputTyped
  <2>4. /\ Made(q) = 0 /\ Made(q)' = 1
        /\ \A s \in Threads : MadeAt(s, q)' => s = t
    <3>1. Made(q) = One(MadeAt(t, q)) /\ Made(q)' = One(MadeAt(t, q)')
      BY <1>0, <1>1, <1>4, OnlyTaker
    <3>2. ~MadeAt(t, q) /\ MadeAt(t, q)'
      BY <1>4 DEF MadeAt, At
    <3>3. \A s \in Threads : MadeAt(s, q)' => s = t
      BY <1>0, <1>1, <1>4, OnlyTrigger DEF MadeAt, At
    <3>4. QED
      BY <3>1, <3>2, <3>3 DEF One
  <2>5. /\ Makes(q)' = m /\ Delivered(q)' = d
        /\ \A s \in Threads : DeliveredAt(s, q)' => DeliveredAt(s, q) /\ thr'[s] = thr[s]
    <3>1. \A s \in Threads : DeliveredAt(s, q)' <=> DeliveredAt(s, q)
      BY <1>1, <1>4 DEF OnlyThread, DeliveredAt, At
    <3>2. (\E s \in Threads : DeliveredAt(s, q)') <=> (\E s \in Threads : DeliveredAt(s, q))
      BY <3>1, Zenon
    <3>3. Delivered(q)' = d
      BY <2>2, <3>2 DEF Delivered, One
    <3>4. \A s \in Threads : DeliveredAt(s, q)' => s # t
      BY <1>4 DEF DeliveredAt, At
    <3>5. QED
      BY <1>1, <2>2, <3>1, <3>3, <3>4 DEF Makes, OnlyThread
  <2>6. /\ Results(p, b, d, m)
        /\ \A s \in Threads : DeliveredAt(s, q) => p[1] = thr[s].e.n
    <3>1. m + 0 = m
      OBVIOUS
    <3>2. QED
      BY <1>8, <2>1, <2>2, <2>4, <3>1 DEF Paired, OutputsPaired, OutputPaired
  <2>7. Results(r, b, d, m + 1)
    BY <2>3, <2>6, ResultsMade
  <2>8. Len(r) = n + 1 /\ r[n + 1] = x /\ \A i \in 1 .. n : r[i] = p[i]
    BY <2>2, <2>3, SeqAppended
  <2>9. \A s \in Threads : DeliveredAt(s, q)' => r[1] = thr'[s].e.n
    <3> SUFFICES ASSUME NEW s \in Threads, DeliveredAt(s, q)' PROVE r[1] = thr'[s].e.n
      OBVIOUS
    <3>1. DeliveredAt(s, q) /\ thr'[s] = thr[s] /\ d = 1
      BY <2>2, <2>5, MarksCount
    <3>2. n = d + Len(b) + m /\ Len(b) \in Nat
      BY <2>2, <2>3, <2>6, SeqLen DEF Results
    <3>3. 1 \in 1 .. n
      BY <3>1, <3>2
    <3>4. QED
      BY <2>6, <2>8, <3>1, <3>3
  <2>10. ASSUME NEW k \in 1 .. Len(stick.jobs), stick.jobs[k].o = q
         PROVE  r[d + Len(b) + Hits(Outputs(stick.jobs), k, q)] = JobNumber(k)
    <3>1. PICK i : i = d + Len(b) + Hits(Outputs(stick.jobs), k, q)
      OBVIOUS
    <3>2. i \in 1 .. n /\ p[i] = JobNumber(k)
      BY <2>1, <2>2, <2>10, <3>1, JobParam
    <3>3. QED
      BY <2>8, <3>1, <3>2
  <2>11. \A s \in Threads : MadeAt(s, q)' => r[Len(r)] = thr'[s].param
    BY <1>4, <2>4, <2>8
  <2>12. stick'.out[q] = b /\ stick'.jobs = stick.jobs
    BY <1>1, <2>1
  <2>13. \A k \in 1 .. Len(stick.jobs) : JobNumber(k)' = JobNumber(k)
    BY <1>6 DEF NumbersStay
  <2>14. QED
    BY <2>1, <2>4, <2>5, <2>7, <2>9, <2>10, <2>11, <2>12, <2>13 DEF OutputPaired
<1>9. ElementsMade'
  BY <1>1, <1>4 DEF Paired, ElementsMade, OnlyThread, At
<1>10. QED
  BY <1>1, <1>5, <1>7, <1>8, <1>9 DEF Paired, InputsPaired, OutputsPaired, Chained

-----------------------------------------------------------------------------
(* A trigger becomes a job, and the stick runs it.                           *)

LEMMA QueueSendPaired ==
  ASSUME HoldInv, DataInv, Pairing, DeviceUp, Alive, Paired, NEW t \in Threads, QueueSend(t)
  PROVE  Paired'
<1>0. DataShape /\ Alone({"QUEUE"}) /\ Pipelined
  BY PairingMeans DEF DataInv
<1>1. /\ thr[t].f \in Fifos /\ thr[t].o \in Fifos /\ At(t, "QUEUE", "send") /\ OnlyThread(t)
      /\ \/ thr'[t] = Idle /\ SendFails(t) /\ UNCHANGED stick
         \/ Goes(t, "check") /\ Fails(t, "refuse") /\ UNCHANGED stick
         \/ /\ Goes(t, "check")
            /\ stick'.jobs = Append(stick.jobs, [f |-> thr[t].f, o |-> thr[t].o])
            /\ stick'.buf = stick.buf /\ stick'.out = stick.out
      /\ UNCHANGED <<usage, fifo>>
  BY <1>0, QueueSendDoes
<1>2. PICK h \in Fifos : h = thr[t].f
  BY <1>1
<1>3. PICK q \in Fifos : q = thr[t].o
  BY <1>1
<1>4. PICK j \in JobRecords : j = [f |-> h, o |-> q] /\ j.f = h /\ j.o = q
  <2>1. [f |-> h, o |-> q] \in JobRecords
    BY <1>2, <1>3 DEF JobRecords
  <2>2. [f |-> h, o |-> q].f = h /\ [f |-> h, o |-> q].o = q
    OBVIOUS
  <2>3. QED
    BY <2>1, <2>2
<1>5. PICK js \in Seq(JobRecords) : js = stick.jobs
  BY <1>0 DEF DataShape, StickShape
<1>6. PICK r : r = Append(js, j)
  OBVIOUS
<1>7. ~SendFails(t) /\ ~Fails(t, "refuse")
  <2>1. dev.monitor
    BY <1>1 DEF DeviceUp, Triggering, At
  <2>2. ~Fails(t, "send") /\ ~Fails(t, "refuse")
    BY <1>0, <1>1 DEF Pipelined, TriggerFails, Fails, At
  <2>3. QED
    BY <2>1, <2>2 DEF SendFails
<1>8. /\ thr[t].pc = "send" /\ thr[t].op = "QUEUE" /\ thr'[t].pc = "check" /\ thr'[t].op = "QUEUE"
      /\ stick'.jobs = r /\ stick'.buf = stick.buf /\ stick'.out = stick.out
  BY <1>1, <1>2, <1>3, <1>4, <1>5, <1>6, <1>7 DEF Goes, KeepsWhat, SameCall, At
<1>9. /\ r \in Seq(JobRecords) /\ Len(r) = Len(js) + 1 /\ r[Len(js) + 1] = j
      /\ \A k \in 1 .. Len(js) : r[k] = js[k]
  BY <1>6
<1>10. PICK n \in Nat : n = Len(js)
  BY LenProperties
<1>11. ASSUME NEW f
       PROVE  /\ \A k \in 0 .. n : /\ Hits(Inputs(r), k, f) = Hits(Inputs(js), k, f)
                                   /\ Hits(Outputs(r), k, f) = Hits(Outputs(js), k, f)
              /\ Hits(Inputs(r), n + 1, f) = Uses(f) + Is(h, f)
              /\ Hits(Outputs(r), n + 1, f) = Makes(f) + Is(q, f)
              /\ Uses(f)' = Uses(f) + Is(h, f) /\ Makes(f)' = Makes(f) + Is(q, f)
  <2>1. More(js, r, j)
    BY <1>9 DEF More
  <2>2. /\ \A k \in 0 .. Len(js) : /\ Hits(Inputs(r), k, f) = Hits(Inputs(js), k, f)
                                    /\ Hits(Outputs(r), k, f) = Hits(Outputs(js), k, f)
        /\ Hits(Inputs(r), Len(r), f) = Hits(Inputs(js), Len(js), f) + Is(j.f, f)
        /\ Hits(Outputs(r), Len(r), f) = Hits(Outputs(js), Len(js), f) + Is(j.o, f)
    BY <1>4, <1>5, <2>1, JobAdded
  <2>3. Len(r) = n + 1 /\ Is(j.f, f) = Is(h, f) /\ Is(j.o, f) = Is(q, f)
    BY <1>4, <1>9, <1>10 DEF Is
  <2>4. /\ Uses(f) = Hits(Inputs(js), Len(js), f) /\ Makes(f) = Hits(Outputs(js), Len(js), f)
        /\ Uses(f)' = Hits(Inputs(r), Len(r), f) /\ Makes(f)' = Hits(Outputs(r), Len(r), f)
    BY <1>5, <1>8 DEF Uses, Makes
  <2>5. QED
    BY <1>10, <2>2, <2>3, <2>4
<1>12. ASSUME NEW f
       PROVE  /\ Took(f) = Is(h, f) /\ Took(f)' = 0 /\ \A s \in Threads : ~TookAt(s, f)'
              /\ Made(f) = Is(q, f) /\ Made(f)' = 0 /\ \A s \in Threads : ~MadeAt(s, f)'
  <2>1. /\ Took(f) = One(TookAt(t, f)) /\ Took(f)' = One(TookAt(t, f)')
        /\ Made(f) = One(MadeAt(t, f)) /\ Made(f)' = One(MadeAt(t, f)')
    BY <1>0, <1>1, <1>8, OnlyTaker
  <2>2. /\ (TookAt(t, f) <=> h = f) /\ ~TookAt(t, f)'
        /\ (MadeAt(t, f) <=> q = f) /\ ~MadeAt(t, f)'
    BY <1>2, <1>3, <1>8 DEF TookAt, MadeAt, At
  <2>3. \A s \in Threads : s # t => ~TookAt(s, f)' /\ ~MadeAt(s, f)'
    BY <1>0, <1>1, <1>8, OnlyTrigger DEF TookAt, MadeAt, At
  <2>4. QED
    BY <2>1, <2>2, <2>3 DEF One, Is
<1>13. ASSUME NEW f
       PROVE  /\ Wrote(f)' = Wrote(f)
              /\ \A s \in Threads : WroteAt(s, f)' => WroteAt(s, f) /\ thr'[s].e = thr[s].e
  <2>1. Wrote(f)' = Wrote(f)
    BY <1>1, <1>8, WriteMarks
  <2>2. ~WroteAt(t, f)'
    BY <1>8 DEF WroteAt, At
  <2>3. \A s \in Threads : s # t => (WroteAt(s, f)' <=> WroteAt(s, f)) /\ thr'[s] = thr[s]
    BY <1>1 DEF OnlyThread, WroteAt, At
  <2>4. QED
    BY <2>1, <2>2, <2>3
<1>14. ASSUME NEW f
       PROVE  /\ Delivered(f)' = Delivered(f)
              /\ \A s \in Threads : DeliveredAt(s, f)' => DeliveredAt(s, f) /\ thr'[s].e = thr[s].e
  <2>1. ~DeliveredAt(t, f)' /\ ~DeliveredAt(t, f)
    BY <1>8 DEF DeliveredAt, At
  <2>2. \A s \in Threads : s # t => (DeliveredAt(s, f)' <=> DeliveredAt(s, f)) /\ thr'[s] = thr[s]
    BY <1>1 DEF OnlyThread, DeliveredAt, At
  <2>3. (\E s \in Threads : DeliveredAt(s, f)') <=> (\E s \in Threads : DeliveredAt(s, f))
    BY <2>1, <2>2, Zenon
  <2>4. QED
    BY <2>1, <2>2, <2>3 DEF Delivered, One
<1>15. ASSUME NEW f \in Fifos, Chained(f) PROVE InputPaired(f)'
  <2>1. PICK u \in Nat, d \in Nat, w \in Nat : u = Uses(f) /\ d = Is(h, f) /\ w = Wrote(f)
    BY InputTyped DEF Is
  <2>2. PICK b, p : b = stick.buf[f] /\ p = fifo[f].in
    OBVIOUS
  <2>3. /\ Lines(b, p, u + d, w)
        /\ \A s \in Threads : WroteAt(s, f) => b[Len(b)].n = thr[s].e.n
        /\ \A i \in 1 .. Len(b) : "n" \in DOMAIN b[i]
    BY <1>12, <1>15, <2>1, <2>2 DEF Paired, InputsPaired, InputPaired
  <2>4. Uses(f)' + Took(f)' = u + d
    <3>1. Uses(f)' = u + d /\ Took(f)' = 0 /\ (u + d) + 0 = u + d
      BY <1>11, <1>12, <2>1
    <3>2. QED
      BY <3>1
  <2>5. /\ Lines(stick.buf[f], fifo[f].in, Uses(f) + Took(f), Wrote(f))'
    BY <1>1, <1>8, <1>13, <2>1, <2>2, <2>3, <2>4
  <2>6. stick'.buf[f] = b
    BY <1>8, <2>2
  <2>7. QED
    BY <1>12, <1>13, <2>3, <2>5, <2>6 DEF InputPaired
<1>16. JobNumber(n + 1)' = thr[t].param
  <2>1. Chained(h)
    BY <1>2, <1>8, TriggerInput
  <2>2. TookAt(t, h)
    BY <1>2, <1>8 DEF TookAt
  <2>3. stick.buf[h][Uses(h) + 1].n = thr[t].param
    BY <2>1, <2>2 DEF Paired, InputsPaired, InputPaired
  <2>4. Is(h, h) = 1
    BY DEF Is
  <2>5. Hits(Inputs(r), n + 1, h) = Uses(h) + 1
    BY <1>11, <2>4
  <2>6. stick'.jobs[n + 1].f = h
    BY <1>4, <1>8, <1>9, <1>10
  <2>7. QED
    BY <1>8, <2>3, <2>5, <2>6 DEF JobNumber
<1>17. ASSUME NEW k \in 1 .. n PROVE JobNumber(k)' = JobNumber(k)
  <2>1. r[k] = js[k] /\ k \in 0 .. n
    BY <1>9, <1>10
  <2>2. PICK f : f = js[k].f
    OBVIOUS
  <2>3. Hits(Inputs(r), k, f) = Hits(Inputs(js), k, f)
    BY <1>11, <2>1
  <2>4. QED
    BY <1>5, <1>8, <2>1, <2>2, <2>3 DEF JobNumber
<1>18. ASSUME NEW o \in Fifos, usage.type[o] # "WO" PROVE OutputPaired(o)'
  <2>1. PICK p, b : p = fifo[o].out /\ b = stick.out[o]
    OBVIOUS
  <2>2. PICK m \in Nat, c \in Nat, d \in Nat : m = Makes(o) /\ c = Is(q, o) /\ d = Delivered(o)
    BY OutputTyped DEF Is
  <2>3. PICK l \in Nat : l = Len(b)
    BY <2>1, OutputTyped
  <2>4. /\ Results(p, b, d, m + c)
        /\ \A s \in Threads : DeliveredAt(s, o) => p[1] = thr[s].e.n
        /\ \A s \in Threads : MadeAt(s, o) => p[Len(p)] = thr[s].param
    BY <1>12, <1>18, <2>1, <2>2 DEF Paired, OutputsPaired, OutputPaired
  <2>5. Makes(o)' + Made(o)' = m + c
    <3>1. Makes(o)' = m + c /\ Made(o)' = 0 /\ (m + c) + 0 = m + c
      BY <1>11, <1>12, <2>2
    <3>2. QED
      BY <3>1
  <2>6. fifo'[o].out = p /\ stick'.out[o] = b /\ Delivered(o)' = d
    BY <1>1, <1>8, <1>14, <2>1, <2>2
  <2>7. Results(fifo[o].out, stick.out[o], Delivered(o), Makes(o) + Made(o))'
    BY <2>4, <2>5, <2>6
  <2>8. \A s \in Threads : DeliveredAt(s, o)' => p[1] = thr'[s].e.n
    BY <1>14, <2>4
  <2>9. ASSUME NEW k \in 1 .. n + 1, r[k].o = o
        PROVE  p[d + l + Hits(Outputs(r), k, o)] = JobNumber(k)'
    <3>1. CASE k = n + 1
      <4>1. q = o
        BY <1>4, <1>9, <1>10, <2>9, <3>1
      <4>2. c = 1 /\ MadeAt(t, o)
        BY <1>3, <1>8, <2>2, <4>1 DEF Is, MadeAt, At
      <4>3. Hits(Outputs(r), k, o) = m + 1
        BY <1>11, <2>2, <3>1, <4>2
      <4>4. Len(p) = d + l + (m + 1)
        BY <2>3, <2>4, <4>2 DEF Results
      <4>5. p[Len(p)] = thr[t].param
        BY <2>4, <4>2
      <4>6. QED
        BY <1>16, <3>1, <4>3, <4>4, <4>5
    <3>2. CASE k # n + 1
      <4>1. k \in 1 .. n /\ k \in 0 .. n /\ k \in 1 .. Len(stick.jobs)
        BY <1>5, <1>10, <3>2
      <4>2. stick.jobs[k].o = o
        BY <1>5, <1>9, <1>10, <2>9, <4>1
      <4>3. p[d + l + Hits(Outputs(stick.jobs), k, o)] = JobNumber(k)
        BY <2>1, <2>2, <2>3, <4>1, <4>2, JobParam
      <4>4. Hits(Outputs(r), k, o) = Hits(Outputs(stick.jobs), k, o)
        BY <1>5, <1>11, <4>1
      <4>5. QED
        BY <1>17, <4>1, <4>3, <4>4
    <3>3. QED
      BY <3>1, <3>2
  <2>10. \A k \in 1 .. Len(stick'.jobs) : stick'.jobs[k].o = o =>
           fifo'[o].out[Delivered(o)' + Len(stick'.out[o]) + Hits(Outputs(stick'.jobs), k, o)]
             = JobNumber(k)'
    BY <1>8, <1>9, <1>10, <2>3, <2>6, <2>9
  <2>11. QED
    BY <1>12, <2>6, <2>7, <2>8, <2>10 DEF OutputPaired
<1>19. ElementsMade'
  BY <1>1, <1>8 DEF Paired, ElementsMade, OnlyThread, At
<1>20. QED
  BY <1>1, <1>15, <1>18, <1>19 DEF Paired, InputsPaired, OutputsPaired, Chained

LEMMA LinesRun ==
  ASSUME NEW b, IsSeq(b), b # <<>>, NEW p, IsSeq(p), NEW u \in Nat, NEW w \in Nat,
         Lines(b, p, u + 1, w)
  PROVE  Lines(Tail(b), p, u, w)
<1>1. PICK l \in Nat, m \in Nat : l = Len(b) /\ m = Len(p)
  BY SeqLen
<1>2. l = (u + 1) + m + w /\ \A i \in 1 .. m : b[(u + 1) + i].n = p[i]
  BY <1>1 DEF Lines
<1>3. /\ Len(Tail(b)) = l - 1
      /\ \A i \in 1 .. l - 1 : Tail(b)[i] = b[i + 1]
  BY <1>1, SeqTaken
<1>4. ASSUME NEW i \in 1 .. m PROVE Tail(b)[u + i].n = p[i]
  <2>1. u + i \in 1 .. l - 1 /\ (u + i) + 1 = (u + 1) + i
    BY <1>2
  <2>2. QED
    BY <1>2, <1>3, <2>1
<1>5. Len(Tail(b)) = u + m + w
  BY <1>2, <1>3
<1>6. QED
  BY <1>1, <1>4, <1>5 DEF Lines

LEMMA ResultsRun ==
  ASSUME NEW p, IsSeq(p), NEW b, IsSeq(b), NEW d \in Nat, NEW m \in Nat, NEW e,
         Results(p, b, d, m + 1), p[d + Len(b) + 1] = e.n
  PROVE  Results(p, Append(b, e), d, m)
<1>1. PICK l \in Nat, c \in Nat : l = Len(b) /\ c = Len(p)
  BY SeqLen
<1>2. c = d + l + (m + 1) /\ \A i \in 1 .. l : p[d + i] = b[i].n
  BY <1>1 DEF Results
<1>3. /\ Len(Append(b, e)) = l + 1 /\ Append(b, e)[l + 1] = e
      /\ \A i \in 1 .. l : Append(b, e)[i] = b[i]
  BY <1>1, SeqAppended
<1>4. ASSUME NEW i \in 1 .. l + 1 PROVE p[d + i] = Append(b, e)[i].n
  <2>1. CASE i = l + 1
    <3>1. d + i = d + l + 1
      BY <2>1
    <3>2. QED
      BY <1>1, <1>3, <2>1, <3>1
  <2>2. CASE i # l + 1
    <3>1. i \in 1 .. l
      BY <2>2
    <3>2. QED
      BY <1>2, <1>3, <3>1
  <2>3. QED
    BY <2>1, <2>2
<1>5. c = d + (l + 1) + m
  BY <1>2
<1>6. QED
  BY <1>1, <1>3, <1>4, <1>5 DEF Results

LEMMA StickPaired ==
  ASSUME HoldInv, DataInv, Pairing, JobsFed, Paired, NEW j \in JobRecords, NEW e, Ran(j, e)
  PROVE  Paired'
<1>1. /\ stick.jobs # <<>> /\ j = Head(stick.jobs) /\ stick'.jobs = Tail(stick.jobs)
      /\ stick.buf[j.f] # <<>> /\ j.f \in Fifos /\ j.o \in Fifos
      /\ e = Result(Head(stick.buf[j.f]))
      /\ \A f \in Fifos : stick'.buf[f] = IF f = j.o /\ Chained(f) THEN Append(Left(j, f), e)
                                         ELSE Left(j, f)
      /\ stick'.out[j.o] = Append(stick.out[j.o], e)
      /\ \A f \in Fifos : f # j.o => stick'.out[f] = stick.out[f]
      /\ UNCHANGED <<usage, fifo, thr>>
  BY DEF Ran, JobRecords
<1>2. PICK js \in Seq(JobRecords) : js = stick.jobs
  BY DEF DataInv, DataShape, StickShape
<1>3. PICK r : r = stick'.jobs
  OBVIOUS
<1>4. Done(js, r, j)
  <2>1. js # <<>> /\ r = Tail(js) /\ j = Head(js)
    BY <1>1, <1>2, <1>3
  <2>2. r \in Seq(JobRecords) /\ Len(js) = Len(r) + 1 /\ j = js[1]
    BY <2>1, EmptySeq
  <2>3. \A k \in 1 .. Len(r) : r[k] = js[k + 1]
    BY <2>1, <2>2
  <2>4. QED
    BY <2>2, <2>3 DEF Done
<1>5. PICK n \in Nat : n = Len(r)
  BY <1>4, LenProperties DEF Done
<1>6. /\ Len(js) = n + 1 /\ js[1] = j /\ \A k \in 1 .. n : r[k] = js[k + 1]
      /\ 1 \in 1 .. n + 1
  BY <1>4, <1>5 DEF Done
<1>7. PICK h \in Fifos, q \in Fifos : h = j.f /\ q = j.o
  BY <1>1
<1>8. ASSUME NEW f, NEW k \in 0 .. n
      PROVE  /\ Hits(Inputs(js), k + 1, f) = Hits(Inputs(r), k, f) + Is(h, f)
             /\ Hits(Outputs(js), k + 1, f) = Hits(Outputs(r), k, f) + Is(q, f)
  BY <1>2, <1>4, <1>5, <1>7, JobDone
<1>9. Chained(h) /\ ~Chained(q) /\ h # q
  <2>1. Chained(h) /\ usage.type[q] # "WO"
    BY <1>2, <1>6, <1>7 DEF JobsFed, DataInv, JobsTyped
  <2>2. QED
    BY <2>1, PairingMeans
<1>10. PICK a : a = stick.buf[h]
  OBVIOUS
<1>11. /\ stick'.buf[h] = Tail(a)
       /\ \A f \in Fifos : f # h => stick'.buf[f] = stick.buf[f]
  BY <1>1, <1>7, <1>9, <1>10 DEF Left
<1>12. IsSeq(a) /\ a # <<>> /\ InputPaired(h)
  BY <1>1, <1>7, <1>9, <1>10, InputTyped DEF Paired, InputsPaired
<1>13. PICK l \in Nat : l = Len(a)
  BY <1>12, SeqLen
<1>14. /\ Len(Tail(a)) = l - 1 /\ l >= 1 /\ Head(a) = a[1]
       /\ \A i \in 1 .. l - 1 : Tail(a)[i] = a[i + 1]
  BY <1>12, <1>13, SeqTaken
<1>15. e.n = a[1].n
  <2>1. "n" \in DOMAIN a[1]
    BY <1>10, <1>12, <1>13, <1>14 DEF InputPaired
  <2>2. e = Result(a[1])
    BY <1>1, <1>7, <1>10, <1>14
  <2>3. QED
    BY <2>1, <2>2 DEF Result
<1>16. ASSUME NEW f
       PROVE  /\ Wrote(f)' = Wrote(f) /\ Took(f)' = Took(f)
              /\ Made(f)' = Made(f) /\ Delivered(f)' = Delivered(f)
              /\ \A s \in Threads : /\ WroteAt(s, f)' <=> WroteAt(s, f)
                                    /\ TookAt(s, f)' <=> TookAt(s, f)
                                    /\ MadeAt(s, f)' <=> MadeAt(s, f)
                                    /\ DeliveredAt(s, f)' <=> DeliveredAt(s, f)
  BY <1>1 DEF Wrote, Took, Made, Delivered, WroteAt, TookAt, MadeAt, DeliveredAt, At
<1>17. ASSUME NEW f
       PROVE  Uses(f) = Uses(f)' + Is(h, f) /\ Makes(f) = Makes(f)' + Is(q, f)
              /\ Uses(f)' \in Nat /\ Makes(f)' \in Nat
  <2>1. n \in 0 .. n /\ n \in Int
    OBVIOUS
  <2>2. /\ Uses(f)' = Hits(Inputs(r), n, f) /\ Makes(f)' = Hits(Outputs(r), n, f)
        /\ Uses(f) = Hits(Inputs(js), n + 1, f) /\ Makes(f) = Hits(Outputs(js), n + 1, f)
    BY <1>2, <1>3, <1>5, <1>6 DEF Uses, Makes
  <2>3. QED
    BY <1>8, <2>1, <2>2, HitsNat
<1>18. ASSUME NEW f \in Fifos, Chained(f), f # h PROVE InputPaired(f)'
  <2>1. Uses(f)' = Uses(f)
    <3>1. Is(h, f) = 0
      BY <1>18 DEF Is
    <3>2. QED
      BY <1>17, <3>1
  <2>2. stick'.buf[f] = stick.buf[f] /\ fifo' = fifo /\ thr' = thr
    BY <1>1, <1>11, <1>18
  <2>3. InputPaired(f)
    BY <1>18 DEF Paired, InputsPaired
  <2>4. QED
    BY <1>16, <2>1, <2>2, <2>3 DEF InputPaired
<1>19. InputPaired(h)'
  <2>1. PICK u \in Nat, c \in Nat, w \in Nat : u = Uses(h)' /\ c = Took(h) /\ w = Wrote(h)
    BY <1>17, InputTyped
  <2>2. PICK p : p = fifo[h].in
    OBVIOUS
  <2>3. IsSeq(p) /\ Len(p) \in Nat
    BY <2>2, InputTyped
  <2>4. Uses(h) = u + 1 /\ (u + 1) + c = (u + c) + 1 /\ u + c \in Nat
    <3>1. Is(h, h) = 1
      BY DEF Is
    <3>2. QED
      BY <1>17, <2>1, <3>1
  <2>5. Lines(a, p, (u + c) + 1, w)
    BY <1>10, <1>12, <2>1, <2>2, <2>4 DEF InputPaired
  <2>6. Lines(Tail(a), p, u + c, w)
    BY <1>12, <2>3, <2>5, LinesRun
  <2>7. l = (u + c) + 1 + Len(p) + w
    BY <1>13, <2>5 DEF Lines
  <2>8. ASSUME NEW s \in Threads, TookAt(s, h) PROVE Tail(a)[u + 1].n = thr[s].param
    <3>1. c = 1
      BY <2>1, <2>8, MarksCount
    <3>2. u + 1 \in 1 .. l - 1
      BY <2>3, <2>7, <3>1
    <3>3. a[(u + 1) + 1].n = thr[s].param
      BY <1>10, <1>12, <2>4, <2>8 DEF InputPaired
    <3>4. QED
      BY <1>14, <3>2, <3>3
  <2>9. ASSUME NEW s \in Threads, WroteAt(s, h) PROVE Tail(a)[l - 1].n = thr[s].e.n
    <3>1. w = 1
      BY <2>1, <2>9, MarksCount
    <3>2. l - 1 \in 1 .. l - 1 /\ (l - 1) + 1 = l
      BY <2>3, <2>7, <3>1
    <3>3. a[l].n = thr[s].e.n
      BY <1>10, <1>12, <1>13, <2>9 DEF InputPaired
    <3>4. QED
      BY <1>14, <3>2, <3>3
  <2>10. ASSUME NEW i \in 1 .. l - 1 PROVE "n" \in DOMAIN Tail(a)[i]
    <3>1. i + 1 \in 1 .. l
      OBVIOUS
    <3>2. QED
      BY <1>10, <1>12, <1>13, <1>14, <3>1 DEF InputPaired
  <2>11. /\ stick'.buf[h] = Tail(a) /\ fifo'[h].in = p /\ thr' = thr /\ Len(stick'.buf[h]) = l - 1
         /\ Uses(h)' = u /\ Took(h)' = c /\ Wrote(h)' = w
    BY <1>1, <1>11, <1>14, <1>16, <2>1, <2>2
  <2>12. QED
    BY <1>16, <2>6, <2>8, <2>9, <2>10, <2>11 DEF InputPaired
<1>20. ASSUME NEW k \in 1 .. n PROVE JobNumber(k)' = JobNumber(k + 1)
  <2>1. /\ k + 1 \in 1 .. Len(stick.jobs) /\ k \in 0 .. n /\ k \in Nat \ {0} /\ r[k] = js[k + 1]
    BY <1>2, <1>6
  <2>2. PICK f : f = r[k].f
    OBVIOUS
  <2>3. f = stick.jobs[k + 1].f /\ f \in Fifos
    BY <1>2, <2>1, <2>2, JobIndex
  <2>4. PICK i \in Nat : i = Hits(Inputs(r), k, f)
    BY <2>1, HitsNat
  <2>5. i >= 1
    <3>1. Inputs(r)[k] = f
      BY <1>5, <2>2 DEF Inputs
    <3>2. QED
      BY <2>1, <2>4, <3>1, HitsHere
  <2>6. PICK c \in Nat : c = Is(h, f)
    BY DEF Is
  <2>7. Hits(Inputs(stick.jobs), k + 1, f) = i + c
    BY <1>2, <1>8, <2>1, <2>4, <2>6
  <2>8. JobNumber(k)' = stick'.buf[f][i].n /\ JobNumber(k + 1) = stick.buf[f][i + c].n
    BY <1>3, <2>2, <2>3, <2>4, <2>7 DEF JobNumber
  <2>9. CASE f # h
    <3>1. c = 0 /\ i + c = i
      BY <2>6, <2>9 DEF Is
    <3>2. QED
      BY <1>11, <2>3, <2>8, <2>9, <3>1
  <2>10. CASE f = h
    <3>1. c = 1
      BY <2>6, <2>10 DEF Is
    <3>2. i + 1 \in 1 .. l
      BY <1>10, <1>13, <2>1, <2>3, <2>7, <2>10, <3>1, JobIndex
    <3>3. i \in 1 .. l - 1
      BY <2>5, <3>2
    <3>4. QED
      BY <1>10, <1>11, <1>14, <2>8, <2>10, <3>1, <3>3
  <2>11. QED
    BY <2>9, <2>10
<1>21. 0 \in 0 .. n /\ 0 + 1 = 1 /\ \A i \in 1 .. 0 : FALSE
  OBVIOUS
<1>22. JobNumber(1) = e.n
  <2>1. Hits(Inputs(r), 0, h) = 0
    BY <1>21, HitsNone
  <2>2. Is(h, h) = 1
    BY DEF Is
  <2>3. Hits(Inputs(js), 1, h) = 1
    BY <1>8, <1>21, <2>1, <2>2
  <2>4. QED
    BY <1>2, <1>6, <1>7, <1>10, <1>15, <2>3 DEF JobNumber
<1>23. ASSUME NEW o \in Fifos, usage.type[o] # "WO" PROVE OutputPaired(o)'
  <2>1. PICK p, b : p = fifo[o].out /\ b = stick.out[o]
    OBVIOUS
  <2>2. PICK m \in Nat, c \in Nat, d \in Nat, v \in Nat :
              m = Makes(o)' /\ c = Made(o) /\ d = Delivered(o) /\ v = Is(q, o)
    BY <1>17, OutputTyped DEF Is
  <2>3. IsSeq(p) /\ IsSeq(b) /\ Len(b) \in Nat
    BY <2>1, OutputTyped
  <2>4. PICK x \in Nat : x = Len(b)
    BY <2>3
  <2>5. Makes(o) = m + v
    BY <1>17, <2>2
  <2>6. /\ Results(p, b, d, (m + v) + c)
        /\ \A s \in Threads : DeliveredAt(s, o) => p[1] = thr[s].e.n
        /\ \A s \in Threads : MadeAt(s, o) => p[Len(p)] = thr[s].param
    BY <1>23, <2>1, <2>2, <2>5 DEF Paired, OutputsPaired, OutputPaired
  <2>7. PICK b2 : b2 = stick'.out[o]
    OBVIOUS
  <2>8. Results(p, b2, d, m + c) /\ Len(b2) = x + v
    <3>1. CASE o = q
      <4>1. v = 1
        BY <2>2, <3>1 DEF Is
      <4>2. b2 = Append(b, e)
        BY <1>1, <1>7, <2>1, <2>7, <3>1
      <4>3. Results(p, b, d, (m + c) + 1)
        <5>1. (m + v) + c = (m + c) + 1
          BY <4>1
        <5>2. QED
          BY <2>6, <5>1
      <4>4. p[d + Len(b) + 1] = e.n
        <5>1. Hits(Outputs(r), 0, o) = 0
          BY <1>21, HitsNone
        <5>2. Hits(Outputs(js), 1, o) = 1
          BY <1>8, <1>21, <2>2, <4>1, <5>1
        <5>3. 1 \in 1 .. Len(stick.jobs) /\ stick.jobs[1].o = o
          BY <1>2, <1>6, <1>7, <3>1
        <5>4. p[d + Len(b) + Hits(Outputs(stick.jobs), 1, o)] = JobNumber(1)
          BY <2>1, <2>2, <5>3, JobParam
        <5>5. Hits(Outputs(stick.jobs), 1, o) = 1
          BY <1>2, <5>2
        <5>6. p[d + Len(b) + 1] = JobNumber(1)
          BY <5>4, <5>5
        <5>7. QED
          BY <1>22, <5>6
      <4>5. Results(p, Append(b, e), d, m + c)
        <5>1. PICK y \in Nat : y = m + c
          OBVIOUS
        <5>2. Results(p, b, d, y + 1)
          BY <4>3, <5>1
        <5>3. Results(p, Append(b, e), d, y)
          BY <2>3, <4>4, <5>2, ResultsRun
        <5>4. QED
          BY <5>1, <5>3
      <4>6. QED
        BY <2>3, <2>4, <4>1, <4>2, <4>5, SeqAppended
    <3>2. CASE o # q
      <4>1. v = 0 /\ b2 = b
        BY <1>1, <1>7, <2>1, <2>2, <2>7, <3>2 DEF Is
      <4>2. (m + v) + c = m + c /\ x + v = x
        BY <4>1
      <4>3. QED
        BY <2>4, <2>6, <4>1, <4>2
    <3>3. QED
      BY <3>1, <3>2
  <2>9. /\ fifo'[o].out = p /\ Delivered(o)' = d /\ Made(o)' = c /\ thr' = thr
    BY <1>1, <1>16, <2>1, <2>2
  <2>10. ASSUME NEW k \in 1 .. n, r[k].o = o
         PROVE  p[d + (x + v) + Hits(Outputs(r), k, o)] = JobNumber(k)'
    <3>1. /\ k + 1 \in 1 .. Len(stick.jobs) /\ k \in 0 .. n /\ k \in Int /\ stick.jobs[k + 1].o = o
      BY <1>2, <1>6, <2>10
    <3>2. PICK i \in Nat : i = Hits(Outputs(r), k, o)
      BY <3>1, HitsNat
    <3>3. Hits(Outputs(stick.jobs), k + 1, o) = i + v
      BY <1>2, <1>8, <2>2, <3>1, <3>2
    <3>4. p[d + x + (i + v)] = JobNumber(k + 1)
      BY <2>1, <2>2, <2>4, <3>1, <3>3, JobParam
    <3>5. d + (x + v) + i = d + x + (i + v)
      OBVIOUS
    <3>6. QED
      BY <1>20, <3>2, <3>4, <3>5
  <2>11. \A k \in 1 .. Len(stick'.jobs) : stick'.jobs[k].o = o =>
           fifo'[o].out[Delivered(o)' + Len(stick'.out[o]) + Hits(Outputs(stick'.jobs), k, o)]
             = JobNumber(k)'
    BY <1>3, <1>5, <2>7, <2>8, <2>9, <2>10
  <2>12. Results(fifo[o].out, stick.out[o], Delivered(o), Makes(o) + Made(o))'
    BY <2>2, <2>7, <2>8, <2>9
  <2>13. QED
    BY <1>16, <2>6, <2>9, <2>11, <2>12 DEF OutputPaired
<1>24. ElementsMade'
  BY <1>1 DEF Paired, ElementsMade, At
<1>25. QED
  BY <1>1, <1>18, <1>19, <1>23, <1>24 DEF Paired, InputsPaired, OutputsPaired, Chained

-----------------------------------------------------------------------------
(* A reader takes a result and its parameter.                                *)

LEMMA ResultsRead ==
  ASSUME NEW p, IsSeq(p), NEW b, IsSeq(b), b # <<>>, NEW m \in Nat, Results(p, b, 0, m)
  PROVE  Results(p, Tail(b), 1, m) /\ p[1] = Head(b).n
<1>1. PICK l \in Nat, c \in Nat : l = Len(b) /\ c = Len(p)
  BY SeqLen
<1>2. c = 0 + l + m /\ \A i \in 1 .. l : p[0 + i] = b[i].n
  BY <1>1 DEF Results
<1>3. /\ Len(Tail(b)) = l - 1 /\ l >= 1 /\ Head(b) = b[1]
      /\ \A i \in 1 .. l - 1 : Tail(b)[i] = b[i + 1]
  BY <1>1, SeqTaken
<1>4. ASSUME NEW i \in 1 .. l PROVE p[i] = b[i].n
  <2>1. 0 + i = i
    OBVIOUS
  <2>2. QED
    BY <1>2, <2>1
<1>5. ASSUME NEW i \in 1 .. l - 1 PROVE p[1 + i] = Tail(b)[i].n
  <2>1. i + 1 \in 1 .. l /\ 1 + i = i + 1
    OBVIOUS
  <2>2. QED
    BY <1>3, <1>4, <2>1
<1>6. c = 1 + (l - 1) + m
  BY <1>2
<1>7. p[1] = Head(b).n
  <2>1. 1 \in 1 .. l
    BY <1>3
  <2>2. QED
    BY <1>3, <1>4, <2>1
<1>8. QED
  BY <1>1, <1>3, <1>5, <1>6, <1>7 DEF Results

LEMMA ResultsPopped ==
  ASSUME NEW p, IsSeq(p), NEW b, IsSeq(b), NEW m \in Nat, Results(p, b, 1, m)
  PROVE  /\ Results(Pop(p), b, 0, m) /\ Top(p) = p[1] /\ Len(Pop(p)) = Len(p) - 1
         /\ \A i \in 1 .. Len(p) - 1 : Pop(p)[i] = p[i + 1]
<1>1. PICK l \in Nat, c \in Nat : l = Len(b) /\ c = Len(p)
  BY SeqLen
<1>2. c = 1 + l + m /\ \A i \in 1 .. l : p[1 + i] = b[i].n
  BY <1>1 DEF Results
<1>3. p # <<>>
  <2>1. c # 0
    BY <1>1, <1>2
  <2>2. QED
    BY <1>1, <2>1, SeqLen
<1>4. /\ Len(Tail(p)) = c - 1 /\ Head(p) = p[1]
      /\ \A i \in 1 .. c - 1 : Tail(p)[i] = p[i + 1]
  BY <1>1, <1>3, SeqTaken
<1>5. Pop(p) = Tail(p) /\ Top(p) = p[1]
  BY <1>3, <1>4 DEF Pop, Top
<1>6. ASSUME NEW i \in 1 .. l PROVE Pop(p)[0 + i] = b[i].n
  <2>1. i \in 1 .. c - 1 /\ 0 + i = i /\ i + 1 = 1 + i
    BY <1>2
  <2>2. QED
    BY <1>2, <1>4, <1>5, <2>1
<1>7. Len(Pop(p)) = 0 + l + m
  BY <1>2, <1>4, <1>5
<1>8. QED
  BY <1>1, <1>4, <1>5, <1>6, <1>7 DEF Results

\* What the reader leaves alone.
LEMMA ReaderKeeps ==
  ASSUME HoldInv, DataInv, Pairing, Paired, NEW t \in Threads, OnlyThread(t), thr[t].op = "READ",
         thr'[t].op \in {"READ", "NONE"}, usage' = usage,
         stick'.jobs = stick.jobs, stick'.buf = stick.buf,
         \A f \in Fifos : fifo'[f].in = fifo[f].in
  PROVE  /\ InputsPaired' /\ ElementsMade' /\ NumbersStay
         /\ \A f : /\ Makes(f)' = Makes(f) /\ Made(f)' = Made(f)
                   /\ \A s \in Threads : MadeAt(s, f)' => MadeAt(s, f) /\ thr'[s] = thr[s]
<1>1. ASSUME NEW f \in Fifos, Chained(f) PROVE InputPaired(f)'
  <2>1. SameIn(t, f)
    BY DEF SameIn, WroteAt, TookAt, At
  <2>2. QED
    BY <1>1, <2>1, InputStays DEF Paired, InputsPaired
<1>2. ASSUME NEW f
      PROVE  /\ Makes(f)' = Makes(f) /\ Made(f)' = Made(f)
             /\ \A s \in Threads : MadeAt(s, f)' => MadeAt(s, f) /\ thr'[s] = thr[s]
  <2>1. ~MadeAt(t, f) /\ ~MadeAt(t, f)'
    BY DEF MadeAt, At
  <2>2. \A s \in Threads : s # t => (MadeAt(s, f)' <=> MadeAt(s, f)) /\ thr'[s] = thr[s]
    BY DEF OnlyThread, MadeAt, At
  <2>3. (\E s \in Threads : MadeAt(s, f)') <=> (\E s \in Threads : MadeAt(s, f))
    BY <2>1, <2>2, Zenon
  <2>4. Made(f)' = Made(f)
    BY <2>3 DEF Made, One
  <2>5. QED
    BY <2>1, <2>2, <2>4 DEF Makes
<1>3. ElementsMade'
  BY DEF Paired, ElementsMade, OnlyThread, At
<1>4. NumbersStay
  BY DEF NumbersStay, JobNumber
<1>5. QED
  BY <1>1, <1>2, <1>3, <1>4 DEF InputsPaired, Chained

LEMMA ReadWaitPaired ==
  ASSUME HoldInv, DataInv, Pairing, JobsFed, ReadsResults, Paired, NEW t \in Threads, ReadWait(t)
  PROVE  Paired'
<1>0. DataShape /\ Alone({"READ"})
  BY PairingMeans DEF DataInv
<1>1. /\ thr[t].f \in Fifos /\ At(t, "READ", "wait") /\ OnlyThread(t)
      /\ \/ thr'[t] = Idle /\ UNCHANGED stick
         \/ /\ thr'[t].pc = "count" /\ SameCall(thr'[t], thr[t])
            /\ stick.out[thr[t].f] # <<>> /\ thr'[t].e = Head(stick.out[thr[t].f])
            /\ stick'.jobs = stick.jobs /\ stick'.buf = stick.buf
            /\ stick'.out[thr[t].f] = Tail(stick.out[thr[t].f])
            /\ \A h \in Fifos : h # thr[t].f => stick'.out[h] = stick.out[h]
      /\ UNCHANGED <<usage, fifo>>
  BY <1>0, ReadWaitDoes
<1>2. PICK h \in Fifos : h = thr[t].f
  BY <1>1
<1>3. thr[t].op = "READ" /\ thr[t].pc = "wait" /\ usage.type[h] # "WO"
  BY <1>1, <1>2 DEF At, ReadsResults
<1>4. CASE thr'[t] = Idle /\ UNCHANGED stick
  <2>1. Resting(t) /\ Resting(t)' /\ ~At(t, "WRITE", "send")'
    BY <1>3, <1>4 DEF Resting, Off, At, Idle
  <2>2. QED
    BY <1>1, <1>4, <2>1, QuietPaired
<1>5. CASE ~(thr'[t] = Idle /\ UNCHANGED stick)
  <2>1. PICK a : a = stick.out[h]
    OBVIOUS
  <2>2. /\ thr'[t].pc = "count" /\ thr'[t].op = "READ" /\ thr'[t].f = h
        /\ a # <<>> /\ thr'[t].e = Head(a)
        /\ stick'.jobs = stick.jobs /\ stick'.buf = stick.buf
        /\ stick'.out[h] = Tail(a) /\ \A f \in Fifos : f # h => stick'.out[f] = stick.out[f]
    BY <1>1, <1>2, <1>3, <1>5, <2>1 DEF SameCall
  <2>3. /\ InputsPaired' /\ ElementsMade' /\ NumbersStay
        /\ \A f : /\ Makes(f)' = Makes(f) /\ Made(f)' = Made(f)
                  /\ \A s \in Threads : MadeAt(s, f)' => MadeAt(s, f) /\ thr'[s] = thr[s]
    BY <1>1, <1>3, <2>2, ReaderKeeps
  <2>4. ASSUME NEW o \in Fifos, usage.type[o] # "WO", o # h PROVE OutputPaired(o)'
    <3>1. SameOut(t, o)
      BY <1>2, <1>3, <2>2, <2>4 DEF SameOut, MadeAt, DeliveredAt, At
    <3>2. QED
      BY <1>1, <2>2, <2>3, <2>4, <3>1, OutputStays DEF Paired, OutputsPaired
  <2>5. OutputPaired(h)'
    <3>1. PICK p : p = fifo[h].out
      OBVIOUS
    <3>2. PICK m \in Nat, c \in Nat : m = Makes(h) /\ c = Made(h)
      BY OutputTyped
    <3>3. IsSeq(p) /\ IsSeq(a) /\ m + c \in Nat
      BY <2>1, <3>1, OutputTyped
    <3>4. /\ Delivered(h) = 0 /\ Delivered(h)' = 1
          /\ \A s \in Threads : DeliveredAt(s, h)' => s = t
      <4>1. Delivered(h) = One(DeliveredAt(t, h)) /\ Delivered(h)' = One(DeliveredAt(t, h)')
        BY <1>0, <1>1, <1>3, OnlyReader
      <4>2. ~DeliveredAt(t, h) /\ DeliveredAt(t, h)'
        BY <1>3, <2>2 DEF DeliveredAt, At
      <4>3. \A s \in Threads : s # t => ~DeliveredAt(s, h)'
        BY <1>0, <1>1, <1>3, OneOp DEF OnlyThread, DeliveredAt, At
      <4>4. QED
        BY <4>1, <4>2, <4>3 DEF One
    <3>5. /\ Results(p, a, 0, m + c)
          /\ \A s \in Threads : MadeAt(s, h) => p[Len(p)] = thr[s].param
      BY <1>3, <2>1, <3>1, <3>2, <3>4 DEF Paired, OutputsPaired, OutputPaired
    <3>6. Results(p, Tail(a), 1, m + c) /\ p[1] = Head(a).n
      BY <2>2, <3>3, <3>5, ResultsRead
    <3>7. PICK l \in Nat : l = Len(a)
      BY <3>3, SeqLen
    <3>8. Len(Tail(a)) = l - 1
      BY <2>2, <3>3, <3>7, SeqTaken
    <3>9. ASSUME NEW k \in 1 .. Len(stick.jobs), stick.jobs[k].o = h
          PROVE  p[1 + (l - 1) + Hits(Outputs(stick.jobs), k, h)] = JobNumber(k)'
      <4>1. /\ Hits(Outputs(stick.jobs), k, h) \in Nat
            /\ p[0 + l + Hits(Outputs(stick.jobs), k, h)] = JobNumber(k)
        BY <2>1, <3>1, <3>4, <3>7, <3>9, JobParam
      <4>2. PICK i \in Nat : i = Hits(Outputs(stick.jobs), k, h)
        BY <4>1
      <4>3. 1 + (l - 1) + i = 0 + l + i
        OBVIOUS
      <4>4. JobNumber(k)' = JobNumber(k)
        BY <2>3, <3>9 DEF NumbersStay
      <4>5. QED
        BY <4>1, <4>2, <4>3, <4>4
    <3>10. /\ fifo'[h].out = p /\ stick'.out[h] = Tail(a) /\ stick'.jobs = stick.jobs
           /\ Makes(h)' = m /\ Made(h)' = c
      BY <1>1, <2>2, <2>3, <3>1, <3>2
    <3>11. \A k \in 1 .. Len(stick'.jobs) : stick'.jobs[k].o = h =>
             fifo'[h].out[Delivered(h)' + Len(stick'.out[h]) + Hits(Outputs(stick'.jobs), k, h)]
               = JobNumber(k)'
      BY <3>4, <3>8, <3>9, <3>10
    <3>12. \A s \in Threads : DeliveredAt(s, h)' => p[1] = thr'[s].e.n
      BY <2>2, <3>4, <3>6
    <3>13. \A s \in Threads : MadeAt(s, h)' => p[Len(p)] = thr'[s].param
      BY <2>3, <3>5
    <3>14. Results(fifo[h].out, stick.out[h], Delivered(h), Makes(h) + Made(h))'
      BY <3>4, <3>6, <3>10
    <3>15. QED
      BY <3>10, <3>11, <3>12, <3>13, <3>14 DEF OutputPaired
  <2>6. QED
    BY <1>1, <2>3, <2>4, <2>5 DEF Paired, OutputsPaired
<1>6. QED
  BY <1>4, <1>5

LEMMA ReadCountPaired ==
  ASSUME HoldInv, DataInv, Pairing, JobsFed, ReadsResults, Paired, NEW t \in Threads, ReadCount(t)
  PROVE  Paired' /\ \E x : got' = got \cup {x} /\ x.param = x.n
<1>0. DataShape /\ Alone({"READ"})
  BY PairingMeans DEF DataInv
<1>1. /\ thr[t].f \in Fifos /\ At(t, "READ", "count") /\ OnlyThread(t) /\ thr'[t] = Idle
      /\ OthersSame(thr[t].f)
      /\ fifo'[thr[t].f].in = fifo[thr[t].f].in
      /\ fifo'[thr[t].f].out = Pop(fifo[thr[t].f].out)
      /\ UNCHANGED <<usage, stick>>
  <2>1. UNCHANGED <<usage, stick>>
    BY DEF ReadCount
  <2>2. QED
    BY <1>0, <2>1, ReadCountDoes
<1>2. PICK h \in Fifos : h = thr[t].f
  BY <1>1
<1>3. /\ thr[t].op = "READ" /\ thr[t].pc = "count" /\ usage.type[h] # "WO"
      /\ thr'[t].op = "NONE" /\ thr'[t].pc = "idle"
  BY <1>1, <1>2 DEF At, ReadsResults, Idle
<1>4. PICK p, b : p = fifo[h].out /\ b = stick.out[h]
  OBVIOUS
<1>5. /\ fifo'[h].out = Pop(p)
      /\ \A f \in Fifos : f # h => fifo'[f].out = fifo[f].out
      /\ \A f \in Fifos : fifo'[f].in = fifo[f].in
  <2>1. \A f \in Fifos : f # h => fifo'[f] = fifo[f]
    BY <1>1, <1>2 DEF OthersSame
  <2>2. QED
    BY <1>1, <1>2, <1>4, <2>1
<1>6. /\ InputsPaired' /\ ElementsMade' /\ NumbersStay
      /\ \A f : /\ Makes(f)' = Makes(f) /\ Made(f)' = Made(f)
                /\ \A s \in Threads : MadeAt(s, f)' => MadeAt(s, f) /\ thr'[s] = thr[s]
  BY <1>1, <1>3, <1>5, ReaderKeeps
<1>7. ASSUME NEW o \in Fifos, usage.type[o] # "WO", o # h PROVE OutputPaired(o)'
  <2>1. SameOut(t, o)
    BY <1>2, <1>3, <1>7 DEF SameOut, MadeAt, DeliveredAt, At
  <2>2. QED
    BY <1>1, <1>5, <1>6, <1>7, <2>1, OutputStays DEF Paired, OutputsPaired
<1>8. PICK m \in Nat, c \in Nat : m = Makes(h) /\ c = Made(h)
  BY OutputTyped
<1>9. PICK l \in Nat, n \in Nat : l = Len(b) /\ n = Len(p)
  BY <1>4, OutputTyped
<1>10. IsSeq(p) /\ IsSeq(b) /\ m + c \in Nat
  BY <1>4, OutputTyped
<1>11. /\ DeliveredAt(t, h) /\ Delivered(h) = 1 /\ Delivered(h)' = 0
       /\ \A s \in Threads : ~DeliveredAt(s, h)'
  <2>1. Delivered(h) = One(DeliveredAt(t, h)) /\ Delivered(h)' = One(DeliveredAt(t, h)')
    BY <1>0, <1>1, <1>3, OnlyReader
  <2>2. DeliveredAt(t, h) /\ ~DeliveredAt(t, h)'
    BY <1>2, <1>3 DEF DeliveredAt, At
  <2>3. \A s \in Threads : s # t => ~DeliveredAt(s, h)'
    BY <1>0, <1>1, <1>3, OneOp DEF OnlyThread, DeliveredAt, At
  <2>4. QED
    BY <2>1, <2>2, <2>3 DEF One
<1>12. /\ Results(p, b, 1, m + c) /\ p[1] = thr[t].e.n
       /\ \A s \in Threads : MadeAt(s, h) => p[Len(p)] = thr[s].param
  BY <1>3, <1>4, <1>8, <1>11 DEF Paired, OutputsPaired, OutputPaired
<1>13. /\ Results(Pop(p), b, 0, m + c) /\ Top(p) = p[1] /\ Len(Pop(p)) = n - 1
       /\ \A i \in 1 .. n - 1 : Pop(p)[i] = p[i + 1]
  BY <1>9, <1>10, <1>12, ResultsPopped
<1>14. n = 1 + l + (m + c)
  BY <1>9, <1>12 DEF Results
<1>15. OutputPaired(h)'
  <2>1. ASSUME NEW k \in 1 .. Len(stick.jobs), stick.jobs[k].o = h
        PROVE  Pop(p)[0 + l + Hits(Outputs(stick.jobs), k, h)] = JobNumber(k)'
    <3>1. /\ Hits(Outputs(stick.jobs), k, h) \in Nat
          /\ Hits(Outputs(stick.jobs), k, h) >= 1
          /\ 1 + l + Hits(Outputs(stick.jobs), k, h) \in 1 .. n
          /\ p[1 + l + Hits(Outputs(stick.jobs), k, h)] = JobNumber(k)
      BY <1>4, <1>9, <1>11, <2>1, JobParam
    <3>2. PICK i \in Nat : i = Hits(Outputs(stick.jobs), k, h)
      BY <3>1
    <3>3. 0 + l + i \in 1 .. n - 1 /\ (0 + l + i) + 1 = 1 + l + i
      BY <3>1, <3>2
    <3>4. JobNumber(k)' = JobNumber(k)
      BY <1>6, <2>1 DEF NumbersStay
    <3>5. p[1 + l + i] = JobNumber(k)
      BY <3>1, <3>2
    <3>6. Pop(p)[0 + l + i] = p[1 + l + i]
      BY <1>13, <3>3
    <3>7. QED
      BY <3>2, <3>4, <3>5, <3>6
  <2>2. ASSUME NEW s \in Threads, MadeAt(s, h)' PROVE Pop(p)[n - 1] = thr'[s].param
    <3>1. MadeAt(s, h) /\ thr'[s] = thr[s] /\ c = 1
      BY <1>6, <1>8, <2>2, MarksCount
    <3>2. n - 1 \in 1 .. n - 1 /\ (n - 1) + 1 = n
      BY <1>14, <3>1
    <3>3. QED
      BY <1>9, <1>12, <1>13, <3>1, <3>2
  <2>3. /\ fifo'[h].out = Pop(p) /\ stick'.out[h] = b /\ stick'.jobs = stick.jobs
        /\ Makes(h)' = m /\ Made(h)' = c
    BY <1>1, <1>4, <1>5, <1>6, <1>8
  <2>4. \A k \in 1 .. Len(stick'.jobs) : stick'.jobs[k].o = h =>
          fifo'[h].out[Delivered(h)' + Len(stick'.out[h]) + Hits(Outputs(stick'.jobs), k, h)]
            = JobNumber(k)'
    BY <1>9, <1>11, <2>1, <2>3
  <2>5. Results(fifo[h].out, stick.out[h], Delivered(h), Makes(h) + Made(h))'
    BY <1>11, <1>13, <2>3
  <2>6. \A s \in Threads : MadeAt(s, h)' => fifo'[h].out[Len(fifo'[h].out)] = thr'[s].param
    BY <1>13, <2>2, <2>3
  <2>7. QED
    BY <1>11, <2>4, <2>5, <2>6 DEF OutputPaired
<1>16. Paired'
  BY <1>1, <1>6, <1>7, <1>15 DEF Paired, OutputsPaired
<1>17. \E x : got' = got \cup {x} /\ x.param = x.n
  <2>1. \E x : got' = got \cup {x} /\ x.n = thr[t].e.n /\ x.param = Top(fifo[thr[t].f].out)
    BY <1>0, ReadCountDoes
  <2>2. QED
    BY <1>2, <1>4, <1>12, <1>13, <2>1
<1>18. QED
  BY <1>16, <1>17

-----------------------------------------------------------------------------
(* The other steps, and a step of anyone.                                    *)

LEMMA OthersPaired ==
  ASSUME HoldInv, DataInv, Pairing, JobsFed, Paired, NEW t \in Threads, Steps(t),
         thr[t].pc # "idle", thr[t].op \notin {"WRITE", "QUEUE", "READ"}, stick' = stick,
         \A f \in Fifos : fifo'[f].in = fifo[f].in /\ fifo'[f].out = fifo[f].out
  PROVE  Paired'
<1>1. OnlyThread(t) /\ usage' = usage /\ (thr'[t] = Idle \/ SameCall(thr'[t], thr[t]))
  BY DEF Steps, Advances, OnlyThread
<1>2. thr'[t].op \notin {"WRITE", "QUEUE", "READ"}
  BY <1>1 DEF SameCall, Idle
<1>3. Resting(t) /\ Resting(t)' /\ ~At(t, "WRITE", "send")'
  BY <1>2 DEF Resting, Off, At
<1>4. QED
  BY <1>1, <1>3, QuietPaired

LEMMA InsOutsSame ==
  ASSUME NEW h, OthersSame(h), ElementsSame(h)
  PROVE  \A f \in Fifos : fifo'[f].in = fifo[f].in /\ fifo'[f].out = fifo[f].out
BY DEF OthersSame, ElementsSame

LEMMA FifoCallsPaired ==
  ASSUME HoldInv, DataInv, Pairing, JobsFed, Fresh, Paired, NEW t \in Threads, Steps(t),
         thr[t].pc # "idle",
         \/ thr[t].op \in {"SETTYPE", "SETDESC"} /\ (SetType(t) \/ SetDesc(t))
         \/ thr[t].op = "FALLOC" /\ FifoAllocs(t)
  PROVE  Paired' /\ got' = got
<1>0. FifoShape /\ thr[t].op \notin {"WRITE", "QUEUE", "READ"}
  BY DEF DataInv, DataShape
<1>1. CASE SetType(t) \/ SetDesc(t)
  <2>1. OthersSame(thr[t].f) /\ ElementsSame(thr[t].f) /\ stick' = stick /\ got' = got
    BY <1>0, <1>1, OptionDoes
  <2>2. QED
    BY <1>0, <2>1, InsOutsSame, OthersPaired
<1>2. CASE FAllocRead(t)
  <2>1. fifo' = fifo /\ stick' = stick /\ got' = got
    BY <1>2, FAllocReadDoes
  <2>2. QED
    BY <1>0, <2>1, OthersPaired
<1>3. CASE FAllocFind(t)
  <2>1. PICK h \in Fifos : h = thr[t].f
    BY <1>0, <1>3, FAllocFindDoes
  <2>2. /\ OthersSame(h) /\ stick' = stick /\ got' = got /\ thr[t].pc = "find"
        /\ ElementsSame(h) \/ (fifo'[h].in = <<>> /\ fifo'[h].out = <<>>)
    BY <1>0, <1>3, <2>1, FAllocFindDoes
  <2>3. thr[t].op = "FALLOC"
    BY <1>3 DEF FAllocFind, At
  <2>4. fifo[h].in = <<>> /\ fifo[h].out = <<>>
    BY <2>1, <2>2, <2>3 DEF DataInv, CallsTyped, PlaceTyped, Fresh
  <2>5. \A f \in Fifos : fifo'[f].in = fifo[f].in /\ fifo'[f].out = fifo[f].out
    <3>1. fifo'[h].in = fifo[h].in /\ fifo'[h].out = fifo[h].out
      BY <2>2, <2>4 DEF ElementsSame
    <3>2. QED
      BY <2>2, <3>1 DEF OthersSame
  <2>6. QED
    BY <1>0, <2>2, <2>5, OthersPaired
<1>4. CASE FAllocLink(t) \/ FAllocSend(t) \/ FAllocCheck(t)
  <2>1. OthersSame(thr[t].f) /\ ElementsSame(thr[t].f) /\ stick' = stick /\ got' = got
    BY <1>0, <1>4, FAllocRestDoes
  <2>2. QED
    BY <1>0, <2>1, InsOutsSame, OthersPaired
<1>5. QED
  BY <1>1, <1>2, <1>3, <1>4 DEF FifoAllocs

LEMMA WritesPaired ==
  ASSUME HoldInv, DataInv, Pairing, JobsFed, Paired, NEW t \in Threads, Writes(t)
  PROVE  Paired' /\ got' = got
<1>1. got' = got
  BY WriteEnterDoes, WriteSendDoes, WriteCountDoes DEF Writes, DataInv
<1>2. QED
  BY <1>1, WriteEnterPaired, WriteSendPaired, WriteCountPaired DEF Writes

LEMMA TriggersPaired ==
  ASSUME HoldInv, DataInv, Pairing, JobsFed, Balanced, DeviceUp, Alive, AllBegun, Paired,
         NEW t \in Threads, thr[t].op = "QUEUE", Triggers(t)
  PROVE  Paired' /\ got' = got
<1>0. DataShape
  BY DEF DataInv
<1>1. CASE QueueEnter(t) \/ QueueCheck(t)
  <2>1. /\ fifo' = fifo /\ stick' = stick /\ usage' = usage /\ got' = got /\ OnlyThread(t)
        /\ thr[t].pc \in {"enter", "check"}
        /\ thr'[t] = Idle \/ thr'[t].pc = "in"
    BY <1>1, QueueRestDoes DEF Goes
  <2>2. Resting(t) /\ Resting(t)' /\ ~At(t, "WRITE", "send")'
    BY <2>1 DEF Resting, Off, At, Idle
  <2>3. QED
    BY <2>1, <2>2, QuietPaired
<1>2. CASE QueueIn(t)
  <2>1. /\ OthersSame(thr[t].f) /\ stick' = stick /\ usage' = usage /\ got' = got
        /\ fifo'[thr[t].f].in = fifo[thr[t].f].in /\ fifo'[thr[t].f].out = fifo[thr[t].f].out
        /\ OnlyThread(t) /\ thr[t].pc = "in" /\ thr'[t].pc \in {"take", "drain"}
    BY <1>0, <1>2, QueueInDoes DEF Goes, At
  <2>2. \A f \in Fifos : fifo'[f].in = fifo[f].in /\ fifo'[f].out = fifo[f].out
    BY <2>1 DEF OthersSame
  <2>3. Resting(t) /\ Resting(t)' /\ ~At(t, "WRITE", "send")'
    BY <2>1 DEF Resting, Off, At
  <2>4. QED
    BY <2>1, <2>2, <2>3, QuietPaired
<1>3. CASE QueueDrain(t)
  <2>1. thr[t].pc = "drain"
    BY <1>0, <1>3, QueueDrainDoes DEF At
  <2>2. QED
    BY <2>1 DEF AllBegun, Begun
<1>4. CASE QueueTake(t) \/ QueueOut(t) \/ QueueSend(t)
  <2>1. got' = got
    BY <1>4, Zenon DEF QueueTake, QueueOut, QueueSend
  <2>2. QED
    BY <1>4, <2>1, QueueTakePaired, QueueOutPaired, QueueSendPaired
<1>5. QED
  BY <1>1, <1>2, <1>3, <1>4 DEF Triggers

LEMMA ReadEnterPaired ==
  ASSUME HoldInv, DataInv, Pairing, JobsFed, Paired, NEW t \in Threads, ReadEnter(t)
  PROVE  Paired'
<1>1. /\ At(t, "READ", "enter") /\ OnlyThread(t)
      /\ thr'[t] = Idle \/ thr'[t].pc \in {"crashed", "wait"}
      /\ UNCHANGED <<usage, fifo, stick>>
  BY ReadEnterDoes DEF Goes
<1>2. Resting(t) /\ Resting(t)' /\ ~At(t, "WRITE", "send")'
  BY <1>1 DEF Resting, Off, At, Idle
<1>3. QED
  BY <1>1, <1>2, QuietPaired

\* What the readers got.
GotPaired == \A r \in got : r.param = r.n

\* A step of a call that is under way.
LEMMA CallsPaired ==
  ASSUME HoldInv, DataInv, Pairing, JobsFed, Balanced, DeviceUp, Alive, Fresh, AllBegun,
         ReadsResults, Paired, GotPaired, NEW t \in Threads, Steps(t), thr[t].pc # "idle",
         thr[t].op \notin DeviceOps, OpsOf(t)
  PROVE  Paired' /\ GotPaired'
<1>1. CASE thr[t].op \in {"GALLOC", "GDESTROY", "STATE"} /\ GraphCalls(t)
  <2>1. fifo' = fifo /\ stick' = stick /\ got' = got
    BY <1>1, GraphsDo
  <2>2. QED
    BY <1>1, <2>1, OthersPaired DEF GotPaired
<1>2. CASE \/ thr[t].op \in {"SETTYPE", "SETDESC"} /\ (SetType(t) \/ SetDesc(t))
           \/ thr[t].op = "FALLOC" /\ FifoAllocs(t)
  BY <1>2, FifoCallsPaired DEF GotPaired
<1>3. CASE Writes(t)
  BY <1>3, WritesPaired DEF GotPaired
<1>4. CASE thr[t].op = "QUEUE" /\ Triggers(t)
  BY <1>4, TriggersPaired DEF GotPaired
<1>5. CASE ReadEnter(t) \/ ReadWait(t)
  <2>1. got' = got
    BY <1>5, ReadEnterDoes, ReadWaitDoes DEF DataInv
  <2>2. QED
    BY <1>5, <2>1, ReadEnterPaired, ReadWaitPaired DEF GotPaired
<1>6. CASE ReadCount(t)
  <2>1. Paired' /\ \E x : got' = got \cup {x} /\ x.param = x.n
    BY <1>6, ReadCountPaired
  <2>2. QED
    BY <2>1 DEF GotPaired
<1>7. thr[t].op # "FDESTROY"
  BY PairingMeans
<1>8. QED
  BY <1>1, <1>2, <1>3, <1>4, <1>5, <1>6, <1>7 DEF OpsOf, ReadsElem

LEMMA ReadsStay ==
  ASSUME HoldInv, DataInv, ReadsResults, NEW t \in Threads, Steps(t), OpsOf(t)
  PROVE  ReadsResults'
<1>1. usage' = usage /\ OnlyThread(t) /\ (thr'[t] = Idle \/ SameCall(thr'[t], thr[t]))
  BY DEF Steps, Advances, OnlyThread
<1>2. ASSUME thr'[t].op = "READ", thr'[t].pc \in {"wait", "count"}
      PROVE  usage'.type[thr'[t].f] # "WO"
  <2>1. SameCall(thr'[t], thr[t]) /\ thr[t].op = "READ" /\ thr'[t].f = thr[t].f
    BY <1>1, <1>2 DEF SameCall, Idle
  <2>2. ReadsElem(t)
    BY <2>1 DEF OpsOf, DeviceOps
  <2>3. CASE ReadEnter(t)
    <3>1. thr[t].f \in Fifos /\ fifo[thr[t].f].type = "RO"
      BY <1>2, <2>3, ReadEnterDoes DEF Goes, Idle
    <3>2. usage.type[thr[t].f] = "RO"
      BY <3>1 DEF DataInv, FifosTyped, CountsTyped
    <3>3. QED
      BY <1>1, <2>1, <3>2
  <2>4. CASE ReadWait(t)
    <3>1. thr[t].pc = "wait"
      BY <2>4 DEF ReadWait, At
    <3>2. QED
      BY <1>1, <2>1, <3>1 DEF ReadsResults
  <2>5. CASE ReadCount(t)
    <3>1. thr'[t] = Idle
      BY <2>5, ReadCountDoes DEF DataInv
    <3>2. QED
      BY <1>2, <3>1 DEF Idle
  <2>6. QED
    BY <2>2, <2>3, <2>4, <2>5 DEF ReadsElem
<1>3. QED
  BY <1>1, <1>2 DEF ReadsResults, OnlyThread

LEMMA CallPaired ==
  ASSUME HoldInv, DataInv, Pairing, JobsFed, Paired, NEW t \in Threads, Call(t)
  PROVE  Paired'
<1>1. /\ OnlyThread(t) /\ thr[t] = Idle /\ thr'[t].pc = "enter"
      /\ UNCHANGED <<usage, fifo, stick>>
  BY CallBegins
<1>2. Resting(t) /\ Resting(t)' /\ ~At(t, "WRITE", "send")'
  BY <1>1 DEF Resting, Off, At, Idle
<1>3. QED
  BY <1>1, <1>2, QuietPaired

LEMMA DevicesPaired ==
  ASSUME HoldInv, DataInv, ObjectShape, Pairing, DeviceUp, JobsFed, Alive => Paired,
         NEW t \in Threads, Steps(t), thr[t].op \in DeviceOps, thr[t].pc # "idle", Devices(t)
  PROVE  (Alive' => Paired') /\ got' = got
<1>0. got' = got /\ thr[t].op # "CLOSE"
  BY DevicesDo, PairingMeans
<1>1. CASE Close(t)
  <2>1. dev' = [dev EXCEPT !.st = "closed", !.monitor = FALSE]
    BY <1>1 DEF Close
  <2>2. dev'.st = "closed"
    BY <2>1 DEF ObjectShape, DeviceShape
  <2>3. QED
    BY <1>0, <2>2 DEF Alive
<1>2. CASE ~Close(t)
  <2>1. fifo' = fifo /\ stick' = stick
    BY <1>2, DevicesDo
  <2>2. CASE Alive
    BY <1>0, <2>1, <2>2, OthersPaired DEF DeviceOps
  <2>3. CASE ~Alive
    <3>1. At(t, "DESTROY", "destroy")
      BY <2>3, OpsAlive
    <3>2. Destroy(t)
      BY <1>2, <3>1 DEF Devices, OpenEnter, OpenMonitor, CloseEnter, At
    <3>3. dev' = [dev EXCEPT !.st = "destroyed"]
      BY <3>2 DEF Destroy
    <3>4. dev'.st = "destroyed"
      BY <3>3 DEF ObjectShape, DeviceShape
    <3>5. QED
      BY <1>0, <3>4 DEF Alive
  <2>4. QED
    BY <2>2, <2>3
<1>3. QED
  BY <1>1, <1>2

LEMMA StepPairs ==
  /\ HoldInv /\ DataInv /\ ObjectShape /\ GraphInv /\ JobInv /\ FreshInv /\ PairInv
  /\ [Next]_vars
  => PairInv'
<1> SUFFICES ASSUME HoldInv, DataInv, ObjectShape, GraphInv, JobInv, FreshInv, PairInv,
                    [Next]_vars, Pairing'
             PROVE  ReadsResults' /\ (Alive' => Paired') /\ GotPaired'
  BY DEF PairInv, GotPaired
<1>1. Pairing
  BY UsageStays, PairingStays
<1>2. /\ DeviceUp /\ JobsFed /\ (Alive => Balanced) /\ Fresh /\ AllBegun /\ ReadsResults
      /\ (Alive => Paired) /\ GotPaired /\ DataShape
  BY <1>1, PairingMeans DEF JobInv, FreshInv, PairInv, GotPaired, DataInv
<1>3. CASE StickRuns
  <2>0. PICK j \in JobRecords : \E e : Ran(j, e)
    BY <1>2, <1>3, StickDoes
  <2>1. PICK e : Ran(j, e)
    BY <2>0
  <2>2. UNCHANGED <<usage, dev, thr, got>>
    BY <2>1 DEF Ran
  <2>3. Alive => Paired'
    BY <1>1, <1>2, <2>1, StickPaired
  <2>4. QED
    BY <1>2, <2>2, <2>3 DEF Alive, ReadsResults, GotPaired
<1>4. ASSUME NEW t \in Threads, Thread(t)
      PROVE  ReadsResults' /\ (Alive' => Paired') /\ GotPaired'
  <2>1. CASE Call(t)
    <3>1. Alive
      BY <1>2, <2>1, CallUp
    <3>2. Paired'
      BY <1>1, <1>2, <2>1, <3>1, CallPaired
    <3>3. OnlyThread(t) /\ thr'[t].pc = "enter" /\ usage' = usage /\ got' = got
      BY <2>1, CallBegins
    <3>4. QED
      BY <1>2, <3>2, <3>3 DEF ReadsResults, GotPaired, OnlyThread
  <2>2. CASE OpsOf(t) /\ thr[t].pc # "idle" /\ Steps(t) /\ thr[t].op \in DeviceOps
    <3>1. Devices(t)
      BY <2>2 DEF OpsOf, DeviceOps
    <3>2. (Alive' => Paired') /\ got' = got
      BY <1>1, <1>2, <2>2, <3>1, DevicesPaired
    <3>3. ReadsResults'
      BY <1>2, <2>2, ReadsStay
    <3>4. QED
      BY <1>2, <3>2, <3>3 DEF GotPaired
  <2>3. CASE OpsOf(t) /\ thr[t].pc # "idle" /\ Steps(t) /\ thr[t].op \notin DeviceOps
    <3>1. Alive
      BY <1>2, <2>3, CallsUp
    <3>2. Paired' /\ GotPaired'
      BY <1>1, <1>2, <2>3, <3>1, CallsPaired
    <3>3. ReadsResults'
      BY <1>2, <2>3, ReadsStay
    <3>4. QED
      BY <3>2, <3>3
  <2>4. QED
    BY <1>4, <2>1, <2>2, <2>3, StepOps
<1>5. CASE UNCHANGED vars
  <2>1. UNCHANGED <<usage, dev, thr, stick, fifo, got>>
    BY <1>5 DEF vars
  <2>2. ReadsResults' /\ GotPaired' /\ (Alive' <=> Alive)
    BY <1>2, <2>1 DEF ReadsResults, GotPaired, Alive
  <2>3. Paired' <=> Paired
    BY <2>1 DEF Paired, InputsPaired, OutputsPaired, ElementsMade, InputPaired, OutputPaired,
       JobNumber, Chained, Wrote, Took, Made, Delivered, WroteAt, TookAt, MadeAt, DeliveredAt, At,
       Uses, Makes
  <2>4. QED
    BY <1>2, <2>2, <2>3
<1>6. QED
  BY <1>3, <1>4, <1>5 DEF Next

LEMMA InitPairs == Init => PairInv
<1> SUFFICES ASSUME Init PROVE ReadsResults /\ Paired /\ \A r \in got : r.param = r.n
  BY DEF PairInv
<1>1. /\ stick = [jobs |-> <<>>, buf |-> [f \in Fifos |-> <<>>], out |-> [f \in Fifos |-> <<>>]]
      /\ thr = [t \in Threads |-> Idle]
      /\ fifo = [f \in Fifos |-> NewFifo(usage, f)]
      /\ got = {}
  BY DEF Init
<1>2. \A t \in Threads : thr[t].pc = "idle" /\ thr[t].op = "NONE"
  BY <1>1 DEF Idle
<1>3. /\ Len(stick.jobs) = 0
      /\ \A f \in Fifos : Len(stick.buf[f]) = 0 /\ Len(stick.out[f]) = 0
  BY <1>1
<1>4. \A f \in Fifos : Len(fifo[f].in) = 0 /\ Len(fifo[f].out) = 0
  BY <1>1 DEF NewFifo
<1>5. ASSUME NEW f
      PROVE  /\ Wrote(f) = 0 /\ Took(f) = 0 /\ Made(f) = 0 /\ Delivered(f) = 0
             /\ \A t \in Threads : /\ ~WroteAt(t, f) /\ ~TookAt(t, f)
                                   /\ ~MadeAt(t, f) /\ ~DeliveredAt(t, f)
  BY <1>2 DEF Wrote, Took, Made, Delivered, WroteAt, TookAt, MadeAt, DeliveredAt, At, One
<1>6. ASSUME NEW f PROVE Uses(f) = 0 /\ Makes(f) = 0
  <2>1. \A i \in 1 .. 0 : FALSE
    OBVIOUS
  <2>2. \A s : Hits(s, 0, f) = 0
    BY <2>1, HitsNone
  <2>3. QED
    BY <1>3, <2>2 DEF Uses, Makes
<1>7. ASSUME NEW f \in Fifos PROVE InputPaired(f) /\ OutputPaired(f)
  <2>1. Uses(f) + Took(f) = 0 /\ Makes(f) + Made(f) = 0
    BY <1>5, <1>6
  <2>2. Lines(stick.buf[f], fifo[f].in, 0, 0)
    BY <1>3, <1>4 DEF Lines
  <2>3. Results(fifo[f].out, stick.out[f], 0, 0)
    BY <1>3, <1>4 DEF Results
  <2>4. InputPaired(f)
    BY <1>3, <1>5, <2>1, <2>2 DEF InputPaired
  <2>5. OutputPaired(f)
    BY <1>3, <1>5, <2>1, <2>3 DEF OutputPaired
  <2>6. QED
    BY <2>4, <2>5
<1>8. ReadsResults /\ ElementsMade
  BY <1>2 DEF ReadsResults, ElementsMade, At
<1>9. QED
  BY <1>1, <1>7, <1>8 DEF Paired, InputsPaired, OutputsPaired

LEMMA ParamsHold == PairInv => ParamPaired
BY DEF PairInv, Pairing, ParamPaired

\* A result comes with the user parameter of the element that it was computed from, for
\* every use of the API with one writer, one trigger, one reader and one consumer of each
\* element, in which no fifo is destroyed and no allocation or trigger fails: the queues of
\* user parameters that the host keeps beside the elements (ncFifoWriteElem,
\* ncGraphQueueInference, ncFifoReadElem) never get out of step with the stick.
THEOREM ParamsArePaired == Spec => []ParamPaired
<1>1. Init => TypeInv /\ RespInv /\ GraphInv /\ FifoInv /\ JobInv /\ FreshInv /\ PairInv
  BY InitHold, InitTypes, InitShape, InitBound, InitGraphs, InitFifos, InitJobs,
     InitFresh, InitPairs DEF TypeInv, Init, RespInv
<1>2. /\ TypeInv /\ RespInv /\ GraphInv /\ FifoInv /\ JobInv /\ FreshInv /\ PairInv
      /\ [Next]_vars
      => (TypeInv /\ RespInv /\ GraphInv /\ FifoInv /\ JobInv /\ FreshInv /\ PairInv)'
  BY StepHold, StepTypes, StepShape, StepBound, StepResp, StepGraphs, StepFifos, StepJobs,
     StepFresh, StepPairs DEF TypeInv
<1>3. PairInv => ParamPaired
  BY ParamsHold
<1>4. QED
  BY <1>1, <1>2, <1>3, PTL DEF Spec

=============================================================================
