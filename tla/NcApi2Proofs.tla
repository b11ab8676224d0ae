--------------------------- MODULE NcApi2Proofs ---------------------------
(***************************************************************************)
(* Theorems about NCAPI v2 for any number of threads, graphs and fifos and *)
(* any use: which call holds which mutex, that a mutex is returned by all  *)
(* exits but those that Keeping names, that a call reads the answer to its *)
(* own request, and that every variable keeps its type.                    *)
(***************************************************************************)
EXTENDS NcApi2, FiniteSetTheorems, SequenceTheorems, TLAPS

-----------------------------------------------------------------------------
(* Threads and their calls.                                                  *)

ThrFields == {"pc", "op", "g", "f", "o", "e", "param", "seen"}

ThrOK ==
  /\ usage \in Usages
  /\ thr = [t \in Threads |-> thr[t]]
  /\ \A t \in Threads : DOMAIN thr[t] = ThrFields

\* A thread is in one of its calls, or idle.
SameCall(x, c) == x.op = c.op /\ x.g = c.g /\ x.f = c.f /\ x.o = c.o
Calling ==
  \A t \in Threads :
    IF thr[t].pc = "idle" THEN thr[t] = Idle
    ELSE \E c \in usage.calls[t] : SameCall(thr[t], c)

\* The places that belong to one operation.
PlacedAt(t) ==
  /\ thr[t].pc = "monitor" => thr[t].op = "OPEN"
  /\ thr[t].pc = "close" => thr[t].op \in {"CLOSE", "DESTROY"}
  /\ thr[t].pc \in {"data", "memory", "stuck", "linked"} => thr[t].op = "GALLOC"
  /\ thr[t].pc \in {"drain", "take"} => thr[t].op = "QUEUE"
Placed == \A t \in Threads : PlacedAt(t)

\* What Allowed asks for when a call begins stays true while it lasts.
Apart ==
  \A s, t \in Busy : s # t =>
    /\ {thr[s].op, thr[t].op} \cap DeviceOps = {}
    /\ {thr[s].op, thr[t].op} \cap ObjectOps # {} =>
         Objects(thr[s]) \cap Objects(thr[t]) = {}

ThreadInv == ThrOK /\ Calling /\ Placed /\ Apart

-----------------------------------------------------------------------------
(* How a step moves its thread.                                              *)

\* The step of a call goes on or returns; no other thread moves.
Advances(t) ==
  /\ thr[t].pc # "idle" /\ usage' = usage
  /\ ThrOK'
  /\ \A s \in Threads : s # t => thr'[s] = thr[s]
  /\ thr'[t] = Idle \/ (thr'[t].pc # "idle" /\ SameCall(thr'[t], thr[t]))

LEMMA GotoMoves ==
  ASSUME ThrOK, NEW t \in Threads, NEW pc, Goto(t, pc), UNCHANGED usage
  PROVE  /\ ThrOK' /\ thr'[t].pc = pc /\ SameCall(thr'[t], thr[t])
         /\ \A s \in Threads : s # t => thr'[s] = thr[s]
  BY DEF ThrOK, Goto, SameCall, ThrFields

LEMMA ReturnMoves ==
  ASSUME ThrOK, NEW t \in Threads, Return(t), UNCHANGED usage
  PROVE  /\ ThrOK' /\ thr'[t] = Idle /\ thr'[t].pc = "idle"
         /\ \A s \in Threads : s # t => thr'[s] = thr[s]
  BY DEF ThrOK, Return, Idle, ThrFields

\* A call goes on and carries a value with it.
Carry(t, pc, x) ==
  \/ thr' = [thr EXCEPT ![t].pc = pc, ![t].e = x]
  \/ thr' = [thr EXCEPT ![t].pc = pc, ![t].param = x]
  \/ thr' = [thr EXCEPT ![t].pc = pc, ![t].seen = x]

LEMMA CarryMoves ==
  ASSUME ThrOK, NEW t \in Threads, NEW pc, NEW x, UNCHANGED usage, Carry(t, pc, x)
  PROVE  /\ ThrOK' /\ thr'[t].pc = pc /\ SameCall(thr'[t], thr[t])
         /\ \A s \in Threads : s # t => thr'[s] = thr[s]
<1>1. CASE thr' = [thr EXCEPT ![t].pc = pc, ![t].e = x]
  BY <1>1 DEF ThrOK, SameCall, ThrFields
<1>2. CASE thr' = [thr EXCEPT ![t].pc = pc, ![t].param = x]
  BY <1>2 DEF ThrOK, SameCall, ThrFields
<1>3. CASE thr' = [thr EXCEPT ![t].pc = pc, ![t].seen = x]
  BY <1>3 DEF ThrOK, SameCall, ThrFields
<1>4. QED
  BY <1>1, <1>2, <1>3 DEF Carry

\* Calling and Apart are kept by a step of a call, wherever it goes.
LEMMA AdvanceKeeps ==
  ASSUME ThrOK, Calling, Apart, NEW t \in Threads, Advances(t), UNCHANGED usage
  PROVE  Calling' /\ Apart'
<1>1. Calling'
  <2> SUFFICES ASSUME NEW s \in Threads
               PROVE  IF thr'[s].pc = "idle" THEN thr'[s] = Idle
                      ELSE \E c \in usage.calls[s] : SameCall(thr'[s], c)
    BY DEF Advances, Calling, SameCall
  <2>1. CASE s # t
    BY <2>1 DEF Advances, Calling
  <2>2. CASE s = t
    <3>1. CASE thr'[t] = Idle
      BY <3>1, <2>2 DEF Idle
    <3>2. CASE thr'[t].pc # "idle" /\ SameCall(thr'[t], thr[t])
      BY <3>2, <2>2 DEF Advances, Calling, SameCall
    <3>3. QED
      BY <3>1, <3>2 DEF Advances
  <2>3. QED
    BY <2>1, <2>2
<1>2. Apart'
  <2>1. /\ Busy' \subseteq Busy
        /\ \A s \in Busy' : SameCall(thr'[s], thr[s])
    BY DEF Advances, Busy, Idle, SameCall
  <2>2. QED
    BY <2>1 DEF Apart, SameCall, Objects
<1>3. QED
  BY <1>1, <1>2

-----------------------------------------------------------------------------
(* The mutexes.                                                              *)

\* The places that hold a mutex.
Holding(t, m) ==
  \/ m = "global" /\ thr[t].pc \in {"close", "linked"}
  \/ m = "gstream" /\ thr[t].pc \in {"check", "data", "memory", "stuck"}
  \/ m = thr[t].f /\ thr[t].pc \in {"drain", "take"}

Held ==
  /\ mutex \in [Mutexes -> Threads \cup {None}]
  /\ \A t \in Threads, m \in Mutexes : Holding(t, m) => mutex[m] = t

\* What a step of a call does to the mutexes: it locks one, gives one back, leaves
\* them as they are, returns with one that it keeps, or is the close that destroys
\* those of the device.
Locks(t, k) ==
  /\ k \in Mutexes /\ mutex[k] = None /\ mutex' = [mutex EXCEPT ![k] = t]
  /\ \A m \in Mutexes : Holding(t, m)' <=> Holding(t, m) \/ m = k
Unlocks(t, k) ==
  /\ k \in Mutexes /\ Holding(t, k) /\ mutex' = [mutex EXCEPT ![k] = None]
  /\ \A m \in Mutexes : Holding(t, m)' <=> Holding(t, m) /\ m # k
Leaves(t) ==
  /\ mutex' = mutex
  /\ \A m \in Mutexes : Holding(t, m)' <=> Holding(t, m)
KeepExit(t) ==
  \/ usage.failing \cap Keeping # {}
  \/ At(t, "GDESTROY", "send") /\ ~dev.monitor
  \/ At(t, "GDESTROY", "check") /\ resp # <<>> /\ ~Head(resp).ok
Keeps(t) ==
  /\ KeepExit(t)
  /\ thr'[t] = Idle
  /\ \/ \E k \in Mutexes : mutex[k] = None /\ mutex' = [mutex EXCEPT ![k] = t]
     \/ mutex' = mutex
Closes(t) ==
  /\ thr[t].pc = "close" /\ thr'[t].pc \in {"idle", "destroy"}
  /\ mutex' = [mutex EXCEPT !["global"] = None, !["data"] = None, !["gstream"] = None]

MutexStep(t) ==
  \/ \E k \in Mutexes : Locks(t, k) \/ Unlocks(t, k)
  \/ Leaves(t) \/ Keeps(t) \/ Closes(t)

\* The step of a call, as the proofs need it.
Steps(t) == Advances(t) /\ PlacedAt(t)' /\ MutexStep(t)

LEMMA Names ==
  /\ "global" \in Mutexes /\ "data" \in Mutexes /\ "gstream" \in Mutexes
  /\ \A f \in Fifos : f \in Mutexes /\ f # "global" /\ f # "data" /\ f # "gstream"
  /\ None \notin Mutexes /\ None \notin Threads
  BY NcAssumption DEF Mutexes, Devs

\* A call has its objects.
LEMMA CallHas ==
  ASSUME ThrOK, Calling, NEW t \in Threads, thr[t].pc # "idle"
  PROVE  /\ thr[t].op \in Ops
         /\ thr[t].g \in Graphs \cup {None} /\ thr[t].f \in Fifos \cup {None}
         /\ thr[t].op \in {"GALLOC", "GDESTROY", "STATE", "QUEUE"} => thr[t].g \in Graphs
         /\ thr[t].op \in {"FALLOC", "FDESTROY", "SETTYPE", "SETDESC", "QUEUE", "WRITE", "READ"}
              => thr[t].f \in Fifos
         /\ thr[t].op = "QUEUE" => thr[t].o \in Fifos
<1>1. PICK c \in usage.calls[t] : SameCall(thr[t], c)
  BY DEF Calling
<1>2. c \in CallRecords /\ HasObjects(c)
  BY NcAssumption DEF ThrOK
<1>3. QED
  BY <1>1, <1>2, NcAssumption DEF SameCall, CallRecords, HasObjects

-----------------------------------------------------------------------------
(* Every operation moves so.                                                 *)

HoldPcs == {"close", "linked", "check", "data", "memory", "stuck", "drain", "take"}

\* A step of a call: where it is and that the use stays.
Begins(t) ==
  /\ ThrOK /\ Calling /\ Placed /\ Held /\ t \in Threads
  /\ thr[t].pc # "idle" /\ usage' = usage

\* A call returns, or goes on, and holds no mutex before or after it.
LEMMA ReturnStep ==
  ASSUME NEW t, Begins(t), Return(t), mutex' = mutex, thr[t].pc \notin HoldPcs
  PROVE  Steps(t)
<1>1. Advances(t) /\ PlacedAt(t)' /\ thr'[t].pc = "idle"
  BY ReturnMoves DEF Begins, Advances, PlacedAt, Idle
<1>2. QED
  BY <1>1 DEF Holding, HoldPcs, Leaves, MutexStep, Steps

FreePcs == {"enter", "destroy", "send", "link", "free", "find", "crashed", "in", "out",
            "count", "wait", "running", "waiting"}

LEMMA GotoStep ==
  ASSUME NEW t, Begins(t), NEW pc, Goto(t, pc), mutex' = mutex, thr[t].pc \notin HoldPcs,
         pc \in FreePcs
  PROVE  Steps(t)
<1>1. Advances(t) /\ PlacedAt(t)' /\ thr'[t].pc = pc
  BY GotoMoves DEF Begins, Advances, PlacedAt, FreePcs
<1>2. QED
  BY <1>1 DEF Holding, HoldPcs, FreePcs, Leaves, MutexStep, Steps

LEMMA CarryStep ==
  ASSUME NEW t, Begins(t), NEW pc, NEW x, mutex' = mutex, thr[t].pc \notin HoldPcs,
         pc \in FreePcs, Carry(t, pc, x)
  PROVE  Steps(t)
<1>1. /\ ThrOK' /\ thr'[t].pc = pc /\ SameCall(thr'[t], thr[t])
      /\ \A s \in Threads : s # t => thr'[s] = thr[s]
  BY CarryMoves DEF Begins
<1>2. Advances(t) /\ PlacedAt(t)'
  BY <1>1 DEF Begins, Advances, PlacedAt, FreePcs
<1>3. QED
  BY <1>1, <1>2 DEF Holding, HoldPcs, FreePcs, Leaves, MutexStep, Steps

\* A call locks graph_streamm for an exchange.
LEMMA SendStep ==
  ASSUME NEW t, Begins(t), NEW pc, Goto(t, pc), Lock("gstream", t), thr[t].pc = "send",
         pc = "check" \/ (pc \in {"data", "stuck"} /\ thr[t].op = "GALLOC")
  PROVE  Steps(t)
<1>1. Advances(t) /\ PlacedAt(t)' /\ thr'[t].pc = pc
  BY GotoMoves DEF Begins, Advances, PlacedAt, SameCall
<1>2. Locks(t, "gstream")
  BY <1>1, Names DEF Lock, Locks, Holding
<1>3. QED
  BY <1>1, <1>2, Names DEF MutexStep, Steps

\* A call gives back the only mutex that it holds.
LEMMA UnlockStep ==
  ASSUME NEW t, Begins(t), NEW k \in Mutexes, Unlock(k), Holding(t, k),
         \A m \in Mutexes : Holding(t, m) => m = k,
         Return(t) \/ (\E pc \in FreePcs : Goto(t, pc))
  PROVE  Steps(t)
<1>1. /\ Advances(t) /\ PlacedAt(t)'
      /\ thr'[t].pc = "idle" \/ thr'[t].pc \in FreePcs
  <2>1. CASE Return(t)
    BY <2>1, ReturnMoves DEF Begins, Advances, PlacedAt, Idle
  <2>2. ASSUME NEW pc \in FreePcs, Goto(t, pc)
        PROVE  Advances(t) /\ PlacedAt(t)' /\ thr'[t].pc \in FreePcs
    BY <2>2, GotoMoves DEF Begins, Advances, PlacedAt, FreePcs
  <2>3. QED
    BY <2>1, <2>2
<1>2. Unlocks(t, k)
  BY <1>1 DEF Unlock, Unlocks, Holding, FreePcs
<1>3. QED
  BY <1>1, <1>2 DEF MutexStep, Steps

\* A call returns with a mutex.
LEMMA KeepStep ==
  ASSUME NEW t, Begins(t), Return(t), KeepExit(t),
         \/ \E k \in Mutexes : Lock(k, t)
         \/ mutex' = mutex
  PROVE  Steps(t)
<1>1. Advances(t) /\ PlacedAt(t)' /\ thr'[t] = Idle
  BY ReturnMoves DEF Begins, Advances, PlacedAt, Idle
<1>2. QED
  BY <1>1 DEF Lock, Keeps, MutexStep, Steps

LEMMA OpenSteps ==
  ASSUME NEW t, Begins(t), OpenEnter(t) \/ OpenMonitor(t)
  PROVE  Steps(t)
<1>1. CASE OpenEnter(t)
  <2>1. thr[t].pc = "enter" /\ thr[t].op = "OPEN"
    BY <1>1 DEF OpenEnter, At
  <2>2. CASE (Fails(t, "android") \/ Fails(t, "connect")) /\ Lock("global", t) /\ Return(t)
    BY <2>1, <2>2, KeepStep, Names DEF Fails, KeepExit, Keeping
  <2>3. CASE Free("global") /\ Return(t)
    BY <2>1, <2>3, ReturnStep DEF Free, HoldPcs
  <2>4. CASE Free("global") /\ Goto(t, "monitor")
    <3>1. Advances(t) /\ PlacedAt(t)' /\ thr'[t].pc = "monitor"
      BY <2>1, <2>4, GotoMoves DEF Begins, Advances, PlacedAt, SameCall
    <3>2. QED
      BY <2>1, <2>4, <3>1 DEF Free, Holding, Leaves, MutexStep, Steps
  <2>5. QED
    BY <1>1, <2>2, <2>3, <2>4 DEF OpenEnter
<1>2. CASE OpenMonitor(t)
  BY <1>2, ReturnStep DEF OpenMonitor, At, HoldPcs
<1>3. QED
  BY <1>1, <1>2

LEMMA CloseSteps ==
  ASSUME NEW t, Begins(t), CloseEnter(t) \/ Close(t) \/ Destroy(t)
  PROVE  Steps(t)
<1>1. CASE CloseEnter(t)
  <2>1. CASE Lock("global", t) /\ Goto(t, "close")
    <3>1. /\ Advances(t) /\ PlacedAt(t)' /\ thr'[t].pc = "close" /\ thr[t].pc = "enter"
      BY <1>1, <2>1, GotoMoves DEF CloseEnter, Begins, Advances, PlacedAt, SameCall
    <3>2. Locks(t, "global")
      BY <2>1, <3>1, Names DEF Lock, Locks, Holding
    <3>3. QED
      BY <3>1, <3>2, Names DEF MutexStep, Steps
  <2>2. CASE Free("global") /\ Return(t)
    BY <1>1, <2>2, ReturnStep DEF CloseEnter, Free, HoldPcs
  <2>3. QED
    BY <1>1, <2>1, <2>2 DEF CloseEnter
<1>2. CASE Close(t)
  <2>1. /\ thr[t].pc = "close" /\ usage' = usage
        /\ Return(t) \/ Goto(t, "destroy")
    BY <1>2 DEF Close
  <2>2. Advances(t) /\ PlacedAt(t)' /\ thr'[t].pc \in {"idle", "destroy"}
    <3>1. CASE Return(t)
      BY <3>1, ReturnMoves DEF Begins, Advances, PlacedAt, Idle
    <3>2. CASE Goto(t, "destroy")
      BY <3>2, GotoMoves DEF Begins, Advances, PlacedAt, SameCall
    <3>3. QED
      BY <2>1, <3>1, <3>2
  <2>3. Closes(t)
    BY <1>2, <2>2 DEF Close, Closes
  <2>4. QED
    BY <2>2, <2>3 DEF MutexStep, Steps
<1>3. CASE Destroy(t)
  BY <1>3, ReturnStep DEF Destroy, At, Free, HoldPcs
<1>4. QED
  BY <1>1, <1>2, <1>3

LEMMA GraphSteps ==
  ASSUME NEW t, Begins(t), GraphCalls(t)
  PROVE  Steps(t)
<1>0. /\ thr[t].pc \in {"check", "data", "memory"} => Holding(t, "gstream")
      /\ thr[t].pc \in {"check", "data", "memory"} => \A m \in Mutexes : Holding(t, m)
           => m = "gstream"
      /\ thr[t].pc = "linked" => Holding(t, "global")
      /\ thr[t].pc = "linked" => \A m \in Mutexes : Holding(t, m) => m = "global"
  BY DEF Holding
<1>1. CASE GAllocEnter(t)
  BY <1>1, ReturnStep, GotoStep DEF GAllocEnter, At, Free, HoldPcs, FreePcs
<1>2. CASE GAllocSend(t)
  BY <1>2, SendStep DEF GAllocSend, At
<1>3. CASE GAllocData(t)
  <2>1. thr[t].pc = "data" /\ thr[t].op = "GALLOC"
    BY <1>3 DEF GAllocData, At
  <2>2. CASE Unlock("gstream") /\ Return(t)
    BY <2>1, <2>2, <1>0, UnlockStep, Names
  <2>3. CASE Goto(t, "check") /\ UNCHANGED mutex
    <3>1. Advances(t) /\ PlacedAt(t)' /\ thr'[t].pc = "check"
      BY <2>1, <2>3, GotoMoves DEF Begins, Advances, PlacedAt
    <3>2. QED
      BY <2>1, <2>3, <3>1 DEF Holding, Leaves, MutexStep, Steps
  <2>4. QED
    BY <1>3, <2>2, <2>3 DEF GAllocData
<1>4. CASE GAllocCheck(t)
  <2>1. thr[t].pc = "check" /\ thr[t].op = "GALLOC"
    BY <1>4 DEF GAllocCheck, At
  <2>2. CASE Unlock("gstream") /\ (Return(t) \/ Goto(t, "link"))
    BY <2>1, <2>2, <1>0, UnlockStep, Names DEF FreePcs
  <2>3. CASE Goto(t, "memory") /\ UNCHANGED mutex
    <3>1. Advances(t) /\ PlacedAt(t)' /\ thr'[t].pc = "memory"
      BY <2>1, <2>3, GotoMoves DEF Begins, Advances, PlacedAt, SameCall
    <3>2. QED
      BY <2>1, <2>3, <3>1 DEF Holding, Leaves, MutexStep, Steps
  <2>4. CASE Fails(t, "bad") /\ Return(t) /\ UNCHANGED mutex
    BY <2>1, <2>4, KeepStep DEF KeepExit, Fails, Keeping
  <2>5. QED
    BY <1>4, <2>2, <2>3, <2>4 DEF GAllocCheck
<1>5. CASE GAllocMemory(t)
  BY <1>5, <1>0, UnlockStep, Names DEF GAllocMemory, At
<1>6. CASE GAllocLink(t)
  <2>1. Advances(t) /\ PlacedAt(t)' /\ thr'[t].pc = "linked" /\ thr[t].pc = "link"
    BY <1>6, GotoMoves DEF GAllocLink, At, Begins, Advances, PlacedAt, SameCall
  <2>2. Locks(t, "global")
    BY <1>6, <2>1, Names DEF GAllocLink, Lock, Locks, Holding
  <2>3. QED
    BY <2>1, <2>2, Names DEF MutexStep, Steps
<1>7. CASE GAllocLinked(t)
  BY <1>7, <1>0, UnlockStep, Names DEF GAllocLinked, At
<1>8. CASE GDestroyCreated(t) \/ GDestroyEnter(t)
  BY <1>8, ReturnStep, GotoStep DEF GDestroyCreated, GDestroyEnter, At, Free, HoldPcs, FreePcs
<1>9. CASE GDestroySend(t)
  <2>1. thr[t].pc = "send" /\ thr[t].op = "GDESTROY" /\ Lock("gstream", t)
    BY <1>9 DEF GDestroySend, At
  <2>2. CASE SendFails(t) /\ Return(t)
    <3>1. KeepExit(t)
      BY <2>1, <2>2 DEF SendFails, KeepExit, Fails, Keeping, At
    <3>2. QED
      BY <2>1, <2>2, <3>1, KeepStep, Names
  <2>3. CASE Goto(t, "check")
    BY <2>1, <2>3, SendStep
  <2>4. QED
    BY <1>9, <2>2, <2>3 DEF GDestroySend
<1>10. CASE GDestroyCheck(t)
  <2>1. PICK ok \in BOOLEAN :
          /\ Checked(t, ok)
          /\ IF ok THEN Unlock("gstream") /\ Goto(t, "free") ELSE Return(t) /\ UNCHANGED mutex
    BY <1>10 DEF GDestroyCheck
  <2>2. thr[t].pc = "check" /\ thr[t].op = "GDESTROY"
    BY <1>10 DEF GDestroyCheck, At
  <2>3. CASE ok
    BY <2>1, <2>2, <2>3, <1>0, UnlockStep, Names DEF FreePcs
  <2>4. CASE ~ok
    <3>1. KeepExit(t)
      BY <2>1, <2>2, <2>4 DEF Checked, KeepExit, Fails, Keeping, At
    <3>2. QED
      BY <2>1, <2>4, <3>1, KeepStep
  <2>5. QED
    BY <2>3, <2>4
<1>11. CASE GDestroyFree(t)
  <2>1. thr[t].pc = "free" /\ mutex' = mutex /\ (Return(t) \/ Goto(t, "crashed"))
    BY <1>11, Zenon DEF GDestroyFree, At, Free
  <2>2. QED
    BY <2>1, ReturnStep, GotoStep DEF HoldPcs, FreePcs
<1>12. CASE StateEnter(t)
  <2>1. thr[t].pc = "enter" /\ thr[t].op = "STATE"
    BY <1>12 DEF StateEnter, At
  <2>2. CASE Fails(t, "class") /\ Lock("global", t) /\ Return(t)
    BY <2>1, <2>2, KeepStep, Names DEF KeepExit, Fails, Keeping
  <2>3. CASE Free("global") /\ (Return(t) \/ Goto(t, "send"))
    BY <2>1, <2>3, ReturnStep, GotoStep DEF Free, HoldPcs, FreePcs
  <2>4. QED
    BY <1>12, <2>2, <2>3 DEF StateEnter
<1>13. CASE StateSend(t)
  BY <1>13, ReturnStep, SendStep DEF StateSend, At, Free, HoldPcs
<1>14. CASE StateCheck(t)
  <2>1. thr[t].pc = "check" /\ Unlock("gstream")
    BY <1>14 DEF StateCheck, At
  <2>2. Return(t) \/ Goto(t, "running") \/ Goto(t, "waiting")
    BY <1>14, Zenon DEF StateCheck
  <2>3. QED
    BY <2>1, <2>2, <1>0, UnlockStep, Names DEF FreePcs
<1>15. CASE StateSet(t)
  BY <1>15, ReturnStep DEF StateSet, HoldPcs
<1>16. QED
  BY <1>1, <1>2, <1>3, <1>4, <1>5, <1>6, <1>7, <1>8, <1>9, <1>10, <1>11, <1>12, <1>13, <1>14,
     <1>15
     DEF GraphCalls

LEMMA FifoSteps ==
  ASSUME NEW t, Begins(t), FifoCalls(t)
  PROVE  Steps(t)
<1>0. thr[t].pc = "check" =>
        Holding(t, "gstream") /\ \A m \in Mutexes : Holding(t, m) => m = "gstream"
  BY DEF Holding
<1>1. CASE SetType(t) \/ SetDesc(t) \/ FDestroyCreated(t)
  BY <1>1, ReturnStep DEF SetType, SetDesc, FDestroyCreated, At, HoldPcs
<1>2. CASE FAllocRead(t)
  <2>1. CASE thr' = [thr EXCEPT ![t].pc = "find", ![t].seen = dev.listed]
    BY <1>2, <2>1, CarryStep DEF FAllocRead, At, Carry, HoldPcs, FreePcs
  <2>2. CASE Return(t)
    BY <1>2, <2>2, ReturnStep DEF FAllocRead, At, HoldPcs
  <2>3. QED
    BY <1>2, <2>1, <2>2 DEF FAllocRead
<1>3. CASE FAllocFind(t)
  <2>1. thr[t].pc = "find" /\ mutex' = mutex /\ (Return(t) \/ Goto(t, "link"))
    BY <1>3 DEF FAllocFind, At, Free
  <2>2. QED
    BY <2>1, ReturnStep, GotoStep DEF HoldPcs, FreePcs
<1>4. CASE FAllocLink(t)
  BY <1>4, ReturnStep, GotoStep DEF FAllocLink, At, HoldPcs, FreePcs
<1>5. CASE FAllocSend(t)
  BY <1>5, ReturnStep, SendStep DEF FAllocSend, At, Free, HoldPcs
<1>6. CASE FAllocCheck(t)
  BY <1>6, <1>0, UnlockStep, Names DEF FAllocCheck, At
<1>7. CASE FDestroyEnter(t)
  <2>1. /\ thr[t].pc = "enter" /\ mutex' = mutex
        /\ Return(t) \/ Goto(t, "crashed") \/ Goto(t, "send")
    BY <1>7 DEF FDestroyEnter, At
  <2>2. QED
    BY <2>1, ReturnStep, GotoStep DEF HoldPcs, FreePcs
<1>8. CASE FDestroySend(t)
  BY <1>8, ReturnStep, SendStep DEF FDestroySend, At, Free, HoldPcs
<1>9. CASE FDestroyCheck(t)
  BY <1>9, <1>0, UnlockStep, Names DEF FDestroyCheck, At, FreePcs
<1>10. CASE FDestroyFree(t)
  <2>1. thr[t].pc = "free" /\ mutex' = mutex /\ (Return(t) \/ Goto(t, "crashed"))
    BY <1>10, Zenon DEF FDestroyFree, At, Free
  <2>2. QED
    BY <2>1, ReturnStep, GotoStep DEF HoldPcs, FreePcs
<1>11. QED
  BY <1>1, <1>2, <1>3, <1>4, <1>5, <1>6, <1>7, <1>8, <1>9, <1>10 DEF FifoCalls

LEMMA ElementSteps ==
  ASSUME NEW t, Begins(t), Elements(t)
  PROVE  Steps(t)
<1>0. thr[t].pc = "check" =>
        Holding(t, "gstream") /\ \A m \in Mutexes : Holding(t, m) => m = "gstream"
  BY DEF Holding
<1>1. CASE WriteEnter(t)
  <2>1. thr[t].pc = "enter" /\ mutex' = mutex
    BY <1>1 DEF WriteEnter, At
  <2>2. CASE Goto(t, "crashed") \/ Return(t)
    BY <2>1, <2>2, ReturnStep, GotoStep DEF HoldPcs, FreePcs
  <2>3. CASE \E x : thr' = [thr EXCEPT ![t].pc = "send", ![t].e = x]
    BY <2>1, <2>3, CarryStep DEF Carry, HoldPcs, FreePcs
  <2>4. QED
    BY <1>1, <2>2, <2>3 DEF WriteEnter
<1>2. CASE WriteSend(t)
  <2>1. thr[t].pc = "send" /\ mutex' = mutex /\ (Return(t) \/ Goto(t, "count"))
    BY <1>2 DEF WriteSend, At
  <2>2. QED
    BY <2>1, ReturnStep, GotoStep DEF HoldPcs, FreePcs
<1>3. CASE WriteCount(t)
  BY <1>3, ReturnStep DEF WriteCount, At, Free, HoldPcs
<1>4. CASE QueueEnter(t)
  BY <1>4, ReturnStep, GotoStep DEF QueueEnter, At, HoldPcs, FreePcs
<1>5. CASE QueueIn(t)
  <2>1. /\ thr[t].pc = "in" /\ thr[t].op = "QUEUE" /\ Lock(thr[t].f, t)
        /\ Goto(t, "drain") \/ Goto(t, "take")
    BY <1>5 DEF QueueIn, At
  <2>2. Advances(t) /\ PlacedAt(t)' /\ thr'[t].pc \in {"drain", "take"} /\ thr'[t].f = thr[t].f
    BY <2>1, GotoMoves DEF Begins, Advances, PlacedAt, SameCall
  <2>3. thr[t].f \in Mutexes
    BY <2>1, CallHas, Names DEF Begins
  <2>4. Locks(t, thr[t].f)
    BY <2>1, <2>2, <2>3 DEF Lock, Locks, Holding
  <2>5. QED
    BY <2>2, <2>3, <2>4 DEF MutexStep, Steps
<1>6. CASE QueueDrain(t)
  <2>1. thr[t].pc = "drain" /\ thr[t].op = "QUEUE" /\ mutex' = mutex /\ Goto(t, "take")
    BY <1>6 DEF QueueDrain, At
  <2>2. Advances(t) /\ PlacedAt(t)' /\ thr'[t].pc = "take" /\ thr'[t].f = thr[t].f
    BY <2>1, GotoMoves DEF Begins, Advances, PlacedAt, SameCall
  <2>3. QED
    BY <2>1, <2>2 DEF Holding, Leaves, MutexStep, Steps
<1>7. CASE QueueTake(t)
  <2>1. /\ thr[t].pc = "take" /\ thr[t].op = "QUEUE" /\ Unlock(thr[t].f)
        /\ Return(t) \/ (\E x : Carry(t, "out", x))
    BY <1>7 DEF QueueTake, At, Carry
  <2>2. thr[t].f \in Mutexes /\ Holding(t, thr[t].f) /\ \A m \in Mutexes : Holding(t, m)
          => m = thr[t].f
    BY <2>1, CallHas, Names DEF Begins, Holding
  <2>3. CASE Return(t)
    BY <2>1, <2>2, <2>3, UnlockStep
  <2>4. ASSUME NEW x, Carry(t, "out", x)
        PROVE  Steps(t)
    <3>1. /\ ThrOK' /\ thr'[t].pc = "out" /\ SameCall(thr'[t], thr[t])
          /\ \A s \in Threads : s # t => thr'[s] = thr[s]
      BY <2>4, CarryMoves DEF Begins
    <3>2. Advances(t) /\ PlacedAt(t)'
      BY <2>1, <3>1 DEF Begins, Advances, PlacedAt
    <3>3. Unlocks(t, thr[t].f)
      BY <2>1, <2>2, <3>1 DEF Unlock, Unlocks, Holding
    <3>4. QED
      BY <2>2, <3>2, <3>3 DEF MutexStep, Steps
  <2>5. QED
    BY <2>1, <2>3, <2>4
<1>8. CASE QueueOut(t)
  BY <1>8, GotoStep DEF QueueOut, At, Free, HoldPcs, FreePcs
<1>9. CASE QueueSend(t)
  BY <1>9, ReturnStep, SendStep DEF QueueSend, At, Free, HoldPcs
<1>10. CASE QueueCheck(t)
  BY <1>10, <1>0, UnlockStep, Names DEF QueueCheck, At
<1>11. CASE ReadEnter(t)
  BY <1>11, ReturnStep, GotoStep DEF ReadEnter, At, HoldPcs, FreePcs
<1>12. CASE ReadWait(t)
  <2>1. thr[t].pc = "wait" /\ mutex' = mutex
    BY <1>12 DEF ReadWait, At
  <2>2. CASE Return(t)
    BY <2>1, <2>2, <1>12, ReturnStep DEF ReadWait, HoldPcs
  <2>3. CASE \E x : thr' = [thr EXCEPT ![t].pc = "count", ![t].e = x]
    BY <2>1, <2>3, CarryStep DEF Carry, HoldPcs, FreePcs
  <2>4. QED
    BY <1>12, <2>2, <2>3 DEF ReadWait
<1>13. CASE ReadCount(t)
  BY <1>13, ReturnStep DEF ReadCount, At, Free, HoldPcs
<1>14. QED
  BY <1>1, <1>2, <1>3, <1>4, <1>5, <1>6, <1>7, <1>8, <1>9, <1>10, <1>11, <1>12, <1>13
     DEF Elements

\* A step of a thread is a new call or moves a call on.
LEMMA ThreadSteps ==
  ASSUME NEW t \in Threads, ThrOK, Calling, Placed, Held, Thread(t)
  PROVE  Call(t) \/ Steps(t)
<1>1. CASE Call(t)
  BY <1>1
<1>2. ASSUME Devices(t) \/ GraphCalls(t) \/ FifoCalls(t) \/ Elements(t)
      PROVE  Begins(t)
  <2>1. usage' = usage
    BY <1>2 DEF Devices, OpenEnter, OpenMonitor, CloseEnter, Close, Destroy, GraphCalls,
      GAllocEnter, GAllocSend, GAllocData, GAllocCheck, GAllocMemory, GAllocLink, GAllocLinked,
      GDestroyCreated, GDestroyEnter, GDestroySend, GDestroyCheck, GDestroyFree, StateEnter,
      StateSend, StateCheck, StateSet, FifoCalls, SetType, SetDesc, FAllocRead, FAllocFind, FAllocLink,
      FAllocSend, FAllocCheck, FDestroyCreated, FDestroyEnter, FDestroySend, FDestroyCheck,
      FDestroyFree, Elements, WriteEnter, WriteSend, WriteCount, QueueEnter, QueueIn,
        QueueDrain,
      QueueTake, QueueOut, QueueSend, QueueCheck, ReadEnter, ReadWait, ReadCount
  <2>2. thr[t].pc # "idle"
    BY <1>2 DEF Devices, OpenEnter, OpenMonitor, CloseEnter, Close, Destroy, GraphCalls,
      GAllocEnter, GAllocSend, GAllocData, GAllocCheck, GAllocMemory, GAllocLink, GAllocLinked,
      GDestroyCreated, GDestroyEnter, GDestroySend, GDestroyCheck, GDestroyFree, StateEnter,
      StateSend, StateCheck, StateSet, FifoCalls, SetType, SetDesc, FAllocRead, FAllocFind, FAllocLink,
      FAllocSend, FAllocCheck, FDestroyCreated, FDestroyEnter, FDestroySend, FDestroyCheck,
      FDestroyFree, Elements, WriteEnter, WriteSend, WriteCount, QueueEnter, QueueIn,
        QueueDrain,
      QueueTake, QueueOut, QueueSend, QueueCheck, ReadEnter, ReadWait, ReadCount, At
  <2>3. QED
    BY <2>1, <2>2 DEF Begins
<1>3. CASE Devices(t) \/ GraphCalls(t) \/ FifoCalls(t) \/ Elements(t)
  BY <1>2, <1>3, OpenSteps, CloseSteps, GraphSteps, FifoSteps, ElementSteps DEF Devices
<1>4. QED
  BY <1>1, <1>3 DEF Thread

-----------------------------------------------------------------------------
(* Every thread is at a place of its call, and every mutex has the holder    *)
(* that the places tell.                                                     *)

HoldInv == ThreadInv /\ Held

LEMMA InitHold == Init => HoldInv
<1> SUFFICES ASSUME Init PROVE HoldInv
  OBVIOUS
<1>1. usage \in Usages /\ thr = [t \in Threads |-> Idle] /\ mutex = [m \in Mutexes |-> None]
  BY DEF Init
<1>2. ThrOK /\ Calling
  BY <1>1 DEF ThrOK, Calling, Idle, ThrFields
<1>3. Placed /\ Busy = {}
  BY <1>1 DEF Placed, PlacedAt, Busy, Idle
<1>4. Held
  BY <1>1 DEF Held, Holding, Idle
<1>5. QED
  BY <1>2, <1>3, <1>4 DEF HoldInv, ThreadInv, Apart

LEMMA CallHold ==
  ASSUME HoldInv, NEW t \in Threads, Call(t)
  PROVE  /\ HoldInv'
         /\ mutex' = mutex /\ resp' = resp
         /\ \A s \in Threads : s # t => thr'[s] = thr[s]
         /\ thr[t].pc = "idle" /\ thr'[t].pc = "enter"
<1> USE DEF HoldInv, ThreadInv
<1>1. PICK c \in usage.calls[t] :
        /\ Allowed(c)
        /\ thr' = [thr EXCEPT ![t] =
             [Idle EXCEPT !.pc = "enter", !.op = c.op, !.g = c.g, !.f = c.f, !.o = c.o]]
  BY DEF Call
<1>2. thr[t].pc = "idle" /\ mutex' = mutex /\ resp' = resp /\ usage' = usage
  BY DEF Call
<1>3. /\ ThrOK'
      /\ \A s \in Threads : s # t => thr'[s] = thr[s]
      /\ thr'[t].pc = "enter" /\ SameCall(thr'[t], c)
  BY <1>1, <1>2 DEF ThrOK, Idle, ThrFields, SameCall
<1>4. Calling' /\ Placed'
  BY <1>2, <1>3 DEF Calling, Placed, PlacedAt
<1>5. Apart'
  <2>1. Busy' = Busy \cup {t} /\ t \notin Busy
    BY <1>2, <1>3 DEF Busy
  <2>2. \A s \in Busy : thr'[s] = thr[s]
    BY <1>3, <2>1 DEF Busy
  <2>3. Objects(thr'[t]) = Objects(c)
    BY <1>3 DEF Objects, SameCall
  <2>4. ASSUME NEW s \in Busy
        PROVE  /\ {thr'[t].op, thr'[s].op} \cap DeviceOps = {}
               /\ {thr'[t].op, thr'[s].op} \cap ObjectOps # {} =>
                    Objects(thr'[t]) \cap Objects(thr'[s]) = {}
    BY <1>1, <1>3, <2>2, <2>3 DEF Allowed, SameCall
  <2>5. SUFFICES ASSUME NEW x \in Busy', NEW y \in Busy', x # y
                 PROVE  /\ {thr'[x].op, thr'[y].op} \cap DeviceOps = {}
                        /\ {thr'[x].op, thr'[y].op} \cap ObjectOps # {} =>
                             Objects(thr'[x]) \cap Objects(thr'[y]) = {}
    BY DEF Apart, Objects
  <2>6. CASE x = t
    BY <2>1, <2>4, <2>5, <2>6
  <2>7. CASE y = t
    BY <2>1, <2>4, <2>5, <2>7
  <2>8. CASE x # t /\ y # t
    BY <2>1, <2>2, <2>5, <2>8 DEF Apart
  <2>9. QED
    BY <2>6, <2>7, <2>8
<1>6. Held'
  BY <1>2, <1>3 DEF Held, Holding
<1>7. QED
  BY <1>2, <1>3, <1>4, <1>5, <1>6

\* While a device operation is under way, no other thread is in a call.
LEMMA CloseIsAlone ==
  ASSUME HoldInv, NEW t \in Threads,
           thr[t].pc \in {"close", "monitor"} \/ thr[t].op \in DeviceOps,
         thr[t].pc # "idle", NEW s \in Threads, s # t
  PROVE  thr[s].pc = "idle"
<1>1. thr[t].op \in DeviceOps
  BY DEF HoldInv, ThreadInv, Placed, PlacedAt, DeviceOps
<1>2. QED
  BY <1>1 DEF HoldInv, ThreadInv, Apart, Busy

LEMMA StepsHold ==
  ASSUME HoldInv, NEW t \in Threads, Steps(t)
  PROVE  HoldInv'
<1> USE DEF HoldInv
<1>0. \A s \in Threads : s # t => thr'[s] = thr[s]
  BY DEF Steps, Advances
<1>1. ThreadInv'
  <2>1. usage' = usage
    BY DEF Steps, Advances
  <2>2. ThrOK' /\ Calling' /\ Apart'
    BY <2>1, AdvanceKeeps DEF ThreadInv, Steps, Advances
  <2>3. Placed'
    BY <1>0 DEF ThreadInv, Steps, Placed, PlacedAt
  <2>4. QED
    BY <2>2, <2>3 DEF ThreadInv
<1>2. \A s \in Threads, m \in Mutexes : s # t => (Holding(s, m)' <=> Holding(s, m))
  BY <1>0 DEF Holding
<1>3. CASE \E k \in Mutexes : Locks(t, k)
  BY <1>1, <1>2, <1>3, Names DEF Locks, Held
<1>4. CASE \E k \in Mutexes : Unlocks(t, k)
  BY <1>1, <1>2, <1>4 DEF Unlocks, Held
<1>5. CASE Leaves(t)
  BY <1>1, <1>2, <1>5 DEF Leaves, Held
<1>6. CASE Keeps(t)
  <2>1. \A m \in Mutexes : ~Holding(t, m)'
    BY <1>6 DEF Keeps, Holding, Idle
  <2>2. QED
    BY <1>1, <1>2, <1>6, <2>1, Names DEF Keeps, Held
<1>7. CASE Closes(t)
  <2>1. \A m \in Mutexes : ~Holding(t, m)'
    BY <1>7 DEF Closes, Holding
  <2>2. \A s \in Threads, m \in Mutexes : s # t => ~Holding(s, m)
    BY <1>7, CloseIsAlone DEF Closes, Holding
  <2>3. mutex' \in [Mutexes -> Threads \cup {None}]
    BY <1>7 DEF Closes, Held
  <2>4. QED
    BY <1>1, <1>2, <2>1, <2>2, <2>3 DEF Held
<1>8. QED
  BY <1>1, <1>3, <1>4, <1>5, <1>6, <1>7 DEF Steps, MutexStep

LEMMA StepHold == HoldInv /\ [Next]_vars => HoldInv'
<1> SUFFICES ASSUME HoldInv, [Next]_vars PROVE HoldInv'
  OBVIOUS
<1>1. CASE UNCHANGED vars
  BY <1>1 DEF vars, HoldInv, ThreadInv, ThrOK, Calling, Placed, PlacedAt, Apart, Busy, Held,
     Holding
<1>2. CASE StickRuns
  BY <1>2 DEF StickRuns, HoldInv, ThreadInv, ThrOK, Calling, Placed, PlacedAt, Apart, Busy,
     Held,
     Holding
<1>3. ASSUME NEW t \in Threads, Thread(t)
      PROVE  HoldInv'
  BY <1>3, ThreadSteps, CallHold, StepsHold DEF HoldInv, ThreadInv
<1>4. QED
  BY <1>1, <1>2, <1>3 DEF Next

\* The places of the threads and the mutexes agree, whatever fails: whoever is past
\* the lock of a mutex and before its unlock holds it, and nobody else is there
\* (pthread_mutex_lock and pthread_mutex_unlock in mvnc_api.cpp).
THEOREM MutexesHeld == Spec => []HoldInv
<1>1. Init => HoldInv
  BY InitHold
<1>2. HoldInv /\ [Next]_vars => HoldInv'
  BY StepHold
<1>3. QED
  BY <1>1, <1>2, PTL DEF Spec

-----------------------------------------------------------------------------
(* The graph monitor stream has one request and one answer on it at a time.  *)

\* The answer on the stream is that to the request of the holder of graph_streamm,
\* and a refusal is one that the use allows.
AnswerOf(t, ok) == [t |-> t, op |-> thr[t].op, ok |-> ok]
RespInv ==
  usage.failing \cap Leaving = {} =>
    \/ resp = <<>>
    \/ \E t \in Threads, ok \in BOOLEAN :
         /\ resp = <<AnswerOf(t, ok)>>
         /\ thr[t].pc \in {"data", "check"}
         /\ ok \/ Fails(t, "refuse")

\* What a step of a call does to the stream.
Sends(t) ==
  /\ mutex["gstream"] = None
  /\ thr'[t].pc \in {"data", "check"} /\ thr'[t].op = thr[t].op
  /\ \E ok \in Answers(t) : resp' = Answer(t, ok)
Reads(t) == thr[t].pc = "check" /\ \E ok \in BOOLEAN : Checked(t, ok)
WritesGraph(t) ==
  /\ At(t, "GALLOC", "data") /\ resp' = resp
  /\ Fails(t, "data") \/ (thr'[t].pc = "check" /\ thr'[t].op = thr[t].op)
Quiet(t) == resp' = resp /\ thr[t].pc \notin {"data", "check"}
RespStep(t) == Sends(t) \/ Reads(t) \/ WritesGraph(t) \/ Quiet(t) \/ resp' = <<>>

LEMMA DeviceResp ==
  ASSUME NEW t \in Threads, Devices(t)
  PROVE  RespStep(t)
  BY DEF Devices, OpenEnter, OpenMonitor, CloseEnter, Close, Destroy, RespStep, Quiet, At

LEMMA SendResp ==
  ASSUME HoldInv, NEW t \in Threads, NEW pc \in {"data", "check"}, NEW ok \in Answers(t),
         Lock("gstream", t), Goto(t, pc), resp' = Answer(t, ok), UNCHANGED usage
  PROVE  RespStep(t)
<1>1. thr'[t].pc = pc /\ thr'[t].op = thr[t].op
  BY GotoMoves DEF HoldInv, ThreadInv, SameCall
<1>2. QED
  BY <1>1 DEF Lock, Sends, RespStep

LEMMA GraphResp ==
  ASSUME HoldInv, NEW t \in Threads, GraphCalls(t)
  PROVE  RespStep(t)
<1>1. CASE GAllocSend(t)
  <2>1. thr[t].pc = "send" /\ Lock("gstream", t) /\ UNCHANGED usage
    BY <1>1 DEF GAllocSend, At
  <2>2. CASE UNCHANGED resp
    BY <2>1, <2>2 DEF RespStep, Quiet
  <2>3. CASE Goto(t, "data") /\ \E ok \in Answers(t) : resp' = Answer(t, ok)
    BY <2>1, <2>3, SendResp
  <2>4. QED
    BY <1>1, <2>2, <2>3 DEF GAllocSend
<1>2. CASE GDestroySend(t)
  <2>1. thr[t].pc = "send" /\ Lock("gstream", t) /\ UNCHANGED usage
    BY <1>2 DEF GDestroySend, At
  <2>2. CASE UNCHANGED resp
    BY <2>1, <2>2 DEF RespStep, Quiet
  <2>3. CASE Goto(t, "check") /\ \E ok \in Answers(t) : resp' = Answer(t, ok)
    BY <2>1, <2>3, SendResp
  <2>4. QED
    BY <1>2, <2>2, <2>3 DEF GDestroySend
<1>3. CASE StateSend(t)
  <2>1. thr[t].pc = "send" /\ UNCHANGED usage
    BY <1>3 DEF StateSend, At
  <2>2. CASE UNCHANGED resp
    BY <2>1, <2>2 DEF RespStep, Quiet
  <2>3. CASE Lock("gstream", t) /\ Goto(t, "check")
               /\ \E ok \in Answers(t) : resp' = Answer(t, ok)
    BY <2>1, <2>3, SendResp
  <2>4. QED
    BY <1>3, <2>2, <2>3 DEF StateSend
<1>4. CASE GAllocCheck(t)
  BY <1>4 DEF GAllocCheck, At, Reads, RespStep
<1>5. CASE GDestroyCheck(t)
  BY <1>5 DEF GDestroyCheck, At, Reads, RespStep
<1>6. CASE StateCheck(t)
  BY <1>6 DEF StateCheck, At, Reads, RespStep
<1>7. CASE GAllocData(t)
  <2>1. At(t, "GALLOC", "data") /\ resp' = resp /\ UNCHANGED usage
          /\ (Fails(t, "data") \/ Goto(t, "check"))
    BY <1>7 DEF GAllocData
  <2>2. Goto(t, "check") => thr'[t].pc = "check" /\ thr'[t].op = thr[t].op
    BY <2>1, GotoMoves DEF HoldInv, ThreadInv, SameCall
  <2>3. QED
    BY <2>1, <2>2 DEF WritesGraph, RespStep
<1>8. CASE \/ GAllocEnter(t) \/ GAllocMemory(t) \/ GAllocLink(t) \/ GAllocLinked(t)
           \/ GDestroyCreated(t) \/ GDestroyEnter(t) \/ GDestroyFree(t) \/ StateEnter(t)
           \/ StateSet(t)
  BY <1>8 DEF GAllocEnter, GAllocMemory, GAllocLink, GAllocLinked, GDestroyCreated,
     GDestroyEnter,
    GDestroyFree, StateEnter, StateSet, At, RespStep, Quiet
<1>9. QED
  BY <1>1, <1>2, <1>3, <1>4, <1>5, <1>6, <1>7, <1>8 DEF GraphCalls

LEMMA FifoResp ==
  ASSUME HoldInv, NEW t \in Threads, FifoCalls(t)
  PROVE  RespStep(t)
<1>1. CASE FAllocSend(t) \/ FDestroySend(t)
  <2>1. thr[t].pc = "send" /\ UNCHANGED usage
    BY <1>1 DEF FAllocSend, FDestroySend, At
  <2>2. CASE UNCHANGED resp
    BY <2>1, <2>2 DEF RespStep, Quiet
  <2>3. CASE Lock("gstream", t) /\ Goto(t, "check")
               /\ \E ok \in Answers(t) : resp' = Answer(t, ok)
    BY <2>1, <2>3, SendResp
  <2>4. QED
    BY <1>1, <2>2, <2>3 DEF FAllocSend, FDestroySend
<1>2. CASE FAllocCheck(t)
  BY <1>2 DEF FAllocCheck, At, Reads, RespStep
<1>3. CASE FDestroyCheck(t)
  BY <1>3 DEF FDestroyCheck, At, Reads, RespStep
<1>4. CASE \/ SetType(t) \/ SetDesc(t) \/ FAllocRead(t) \/ FAllocLink(t)
           \/ FDestroyCreated(t) \/ FDestroyEnter(t) \/ FDestroyFree(t)
  BY <1>4 DEF SetType, SetDesc, FAllocRead, FAllocLink, FDestroyCreated, FDestroyEnter,
    FDestroyFree, At, RespStep, Quiet
<1>5. CASE FAllocFind(t)
  BY <1>5 DEF FAllocFind, At, RespStep, Quiet
<1>6. QED
  BY <1>1, <1>2, <1>3, <1>4, <1>5 DEF FifoCalls

LEMMA ElementResp ==
  ASSUME HoldInv, NEW t \in Threads, Elements(t)
  PROVE  RespStep(t)
<1>1. CASE QueueSend(t)
  <2>1. thr[t].pc = "send" /\ UNCHANGED usage
    BY <1>1 DEF QueueSend, At
  <2>2. CASE UNCHANGED resp
    BY <2>1, <2>2 DEF RespStep, Quiet
  <2>3. CASE Lock("gstream", t) /\ Goto(t, "check")
               /\ \E ok \in Answers(t) : resp' = Answer(t, ok)
    BY <2>1, <2>3, SendResp
  <2>4. QED
    BY <1>1, <2>2, <2>3 DEF QueueSend
<1>2. CASE QueueCheck(t)
  BY <1>2 DEF QueueCheck, At, Reads, RespStep
<1>3. CASE WriteEnter(t)
  BY <1>3 DEF WriteEnter, At, RespStep, Quiet
<1>4. CASE \/ WriteSend(t) \/ WriteCount(t) \/ QueueEnter(t) \/ QueueIn(t) \/ QueueDrain(t)
           \/ QueueOut(t) \/ ReadEnter(t) \/ ReadWait(t)
  BY <1>4 DEF WriteSend, WriteCount, QueueEnter, QueueIn, QueueDrain, QueueOut, ReadEnter,
    ReadWait, At, RespStep, Quiet
<1>5. CASE QueueTake(t) \/ ReadCount(t)
  BY <1>5 DEF QueueTake, ReadCount, At, RespStep, Quiet
<1>6. QED
  BY <1>1, <1>2, <1>3, <1>4, <1>5 DEF Elements

\* A thread at a place that reads an answer holds graph_streamm, and no other is at
\* one.
LEMMA OneReader ==
  ASSUME HoldInv, NEW s \in Threads, NEW t \in Threads,
         thr[s].pc \in {"data", "check"}, thr[t].pc \in {"data", "check"}
  PROVE  s = t /\ mutex["gstream"] = t
  BY Names DEF HoldInv, Held, Holding

LEMMA AppendToNone == \A x : Append(<<>>, x) = <<x>>
  OBVIOUS

LEMMA StepsResp ==
  ASSUME HoldInv, RespInv, NEW t \in Threads, RespStep(t), UNCHANGED usage,
         \A s \in Threads : s # t => thr'[s] = thr[s]
  PROVE  RespInv'
<1> SUFFICES ASSUME usage.failing \cap Leaving = {}
             PROVE  RespInv'
  BY DEF RespInv
<1>1. CASE resp = <<>>
  <2>1. CASE Sends(t)
    <3>1. PICK ok \in Answers(t) : resp' = Answer(t, ok)
      BY <2>1 DEF Sends
    <3>2. resp' = <<[t |-> t, op |-> thr[t].op, ok |-> ok]>>
      BY <1>1, <3>1, AppendToNone DEF Answer
    <3>6. ok \in BOOLEAN
      BY DEF Answers
    <3>3. ok \/ Fails(t, "refuse")
      BY <3>1 DEF Answers
    <3>4. thr'[t].op = thr[t].op /\ thr'[t].pc \in {"data", "check"}
      BY <2>1 DEF Sends
    <3>5. (resp = <<AnswerOf(t, ok)>> /\ (ok \/ Fails(t, "refuse")))'
      BY <3>2, <3>3, <3>4 DEF AnswerOf, Fails
    <3>7. QED
      BY <3>4, <3>5, <3>6 DEF RespInv
  <2>2. CASE Reads(t)
    <3>1. resp' = <<>>
      BY <1>1, <2>2 DEF Reads, Checked
    <3>2. QED
      BY <3>1 DEF RespInv
  <2>3. CASE WritesGraph(t) \/ Quiet(t) \/ resp' = <<>>
    BY <1>1, <2>3 DEF WritesGraph, Quiet, RespInv
  <2>4. QED
    BY <2>1, <2>2, <2>3 DEF RespStep
<1>2. ASSUME NEW s \in Threads, NEW ok \in BOOLEAN, resp = <<AnswerOf(s, ok)>>,
             thr[s].pc \in {"data", "check"}, ok \/ Fails(s, "refuse")
      PROVE  RespInv'
  <2>1. mutex["gstream"] = s /\ s # None
    BY <1>2, OneReader, Names
  <2>2. ~Sends(t)
    BY <2>1 DEF Sends
  <2>3. CASE Reads(t)
    <3>1. t = s
      BY <1>2, <2>3, OneReader DEF Reads
    <3>2. thr[t].op \in Ops
      BY <1>2, <3>1, CallHas DEF HoldInv, ThreadInv
    <3>3. ~Fails(t, "check")
      BY <3>2 DEF Fails, Leaving
    <3>4. resp' = Tail(resp)
      BY <2>3, <3>3 DEF Reads, Checked
    <3>5. resp' = <<>>
      BY <1>2, <3>4
    <3>6. QED
      BY <3>5 DEF RespInv
  <2>4. CASE WritesGraph(t)
    <3>1. t = s
      BY <1>2, <2>4, OneReader DEF WritesGraph, At
    <3>2. ~Fails(t, "data")
      BY <2>4 DEF WritesGraph, At, Fails, Leaving
    <3>3. thr'[t].pc = "check" /\ thr'[t].op = thr[t].op /\ resp' = resp
      BY <2>4, <3>2 DEF WritesGraph
    <3>4. QED
      BY <1>2, <3>1, <3>3 DEF RespInv, AnswerOf, Fails
  <2>5. CASE Quiet(t)
    <3>1. t # s
      BY <1>2, <2>5 DEF Quiet
    <3>2. thr'[s] = thr[s] /\ resp' = resp
      BY <2>5, <3>1 DEF Quiet
    <3>3. QED
      BY <1>2, <3>2 DEF RespInv, AnswerOf, Fails
  <2>6. CASE resp' = <<>>
    BY <2>6 DEF RespInv
  <2>7. QED
    BY <2>2, <2>3, <2>4, <2>5, <2>6 DEF RespStep
<1>3. QED
  BY <1>1, <1>2 DEF RespInv

LEMMA StepResp == HoldInv /\ RespInv /\ [Next]_vars => RespInv'
<1> SUFFICES ASSUME HoldInv, RespInv, [Next]_vars PROVE RespInv'
  OBVIOUS
<1>1. CASE UNCHANGED vars
  BY <1>1 DEF vars, RespInv, AnswerOf, Fails
<1>2. CASE StickRuns
  BY <1>2 DEF StickRuns, RespInv, AnswerOf, Fails
<1>3. ASSUME NEW t \in Threads, Thread(t)
      PROVE  RespInv'
  <2>1. /\ UNCHANGED usage
        /\ \A s \in Threads : s # t => thr'[s] = thr[s]
    BY <1>3, ThreadSteps, CallHold DEF HoldInv, ThreadInv, Steps, Advances, Call
  <2>2. RespStep(t)
    <3>1. CASE Call(t)
      BY <3>1, CallHold DEF RespStep, Quiet
    <3>2. QED
      BY <1>3, <3>1, DeviceResp, GraphResp, FifoResp, ElementResp DEF Thread
  <2>3. QED
    BY <2>1, <2>2, StepsResp
<1>4. QED
  BY <1>1, <1>2, <1>3 DEF Next

\* The answer that a call reads is the one to its own request, as long as no exit
\* leaves an answer behind (sendGraphMonitorRequest, checkGraphMonitorResponse).
THEOREM AnswersAreOwn == Spec => []ResponseOwn
<1>1. Init => HoldInv /\ RespInv
  BY InitHold DEF Init, RespInv
<1>2. HoldInv /\ RespInv /\ [Next]_vars => (HoldInv /\ RespInv)'
  BY StepHold, StepResp
<1>3. HoldInv /\ RespInv => ResponseOwn
  <2> SUFFICES ASSUME HoldInv, RespInv, usage.failing \cap Leaving = {}
               PROVE  /\ Len(resp) <= 1
                      /\ resp # <<>> => /\ mutex["gstream"] = resp[1].t
                                        /\ thr[resp[1].t].op = resp[1].op
                                        /\ thr[resp[1].t].pc \in {"data", "check"}
    BY DEF ResponseOwn
  <2>1. CASE resp = <<>>
    BY <2>1
  <2>2. ASSUME NEW s \in Threads, NEW ok \in BOOLEAN, resp = <<AnswerOf(s, ok)>>,
               thr[s].pc \in {"data", "check"}
        PROVE  /\ Len(resp) <= 1
               /\ mutex["gstream"] = resp[1].t
               /\ thr[resp[1].t].op = resp[1].op
               /\ thr[resp[1].t].pc \in {"data", "check"}
    <3>1. mutex["gstream"] = s
      BY <2>2, OneReader
    <3>2. Len(resp) = 1 /\ resp[1] = AnswerOf(s, ok)
      BY <2>2
    <3>3. resp[1].t = s /\ resp[1].op = thr[s].op
      BY <3>2 DEF AnswerOf
    <3>4. QED
      BY <2>2, <3>1, <3>2, <3>3
  <2>3. QED
    BY <2>1, <2>2 DEF RespInv
<1>4. QED
  BY <1>1, <1>2, <1>3, PTL DEF Spec

-----------------------------------------------------------------------------
(* A mutex is returned by every exit that Keeping does not name.             *)

RecordsOK == DOMAIN dev = {"st", "listed", "monitor"} /\ DOMAIN head = {"graphs", "fifos"}

\* The places of an allocation after the device was found, and of a destruction
\* after the graph was found.
AfterFound(t) ==
  \/ thr[t].op = "GALLOC" /\ thr[t].pc \in {"send", "data", "check", "memory", "link", "linked"}
  \/ thr[t].op = "GDESTROY" /\ thr[t].pc = "send"

\* Without those exits a mutex that is held has its holder at a place that will
\* give it back. The graph monitor stream is there when it is used: the device is
\* listed with it, and has no graphs without it.
Returned ==
  /\ \A m \in Mutexes : mutex[m] # None => \E t \in Threads : mutex[m] = t /\ Holding(t, m)
  /\ \A t \in Threads : thr[t].pc # "stuck"
Monitored ==
  /\ \A t \in Threads : thr[t].pc = "close" => ~dev.listed
  /\ dev.listed => dev.monitor \/ \E t \in Threads : thr[t].pc = "monitor"
  /\ \A t \in Threads : AfterFound(t) => dev.monitor
  /\ head.graphs # None => dev.monitor
KeptInv == RecordsOK /\ (NoneKept => Returned /\ Monitored)

LEMMA InitKept == Init => KeptInv
<1> SUFFICES ASSUME Init PROVE KeptInv
  OBVIOUS
<1>1. /\ thr = [t \in Threads |-> Idle] /\ mutex = [m \in Mutexes |-> None]
      /\ usage \in Usages
      /\ head = [graphs |-> First(usage.ready.graphs), fifos |-> First(usage.ready.fifos)]
  BY DEF Init
<1>2. dev = IF usage.ready.open THEN [st |-> "opened", listed |-> TRUE, monitor |-> TRUE]
            ELSE [st |-> "created", listed |-> FALSE, monitor |-> FALSE]
  BY DEF Init
<1>3. RecordsOK
  BY <1>1, <1>2 DEF RecordsOK
<1>4. Returned
  BY <1>1 DEF Returned, Idle
<1>5. Monitored
  <2>1. dev.listed => dev.monitor
    BY <1>2
  <2>2. \A t \in Threads : ~AfterFound(t)
    BY <1>1 DEF AfterFound, Idle
  <2>3. ASSUME head.graphs # None PROVE dev.monitor
    <3>1. usage.ready.graphs # <<>>
      BY <1>1, <2>3 DEF First
    <3>2. usage.ready.open
      BY <1>1, <3>1, NcAssumption DEF IsReady
    <3>3. QED
      BY <1>2, <3>2
  <2>4. \A t \in Threads : thr[t].pc # "close"
    BY <1>1 DEF Idle
  <2>5. QED
    BY <2>1, <2>2, <2>3, <2>4 DEF Monitored
<1>6. QED
  BY <1>3, <1>4, <1>5 DEF KeptInv

\* None of the keeping exits is taken.
LEMMA NoKeepExit ==
  ASSUME HoldInv, RespInv, NoneKept, Monitored, NEW t \in Threads, thr[t].pc # "idle"
  PROVE  ~KeepExit(t)
<1>1. usage.failing \cap Keeping = {}
  BY DEF NoneKept
<1>2. ~(At(t, "GDESTROY", "send") /\ ~dev.monitor)
  BY DEF Monitored, AfterFound, At
<1>3. ASSUME At(t, "GDESTROY", "check"), resp # <<>>, ~Head(resp).ok
      PROVE  FALSE
  <2>1. t \in Callers({"GDESTROY"})
    BY <1>3 DEF HoldInv, ThreadInv, Calling, Callers, SameCall, At
  <2>2. usage.failing \cap Leaving = {}
    BY <2>1 DEF NoneKept
  <2>3. PICK s \in Threads, ok \in BOOLEAN :
          /\ resp = <<AnswerOf(s, ok)>>
          /\ thr[s].pc \in {"data", "check"}
          /\ ok \/ Fails(s, "refuse")
    BY <1>3, <2>2 DEF RespInv
  <2>4. s = t
    BY <1>3, <2>3, OneReader DEF At
  <2>5. Head(resp) = AnswerOf(s, ok)
    BY <2>3
  <2>6. Head(resp).ok = ok
    BY <2>5 DEF AnswerOf
  <2>7. Fails(t, "refuse")
    BY <1>3, <2>3, <2>4, <2>6
  <2>8. QED
    BY <1>1, <1>3, <2>7 DEF Fails, At, Keeping
<1>4. QED
  BY <1>1, <1>2, <1>3 DEF KeepExit

\* The closed sets that List is the intersection of.
Closed(S) == \A x \in S : next[x] \in S \cup {None}

LEMMA InList ==
  ASSUME NEW h, NEW x
  PROVE  x \in List(h) <=>
           /\ x \in Objs
           /\ \A S \in SUBSET Objs : h \in S \cup {None} /\ Closed(S) => x \in S
  BY DEF List, Closed

LEMMA EmptyList == List(None) = {}
<1>1. {} \in SUBSET Objs /\ None \in {} \cup {None} /\ Closed({})
  BY DEF Closed
<1>2. \A x : x \notin List(None)
  BY <1>1, InList
<1>3. QED
  BY <1>2

\* Only ncDeviceOpen and ncDeviceClose change what is known of the device, and only
\* an allocation gives an empty list a graph.
LEMMA DeviceStays ==
  ASSUME HoldInv, NEW t \in Threads, GraphCalls(t) \/ FifoCalls(t) \/ Elements(t), RecordsOK
  PROVE  /\ dev' = dev /\ RecordsOK'
         /\ head'.graphs # None => head.graphs # None \/ At(t, "GALLOC", "linked")
<1>1. CASE GAllocLinked(t)
  BY <1>1 DEF GAllocLinked, RecordsOK
<1>2. CASE GDestroyFree(t)
  <2>1. thr[t].g # None
    BY <1>2, CallHas, NcAssumption DEF GDestroyFree, At, HoldInv, ThreadInv
  <2>2. /\ dev' = dev
        /\ head' = head \/ (head["graphs"] = thr[t].g /\ head' = [head EXCEPT !["graphs"] = next[thr[t].g]])
    <3>1. CASE Removed("graphs", thr[t].g)
      BY <1>2, <3>1 DEF GDestroyFree, Removed
    <3>2. CASE ~Removed("graphs", thr[t].g)
      BY <1>2, <3>2, Zenon DEF GDestroyFree
    <3>3. QED
      BY <3>1, <3>2
  <2>3. QED
    BY <2>1, <2>2 DEF RecordsOK
<1>3. CASE FAllocLink(t)
  BY <1>3 DEF FAllocLink, RecordsOK
<1>4. CASE FDestroyFree(t)
  <2>1. dev' = dev /\ (Removed("fifos", thr[t].f) \/ head' = head)
    BY <1>4, Zenon DEF FDestroyFree
  <2>2. QED
    BY <2>1 DEF Removed, RecordsOK
<1>5. CASE dev' = dev /\ head' = head
  BY <1>5 DEF RecordsOK
<1>6. GraphCalls(t) => GAllocLinked(t) \/ GDestroyFree(t) \/ (dev' = dev /\ head' = head)
  BY DEF GraphCalls, GAllocEnter, GAllocSend, GAllocData, GAllocCheck, GAllocMemory, GAllocLink,
      GDestroyCreated, GDestroyEnter, GDestroySend, GDestroyCheck, StateEnter,
      StateSend, StateCheck, StateSet
<1>7. FifoCalls(t) => FAllocLink(t) \/ FDestroyFree(t) \/ (dev' = dev /\ head' = head)
  <2>1. FAllocFind(t) => dev' = dev /\ head' = head
    BY DEF FAllocFind
  <2>2. QED
    BY <2>1 DEF FifoCalls, SetType, SetDesc, FAllocRead, FAllocSend, FAllocCheck,
       FDestroyCreated, FDestroyEnter, FDestroySend, FDestroyCheck
<1>8. Elements(t) => dev' = dev /\ head' = head
  <2>1. WriteEnter(t) \/ QueueTake(t) \/ ReadCount(t) => dev' = dev /\ head' = head
    BY DEF WriteEnter, QueueTake, ReadCount
  <2>2. QED
    BY <2>1 DEF Elements, WriteSend, WriteCount, QueueEnter, QueueIn, QueueDrain, QueueOut,
       QueueSend, QueueCheck, ReadEnter, ReadWait
<1>9. QED
  BY <1>1, <1>2, <1>3, <1>4, <1>5, <1>6, <1>7, <1>8

\* An allocation or a destruction goes past the search for its device or graph only
\* when it is listed.
LEMMA FoundListed ==
  ASSUME HoldInv, NEW t \in Threads, Steps(t), GraphCalls(t) \/ FifoCalls(t) \/ Elements(t),
         AfterFound(t)'
  PROVE  \/ AfterFound(t)
         \/ thr[t].pc = "enter" /\ dev.listed
         \/ thr[t].pc = "enter" /\ head.graphs # None
<1>1. SameCall(thr'[t], thr[t]) /\ thr'[t].pc # "idle"
  BY DEF Steps, Advances, AfterFound, Idle
<1>2. thr[t].op \in {"GALLOC", "GDESTROY"}
  BY <1>1 DEF AfterFound, SameCall
<1>3. GraphCalls(t)
  BY <1>2 DEF FifoCalls, SetType, SetDesc, FAllocRead, FAllocFind, FAllocLink, FAllocSend,
    FAllocCheck, FDestroyCreated, FDestroyEnter, FDestroySend, FDestroyCheck, FDestroyFree,
    Elements, WriteEnter, WriteSend, WriteCount, QueueEnter, QueueIn, QueueDrain, QueueTake,
    QueueOut, QueueSend, QueueCheck, ReadEnter, ReadWait, ReadCount, At
<1>4. CASE GAllocEnter(t)
  BY <1>1, <1>4, ReturnMoves DEF GAllocEnter, At, HoldInv, ThreadInv
<1>5. CASE GDestroyEnter(t)
  <2>1. CASE thr[t].g \in List(head.graphs)
    BY <1>5, <2>1, EmptyList DEF GDestroyEnter, At
  <2>2. CASE thr[t].g \notin List(head.graphs)
    BY <1>1, <1>5, <2>2, ReturnMoves DEF GDestroyEnter, HoldInv, ThreadInv
  <2>3. QED
    BY <2>1, <2>2
<1>6. CASE \/ GAllocSend(t) \/ GAllocData(t) \/ GAllocCheck(t) \/ GAllocMemory(t)
           \/ GAllocLink(t) \/ GAllocLinked(t) \/ GDestroySend(t)
  BY <1>6 DEF GAllocSend, GAllocData, GAllocCheck, GAllocMemory, GAllocLink, GAllocLinked,
    GDestroySend, At, AfterFound
<1>7. CASE GDestroyCreated(t) \/ GDestroyFree(t)
  <2>1. CASE GDestroyCreated(t)
    BY <1>1, <2>1, ReturnMoves DEF GDestroyCreated, HoldInv, ThreadInv
  <2>2. CASE GDestroyFree(t)
    <3>1. (Return(t) \/ Goto(t, "crashed")) /\ UNCHANGED usage
      BY <2>2, Zenon DEF GDestroyFree
    <3>2. thr'[t].pc \in {"idle", "crashed"}
      BY <3>1, GotoMoves, ReturnMoves DEF HoldInv, ThreadInv
    <3>3. QED
      BY <3>2 DEF AfterFound
  <2>3. QED
    BY <1>7, <2>1, <2>2
<1>8. CASE GDestroyCheck(t)
  <2>1. Goto(t, "free") \/ Return(t)
    BY <1>8 DEF GDestroyCheck
  <2>2. thr[t].op = "GDESTROY" /\ UNCHANGED usage
    BY <1>8 DEF GDestroyCheck, At
  <2>3. thr'[t].pc \in {"free", "idle"}
    BY <2>1, <2>2, GotoMoves, ReturnMoves DEF HoldInv, ThreadInv
  <2>4. QED
    BY <1>1, <2>2, <2>3 DEF AfterFound, SameCall
<1>9. CASE StateEnter(t) \/ StateSend(t) \/ StateCheck(t) \/ StateSet(t)
  BY <1>2, <1>9 DEF StateEnter, StateSend, StateCheck, StateSet, At
<1>10. QED
  BY <1>3, <1>4, <1>5, <1>6, <1>7, <1>8, <1>9 DEF GraphCalls

\* A mutex that is held after a step of a call has its holder at its place.
LEMMA StepsReturned ==
  ASSUME HoldInv, RespInv, NoneKept, Returned, Monitored, NEW t \in Threads, Steps(t)
  PROVE  \A m \in Mutexes :
           mutex'[m] # None => \E s \in Threads : mutex'[m] = s /\ Holding(s, m)'
<1> SUFFICES ASSUME NEW m \in Mutexes, mutex'[m] # None
             PROVE  \E s \in Threads : mutex'[m] = s /\ Holding(s, m)'
  OBVIOUS
<1>1. \A s \in Threads : s # t => (Holding(s, m)' <=> Holding(s, m))
  BY DEF Steps, Advances, Holding
<1>2. /\ mutex \in [Mutexes -> Threads \cup {None}]
      /\ \A s \in Threads : Holding(s, m) => mutex[m] = s
  BY DEF HoldInv, Held
<1>3. mutex[m] # None => \E s \in Threads : mutex[m] = s /\ Holding(s, m)
  BY DEF Returned
<1>4. ASSUME NEW k \in Mutexes, Locks(t, k)
      PROVE  \E s \in Threads : mutex'[m] = s /\ Holding(s, m)'
  <2>1. CASE m = k
    BY <1>2, <1>4, <2>1 DEF Locks
  <2>2. CASE m # k
    <3>1. mutex'[m] = mutex[m] /\ (Holding(t, m) => Holding(t, m)')
      BY <1>2, <1>4, <2>2 DEF Locks
    <3>2. QED
      BY <1>1, <1>3, <3>1
  <2>3. QED
    BY <2>1, <2>2
<1>5. ASSUME \/ \E k \in Mutexes : Unlocks(t, k)
             \/ Leaves(t)
      PROVE  \E s \in Threads : mutex'[m] = s /\ Holding(s, m)'
  <2>1. mutex'[m] = mutex[m] /\ (Holding(t, m) => Holding(t, m)')
    BY <1>2, <1>5 DEF Unlocks, Leaves
  <2>2. QED
    BY <1>1, <1>3, <2>1
<1>6. ~Keeps(t)
  BY NoKeepExit DEF Keeps, Steps, Advances
<1>7. CASE Closes(t)
  <2>1. m \notin {"global", "data", "gstream"} /\ mutex'[m] = mutex[m]
    BY <1>2, <1>7 DEF Closes
  <2>2. \A s \in Threads : ~Holding(s, m)
    BY <1>7, <2>1, CloseIsAlone DEF Closes, Holding
  <2>3. QED
    BY <1>3, <2>1, <2>2
<1>8. QED
  BY <1>4, <1>5, <1>6, <1>7 DEF Steps, MutexStep

\* Only the failure that Keeping names, or a device without its monitor stream,
\* leads to the place that never returns.
LEMMA NeverStuck ==
  ASSUME HoldInv, NoneKept, Returned, Monitored, NEW t \in Threads, Thread(t), Steps(t)
  PROVE  thr'[t].pc # "stuck"
<1> SUFFICES ASSUME thr'[t].pc = "stuck" PROVE FALSE
  OBVIOUS
<1>1. thr'[t].op = thr[t].op /\ thr'[t].op = "GALLOC" /\ thr[t].pc # "stuck"
        /\ thr[t].pc # "idle"
  BY DEF Returned, Steps, Advances, PlacedAt, SameCall, Idle
<1>2. GAllocSend(t)
  <2>1. GraphCalls(t)
    BY <1>1 DEF Thread, Call, Devices, OpenEnter, OpenMonitor, CloseEnter, Close, Destroy,
      FifoCalls, SetType, SetDesc, FAllocRead, FAllocFind, FAllocLink, FAllocSend,
      FAllocCheck, FDestroyCreated, FDestroyEnter, FDestroySend, FDestroyCheck, FDestroyFree,
      Elements, WriteEnter, WriteSend, WriteCount, QueueEnter, QueueIn, QueueDrain, QueueTake,
      QueueOut, QueueSend, QueueCheck, ReadEnter, ReadWait, ReadCount, At, HoldInv, ThreadInv,
      Placed, PlacedAt
  <2>2. \/ GAllocSend(t)
        \/ /\ UNCHANGED usage
           /\ Return(t) \/ Goto(t, "send") \/ Goto(t, "check") \/ Goto(t, "memory")
                \/ Goto(t, "link") \/ Goto(t, "linked")
    BY <1>1, <2>1 DEF GraphCalls, GAllocEnter, GAllocData, GAllocCheck, GAllocMemory,
       GAllocLink,
      GAllocLinked, GDestroyCreated, GDestroyEnter, GDestroySend, GDestroyCheck, GDestroyFree,
      StateEnter, StateSend, StateCheck, StateSet, At
  <2>3. QED
    BY <2>2, GotoMoves, ReturnMoves DEF HoldInv, ThreadInv
<1>3. thr[t].pc = "send" /\ UNCHANGED usage
  BY <1>2 DEF GAllocSend, At
<1>4. dev.monitor
  BY <1>1, <1>3 DEF Monitored, AfterFound
<1>5. ~Fails(t, "send")
  BY <1>1 DEF NoneKept, Fails, Keeping
<1>6. Goto(t, "data")
  BY <1>2, <1>4, <1>5 DEF GAllocSend, SendFails
<1>7. QED
  BY <1>3, <1>6, GotoMoves DEF HoldInv, ThreadInv

\* The device is listed with its monitor stream.
LEMMA DevicesMonitored ==
  ASSUME HoldInv, RecordsOK, NoneKept, Monitored, NEW t \in Threads, Devices(t), Steps(t)
  PROVE  RecordsOK' /\ Monitored'
<1>0. \A s \in Threads : s # t => thr'[s] = thr[s]
  BY DEF Steps, Advances
<1>1. thr[t].op \in DeviceOps /\ thr[t].pc # "idle"
  BY DEF Devices, OpenEnter, OpenMonitor, CloseEnter, Close, Destroy, At, DeviceOps, HoldInv,
    ThreadInv, Placed, PlacedAt
<1>2. \A s \in Threads : ~AfterFound(s)'
  <2>1. ~AfterFound(t)'
    BY <1>1 DEF Steps, Advances, SameCall, Idle, AfterFound, DeviceOps
  <2>2. ASSUME NEW s \in Threads, s # t
        PROVE  ~AfterFound(s)'
    <3>1. thr[s].pc = "idle"
      BY <1>1, <2>2, CloseIsAlone
    <3>2. QED
      BY <1>0, <2>2, <3>1 DEF AfterFound
  <2>3. QED
    BY <2>1, <2>2
<1>3. \A s \in Threads : thr[s].pc = "monitor" => s = t
  BY <1>1, CloseIsAlone
<1>10. \A s \in Threads : s # t => thr'[s].pc = "idle"
  BY <1>0, <1>1, CloseIsAlone
<1>11. thr[t].op = "OPEN" => thr'[t].pc # "close"
  BY DEF Steps, Advances, PlacedAt, SameCall, Idle
<1>4. CASE OpenEnter(t)
  <2>1. head' = head /\ thr[t].pc # "monitor" /\ UNCHANGED usage /\ thr'[t].pc # "close"
    BY <1>4, <1>11 DEF OpenEnter, At
  <2>2. CASE dev' = dev
    BY <1>0, <1>2, <1>3, <1>10, <2>1, <2>2 DEF RecordsOK, Monitored
  <2>3. CASE Goto(t, "monitor") /\ dev' = [dev EXCEPT !.listed = TRUE]
    <3>1. thr'[t].pc = "monitor"
      BY <2>1, <2>3, GotoMoves DEF HoldInv, ThreadInv
    <3>2. QED
      BY <1>2, <1>10, <2>1, <2>3, <3>1 DEF RecordsOK, Monitored
  <2>4. QED
    BY <1>4, <2>2, <2>3 DEF OpenEnter
<1>5. CASE OpenMonitor(t)
  <2>1. ~Fails(t, "open") /\ head' = head /\ thr'[t].pc # "close"
    BY <1>5, <1>11 DEF OpenMonitor, At, Fails, NoneKept, Keeping
  <2>2. dev' = [dev EXCEPT !.st = "opened", !.monitor = TRUE]
    BY <1>5, <2>1 DEF OpenMonitor
  <2>3. QED
    BY <1>2, <1>10, <2>1, <2>2 DEF RecordsOK, Monitored
<1>6. CASE CloseEnter(t)
  <2>1. head' = head /\ thr[t].pc # "monitor" /\ UNCHANGED usage
    BY <1>6 DEF CloseEnter
  <2>2. CASE dev' = dev /\ Return(t)
    <3>1. thr'[t].pc = "idle"
      BY <2>1, <2>2, ReturnMoves DEF HoldInv, ThreadInv
    <3>2. QED
      BY <1>2, <1>3, <1>10, <2>1, <2>2, <3>1 DEF RecordsOK, Monitored
  <2>3. CASE dev' = [dev EXCEPT !.listed = FALSE]
    BY <1>2, <2>1, <2>3 DEF RecordsOK, Monitored
  <2>4. QED
    BY <1>6, <2>2, <2>3 DEF CloseEnter
<1>7. CASE Close(t)
  <2>1. /\ head' = [graphs |-> None, fifos |-> None]
        /\ dev' = [dev EXCEPT !.st = "closed", !.monitor = FALSE]
        /\ thr[t].pc = "close" /\ UNCHANGED usage
        /\ Return(t) \/ Goto(t, "destroy")
    BY <1>7 DEF Close
  <2>2. ~dev.listed /\ thr'[t].pc # "close"
    BY <2>1, GotoMoves, ReturnMoves DEF Monitored, HoldInv, ThreadInv
  <2>3. QED
    BY <1>2, <1>10, <2>1, <2>2 DEF RecordsOK, Monitored
<1>8. CASE Destroy(t)
  <2>1. /\ head' = head /\ dev' = [dev EXCEPT !.st = "destroyed"] /\ thr[t].pc # "monitor"
        /\ Return(t) /\ UNCHANGED usage
    BY <1>8 DEF Destroy, At
  <2>2. thr'[t].pc = "idle"
    BY <2>1, ReturnMoves DEF HoldInv, ThreadInv
  <2>3. QED
    BY <1>2, <1>3, <1>10, <2>1, <2>2 DEF RecordsOK, Monitored
<1>9. QED
  BY <1>4, <1>5, <1>6, <1>7, <1>8 DEF Devices

\* The other calls change neither.
LEMMA CallsMonitored ==
  ASSUME HoldInv, RecordsOK, NoneKept, Monitored, NEW t \in Threads,
         GraphCalls(t) \/ FifoCalls(t) \/ Elements(t), Steps(t)
  PROVE  RecordsOK' /\ Monitored'
<1>0. \A s \in Threads : s # t => thr'[s] = thr[s]
  BY DEF Steps, Advances
<1>1. /\ dev' = dev /\ RecordsOK'
      /\ head'.graphs # None => head.graphs # None \/ At(t, "GALLOC", "linked")
  BY DeviceStays
<1>2. thr[t].pc # "idle" /\ thr[t].op \notin DeviceOps
  BY DEF GraphCalls, GAllocEnter, GAllocSend, GAllocData, GAllocCheck, GAllocMemory, GAllocLink,
    GAllocLinked, GDestroyCreated, GDestroyEnter, GDestroySend, GDestroyCheck, GDestroyFree,
    StateEnter, StateSend, StateCheck, StateSet,
    FifoCalls, SetType, SetDesc, FAllocRead, FAllocFind, FAllocLink, FAllocSend,
    FAllocCheck, FDestroyCreated, FDestroyEnter, FDestroySend, FDestroyCheck, FDestroyFree,
    Elements, WriteEnter, WriteSend, WriteCount, QueueEnter, QueueIn, QueueDrain, QueueTake,
    QueueOut, QueueSend, QueueCheck, ReadEnter, ReadWait, ReadCount, At, DeviceOps
<1>3. \A s \in Threads : thr[s].pc # "monitor" /\ thr[s].pc # "close"
  <2> SUFFICES ASSUME NEW s \in Threads, thr[s].pc \in {"monitor", "close"} PROVE FALSE
    OBVIOUS
  <2>1. s # t
    BY <1>2 DEF HoldInv, ThreadInv, Placed, PlacedAt, DeviceOps
  <2>2. QED
    BY <1>2, <2>1, CloseIsAlone
<1>4. thr'[t].pc # "close"
  BY <1>2 DEF Steps, Advances, PlacedAt, SameCall, Idle, DeviceOps
<1>5. dev.listed => dev.monitor
  BY <1>3 DEF Monitored
<1>6. AfterFound(t)' => dev.monitor
  BY <1>5, FoundListed DEF Monitored
<1>7. \A s \in Threads : s # t => (AfterFound(s)' <=> AfterFound(s))
  BY <1>0 DEF AfterFound
<1>8. At(t, "GALLOC", "linked") => dev.monitor
  BY DEF Monitored, AfterFound, At
<1>9. QED
  BY <1>0, <1>1, <1>3, <1>4, <1>5, <1>6, <1>7, <1>8 DEF Monitored

LEMMA StepKept == HoldInv /\ RespInv /\ KeptInv /\ [Next]_vars => KeptInv'
<1> SUFFICES ASSUME HoldInv, RespInv, KeptInv, [Next]_vars PROVE KeptInv'
  OBVIOUS
<1>1. CASE UNCHANGED vars
  BY <1>1 DEF vars, KeptInv, RecordsOK, NoneKept, Callers, Returned, Monitored, Holding,
     AfterFound
<1>2. CASE StickRuns
  BY <1>2 DEF StickRuns, KeptInv, RecordsOK, NoneKept, Callers, Returned, Monitored, Holding,
    AfterFound
<1>3. ASSUME NEW t \in Threads, Call(t)
      PROVE  KeptInv'
  <2>1. /\ dev' = dev /\ head' = head /\ usage' = usage /\ mutex' = mutex
        /\ thr[t].pc = "idle" /\ thr'[t].pc = "enter"
        /\ \A s \in Threads : s # t => thr'[s] = thr[s]
    BY <1>3, CallHold DEF Call
  <2>2. RecordsOK' /\ (NoneKept' <=> NoneKept)
    BY <2>1 DEF KeptInv, RecordsOK, NoneKept, Callers
  <2>3. Returned => Returned'
    <3>1. \A s \in Threads, m \in Mutexes : Holding(s, m) => Holding(s, m)'
      BY <2>1 DEF Holding
    <3>2. QED
      BY <2>1, <3>1 DEF Returned
  <2>4. Monitored => Monitored'
    <3>1. \A s \in Threads : AfterFound(s)' => AfterFound(s)
      BY <2>1 DEF AfterFound
    <3>2. QED
      BY <2>1, <3>1 DEF Monitored
  <2>5. QED
    BY <2>2, <2>3, <2>4 DEF KeptInv
<1>4. ASSUME NEW t \in Threads, Thread(t), ~Call(t)
      PROVE  KeptInv'
  <2>1. Steps(t)
    BY <1>4, ThreadSteps DEF HoldInv, ThreadInv
  <2>2. usage' = usage
    BY <2>1 DEF Steps, Advances
  <2>3. NoneKept' <=> NoneKept
    BY <2>2 DEF NoneKept, Callers
  <2>4. RecordsOK'
    <3>1. CASE Devices(t)
      BY <3>1 DEF Devices, OpenEnter, OpenMonitor, CloseEnter, Close, Destroy, KeptInv,
         RecordsOK
    <3>2. QED
      BY <1>4, <3>1, DeviceStays DEF Thread, KeptInv
  <2>5. ASSUME NoneKept
        PROVE  Returned' /\ Monitored'
    <3>1. Monitored'
      BY <1>4, <2>1, <2>5, DevicesMonitored, CallsMonitored DEF Thread, KeptInv
    <3>2. \A s \in Threads : thr'[s].pc # "stuck"
      BY <1>4, <2>1, <2>5, NeverStuck DEF KeptInv, Returned, Steps, Advances
    <3>3. Returned'
      BY <2>1, <2>5, <3>2, StepsReturned DEF KeptInv, Returned
    <3>4. QED
      BY <3>1, <3>3
  <2>6. QED
    BY <2>3, <2>4, <2>5 DEF KeptInv
<1>5. QED
  BY <1>1, <1>2, <1>3, <1>4 DEF Next

\* A call that has returned, with whatever status, holds no mutex, except by the
\* exits that Keeping names (the returns of mvnc_api.cpp between a lock and its
\* unlock).
THEOREM MutexesAreReturned == Spec => []MutexesReturned
<1>1. Init => HoldInv /\ RespInv /\ KeptInv
  BY InitHold, InitKept DEF Init, RespInv
<1>2. HoldInv /\ RespInv /\ KeptInv /\ [Next]_vars => (HoldInv /\ RespInv /\ KeptInv)'
  BY StepHold, StepResp, StepKept
<1>3. KeptInv => MutexesReturned
  BY DEF KeptInv, Returned, MutexesReturned, Holding
<1>4. QED
  BY <1>1, <1>2, <1>3, PTL DEF Spec

-----------------------------------------------------------------------------
(* What the operations do to the fifos and the stick.                        *)

Writes(t) == WriteEnter(t) \/ WriteSend(t) \/ WriteCount(t)
Triggers(t) == QueueEnter(t) \/ QueueIn(t) \/ QueueDrain(t) \/ QueueTake(t) \/ QueueOut(t)
               \/ QueueSend(t) \/ QueueCheck(t)
ReadsElem(t) == ReadEnter(t) \/ ReadWait(t) \/ ReadCount(t)
FifoAllocs(t) == FAllocRead(t) \/ FAllocFind(t) \/ FAllocLink(t) \/ FAllocSend(t) \/ FAllocCheck(t)
FifoDestroys(t) == FDestroyCreated(t) \/ FDestroyEnter(t) \/ FDestroySend(t) \/ FDestroyCheck(t)
                   \/ FDestroyFree(t)

\* A step belongs to the operation of its call.
OpsOf(t) ==
  \/ thr[t].op \in DeviceOps /\ Devices(t)
  \/ thr[t].op \in {"GALLOC", "GDESTROY", "STATE"} /\ GraphCalls(t)
  \/ thr[t].op = "SETTYPE" /\ SetType(t)
  \/ thr[t].op = "SETDESC" /\ SetDesc(t)
  \/ thr[t].op = "FALLOC" /\ FifoAllocs(t)
  \/ thr[t].op = "FDESTROY" /\ FifoDestroys(t)
  \/ thr[t].op = "WRITE" /\ Writes(t)
  \/ thr[t].op = "QUEUE" /\ Triggers(t)
  \/ thr[t].op = "READ" /\ ReadsElem(t)

LEMMA StepOps ==
  ASSUME HoldInv, NEW t \in Threads, Thread(t)
  PROVE  Call(t) \/ (OpsOf(t) /\ thr[t].pc # "idle" /\ Steps(t))
<1>1. CASE Call(t)
  BY <1>1
<1>2. CASE Devices(t)
  <2>1. thr[t].op \in DeviceOps /\ thr[t].pc # "idle"
    BY <1>2 DEF Devices, OpenEnter, OpenMonitor, CloseEnter, Close, Destroy, At, DeviceOps,
       HoldInv,
       ThreadInv, Placed, PlacedAt
  <2>2. QED
    BY <1>1, <1>2, <2>1, ThreadSteps DEF OpsOf, HoldInv, ThreadInv
<1>3. CASE GraphCalls(t)
  <2>1. thr[t].op \in {"GALLOC", "GDESTROY", "STATE"} /\ thr[t].pc # "idle"
    BY <1>3 DEF GraphCalls, GAllocEnter, GAllocSend, GAllocData, GAllocCheck, GAllocMemory,
       GAllocLink, GAllocLinked, GDestroyCreated, GDestroyEnter, GDestroySend, GDestroyCheck,
       GDestroyFree, StateEnter, StateSend, StateCheck, StateSet, At
  <2>2. QED
    BY <1>1, <1>3, <2>1, ThreadSteps DEF OpsOf, HoldInv, ThreadInv
<1>4. CASE FifoCalls(t)
  <2>1. thr[t].pc # "idle" /\ OpsOf(t)
    BY <1>4 DEF FifoCalls, SetType, SetDesc, FAllocRead, FAllocFind, FAllocLink, FAllocSend,
       FAllocCheck, FDestroyCreated, FDestroyEnter, FDestroySend, FDestroyCheck, FDestroyFree,
         At,
       OpsOf, FifoAllocs, FifoDestroys
  <2>2. QED
    BY <1>1, <1>4, <2>1, ThreadSteps DEF HoldInv, ThreadInv
<1>5. CASE Elements(t)
  <2>1. thr[t].pc # "idle" /\ OpsOf(t)
    BY <1>5 DEF Elements, WriteEnter, WriteSend, WriteCount, QueueEnter, QueueIn, QueueDrain,
       QueueTake, QueueOut, QueueSend, QueueCheck, ReadEnter, ReadWait, ReadCount, At,
       OpsOf, Writes, Triggers, ReadsElem
  <2>2. QED
    BY <1>1, <1>5, <2>1, ThreadSteps DEF HoldInv, ThreadInv
<1>6. QED
  BY <1>1, <1>2, <1>3, <1>4, <1>5 DEF Thread

\* A call that goes on keeps what it carries.
Proceeds(t) == Return(t) \/ \E pc : Goto(t, pc)

LEMMA ProceedsDoes ==
  ASSUME HoldInv, NEW t \in Threads, Proceeds(t), UNCHANGED usage
  PROVE  /\ \A s \in Threads : s # t => thr'[s] = thr[s]
         /\ \/ thr'[t] = Idle
            \/ /\ SameCall(thr'[t], thr[t]) /\ thr'[t].e = thr[t].e
               /\ thr'[t].param = thr[t].param /\ thr'[t].seen = thr[t].seen
<1>1. CASE Return(t)
  BY <1>1, ReturnMoves DEF HoldInv, ThreadInv
<1>2. ASSUME NEW pc, Goto(t, pc)
      PROVE  /\ \A s \in Threads : s # t => thr'[s] = thr[s]
             /\ SameCall(thr'[t], thr[t]) /\ thr'[t].e = thr[t].e
             /\ thr'[t].param = thr[t].param /\ thr'[t].seen = thr[t].seen
             /\ thr'[t].pc = pc
  BY <1>2 DEF HoldInv, ThreadInv, ThrOK, Goto, SameCall, ThrFields
<1>3. QED
  BY <1>1, <1>2 DEF Proceeds

\* Where a call goes.
LEMMA GoesTo ==
  ASSUME HoldInv, NEW t \in Threads, UNCHANGED usage
  PROVE  /\ Return(t) => thr'[t] = Idle /\ thr'[t].pc = "idle" /\ \A s \in Threads : s # t
              => thr'[s] = thr[s]
         /\ \A pc : Goto(t, pc) =>
              /\ thr'[t].pc = pc /\ SameCall(thr'[t], thr[t]) /\ thr'[t].e = thr[t].e
              /\ thr'[t].param = thr[t].param /\ thr'[t].seen = thr[t].seen
              /\ \A s \in Threads : s # t => thr'[s] = thr[s]
<1>1. Return(t) => thr'[t] = Idle /\ thr'[t].pc = "idle" /\ \A s \in Threads : s # t
        => thr'[s] = thr[s]
  BY ReturnMoves DEF HoldInv, ThreadInv
<1>2. ASSUME NEW pc, Goto(t, pc)
      PROVE  /\ thr'[t].pc = pc /\ SameCall(thr'[t], thr[t]) /\ thr'[t].e = thr[t].e
             /\ thr'[t].param = thr[t].param /\ thr'[t].seen = thr[t].seen
             /\ \A s \in Threads : s # t => thr'[s] = thr[s]
  BY <1>2 DEF HoldInv, ThreadInv, ThrOK, Goto, SameCall, ThrFields
<1>3. QED
  BY <1>1, <1>2

\* The mutexes of the fifos are those of the elements.
FifoMutexes == \A f \in Fifos : mutex'[f] = mutex[f]

LEMMA OtherMutexes ==
  ASSUME HoldInv, mutex' = mutex \/ (\E m \in Devs : \E x : mutex' = [mutex EXCEPT ![m] = x])
  PROVE  FifoMutexes
  BY Names, NcAssumption DEF HoldInv, Held, FifoMutexes, Devs

LEMMA FifoMutexSet ==
  ASSUME HoldInv, NEW f \in Fifos, NEW x, mutex' = [mutex EXCEPT ![f] = x]
  PROVE  mutex'[f] = x /\ \A h \in Fifos : h # f => mutex'[h] = mutex[h]
  BY DEF HoldInv, Held, Mutexes

LEMMA DevicesDo ==
  ASSUME HoldInv, NEW t \in Threads, Devices(t)
  PROVE  /\ Proceeds(t) /\ FifoMutexes /\ usage' = usage /\ writes' = writes /\ got' = got
         /\ Close(t) \/ UNCHANGED <<fifo, stick>>
<1>1. CASE OpenEnter(t) \/ OpenMonitor(t) \/ CloseEnter(t) \/ Destroy(t)
  <2>1. mutex' = mutex \/ mutex' = [mutex EXCEPT !["global"] = t]
    BY <1>1 DEF OpenEnter, OpenMonitor, CloseEnter, Destroy, Lock, Free
  <2>2. FifoMutexes
    BY <2>1, OtherMutexes DEF Devs
  <2>3. QED
    BY <1>1, <2>2 DEF OpenEnter, OpenMonitor, CloseEnter, Destroy, Proceeds
<1>2. CASE Close(t)
  <2>1. mutex' = [mutex EXCEPT !["global"] = None, !["data"] = None, !["gstream"] = None]
    BY <1>2 DEF Close
  <2>2. FifoMutexes
    BY <2>1, Names DEF HoldInv, Held, FifoMutexes
  <2>3. QED
    BY <1>2, <2>2 DEF Close, Proceeds
<1>3. QED
  BY <1>1, <1>2 DEF Devices

LEMMA GraphsDo ==
  ASSUME HoldInv, NEW t \in Threads, GraphCalls(t)
  PROVE  Proceeds(t) /\ FifoMutexes /\ UNCHANGED <<usage, fifo, stick, writes, got>>
<1>1. mutex' = mutex \/ (\E m \in Devs : \E x : mutex' = [mutex EXCEPT ![m] = x])
  <2>1. \/ mutex' = mutex \/ Unlock("gstream") \/ Unlock("global")
        \/ Lock("gstream", t) \/ Lock("global", t)
    BY DEF GraphCalls, GAllocEnter, GAllocSend, GAllocData, GAllocCheck, GAllocMemory,
       GAllocLink, GAllocLinked, GDestroyCreated, GDestroyEnter, GDestroySend, GDestroyCheck,
       GDestroyFree, StateEnter, StateSend, StateCheck, StateSet, Free
  <2>2. QED
    BY <2>1 DEF Lock, Unlock, Devs
<1>2. FifoMutexes
  BY <1>1, OtherMutexes
<1>3. Proceeds(t) /\ UNCHANGED <<usage, fifo, stick, writes, got>>
    BY DEF GraphCalls, GAllocEnter, GAllocSend, GAllocData, GAllocCheck, GAllocMemory,
       GAllocLink, GAllocLinked, GDestroyCreated, GDestroyEnter, GDestroySend, GDestroyCheck,
       GDestroyFree, StateEnter, StateSend, StateCheck, StateSet, Proceeds
<1>4. QED
  BY <1>2, <1>3

-----------------------------------------------------------------------------
(* Sequences.                                                                *)

IsSeq(s) == \E S : s \in Seq(S)

LEMMA SeqEmpty == IsSeq(<<>>) /\ Len(<<>>) = 0
<1>1. <<>> \in Seq({0})
  OBVIOUS
<1>2. QED
  BY <1>1 DEF IsSeq

LEMMA SeqLen == ASSUME NEW s, IsSeq(s)
                PROVE  Len(s) \in Nat /\ DOMAIN s = 1 .. Len(s) /\ (Len(s) = 0 <=> s = <<>>)
<1>1. PICK S : s \in Seq(S)
  BY DEF IsSeq
<1>2. Len(s) = 0 => s = <<>>
  BY <1>1, EmptySeq
<1>3. QED
  BY <1>1, <1>2

LEMMA SeqAppended ==
  ASSUME NEW s, IsSeq(s), NEW x
  PROVE  /\ IsSeq(Append(s, x)) /\ Len(Append(s, x)) = Len(s) + 1
         /\ \A i \in 1 .. Len(s) : Append(s, x)[i] = s[i]
         /\ Append(s, x)[Len(s) + 1] = x
<1>1. PICK S : s \in Seq(S)
  BY DEF IsSeq
<1>2. DEFINE T == S \cup {x}
<1>3. s \in Seq(T) /\ x \in T
  BY <1>1
<1>4. Append(s, x) \in Seq(T)
  BY <1>3
<1>5. QED
  BY <1>1, <1>3, <1>4 DEF IsSeq

LEMMA SeqTaken ==
  ASSUME NEW s, IsSeq(s), s # <<>>
  PROVE  /\ IsSeq(Tail(s)) /\ Len(Tail(s)) = Len(s) - 1 /\ Len(s) >= 1
         /\ Head(s) = s[1]
         /\ \A i \in 1 .. Len(s) - 1 : Tail(s)[i] = s[i + 1]
<1>1. PICK S : s \in Seq(S)
  BY DEF IsSeq
<1>2. Tail(s) \in Seq(S) /\ Len(s) # 0 /\ Len(s) \in Nat
  BY <1>1, EmptySeq
<1>3. QED
  BY <1>1, <1>2 DEF IsSeq

-----------------------------------------------------------------------------
(* The shape of the fifos and of the stick.                                  *)

FifoFields == {"st", "type", "dev", "writeCount", "consumed", "remaining", "apiRead", "in", "out",
               "graph", "hostSet", "host"}
JobRecords == [f : Fifos, o : Fifos]

FifoShape ==
  /\ fifo = [f \in Fifos |-> fifo[f]]
  /\ \A f \in Fifos : DOMAIN fifo[f] = FifoFields
StickShape ==
  /\ DOMAIN stick = {"jobs", "buf", "out"}
  /\ stick.jobs \in Seq(JobRecords)
  /\ stick.buf = [f \in Fifos |-> stick.buf[f]] /\ stick.out = [f \in Fifos |-> stick.out[f]]
  /\ \A f \in Fifos : IsSeq(stick.buf[f]) /\ IsSeq(stick.out[f])
DataShape == FifoShape /\ StickShape

\* A fifo with other fields, and the rest as it was.
OthersSame(f) == \A h \in Fifos : h # f => fifo'[h] = fifo[h]

LEMMA FifoSet ==
  ASSUME FifoShape, NEW f \in Fifos, NEW r, DOMAIN r = FifoFields,
           fifo' = [fifo EXCEPT ![f] = r]
  PROVE  FifoShape' /\ fifo'[f] = r /\ OthersSame(f)
  BY DEF FifoShape, OthersSame

\* A call goes on with an element, with a parameter, with what it has seen.
WithElement(t, pc, x) == thr' = [thr EXCEPT ![t].pc = pc, ![t].e = x]
WithParam(t, pc, x) == thr' = [thr EXCEPT ![t].pc = pc, ![t].param = x]
WithSeen(t, pc, x) == thr' = [thr EXCEPT ![t].pc = pc, ![t].seen = x]

LEMMA CarriesElement ==
  ASSUME HoldInv, NEW t \in Threads, NEW pc, NEW x, UNCHANGED usage,
         WithElement(t, pc, x)
  PROVE  /\ thr'[t].pc = pc /\ thr'[t].e = x /\ SameCall(thr'[t], thr[t])
         /\ thr'[t].param = thr[t].param /\ thr'[t].seen = thr[t].seen
         /\ \A s \in Threads : s # t => thr'[s] = thr[s]
  BY DEF WithElement, WithParam, WithSeen, HoldInv, ThreadInv, ThrOK, SameCall, ThrFields

LEMMA CarriesParam ==
  ASSUME HoldInv, NEW t \in Threads, NEW pc, NEW x, UNCHANGED usage,
         WithParam(t, pc, x)
  PROVE  /\ thr'[t].pc = pc /\ thr'[t].param = x /\ SameCall(thr'[t], thr[t])
         /\ thr'[t].e = thr[t].e /\ thr'[t].seen = thr[t].seen
         /\ \A s \in Threads : s # t => thr'[s] = thr[s]
  BY DEF WithElement, WithParam, WithSeen, HoldInv, ThreadInv, ThrOK, SameCall, ThrFields

LEMMA CarriesSeen ==
  ASSUME HoldInv, NEW t \in Threads, NEW pc, NEW x, UNCHANGED usage,
         WithSeen(t, pc, x)
  PROVE  /\ thr'[t].pc = pc /\ thr'[t].seen = x /\ SameCall(thr'[t], thr[t])
         /\ thr'[t].e = thr[t].e /\ thr'[t].param = thr[t].param
         /\ \A s \in Threads : s # t => thr'[s] = thr[s]
<1>1. thr'[t].pc = pc /\ thr'[t].seen = x /\ \A s \in Threads : s # t => thr'[s] = thr[s]
  BY DEF WithElement, WithParam, WithSeen, HoldInv, ThreadInv, ThrOK, SameCall, ThrFields
<1>2. SameCall(thr'[t], thr[t]) /\ thr'[t].e = thr[t].e /\ thr'[t].param = thr[t].param
  BY DEF WithElement, WithParam, WithSeen, HoldInv, ThreadInv, ThrOK, SameCall, ThrFields
<1>3. QED
  BY <1>1, <1>2

-----------------------------------------------------------------------------
(* What each operation does to the fifos, the stick and its thread.          *)

\* The counts and the lists of a fifo, in short its elements.
ElementsSame(f) ==
  /\ fifo'[f].type = fifo[f].type
  /\ fifo'[f].writeCount = fifo[f].writeCount /\ fifo'[f].consumed = fifo[f].consumed
  /\ fifo'[f].remaining = fifo[f].remaining /\ fifo'[f].apiRead = fifo[f].apiRead
  /\ fifo'[f].in = fifo[f].in /\ fifo'[f].out = fifo[f].out

OnlyThread(t) == \A s \in Threads : s # t => thr'[s] = thr[s]
KeepsWhat(t) == /\ SameCall(thr'[t], thr[t]) /\ thr'[t].e = thr[t].e
                /\ thr'[t].param = thr[t].param /\ thr'[t].seen = thr[t].seen
Goes(t, pc) == thr'[t].pc = pc /\ KeepsWhat(t)

\* An option of the host.
LEMMA OptionDoes ==
  ASSUME HoldInv, FifoShape, NEW t \in Threads, SetType(t) \/ SetDesc(t)
  PROVE  /\ thr[t].f \in Fifos /\ OthersSame(thr[t].f) /\ FifoShape'
         /\ ElementsSame(thr[t].f) /\ fifo'[thr[t].f].st = fifo[thr[t].f].st
         /\ fifo'[thr[t].f].dev = fifo[thr[t].f].dev
         /\ thr'[t] = Idle /\ OnlyThread(t)
         /\ UNCHANGED <<usage, mutex, dev, head, next, graph, resp, stick, writes, got>>
<1>0. thr[t].f \in Fifos
  BY CallHas DEF HoldInv, ThreadInv, SetType, SetDesc, At
<1>1. CASE fifo' = fifo
  BY <1>0, <1>1, GoesTo DEF SetType, SetDesc, ElementsSame, OthersSame, FifoShape, OnlyThread
<1>2. ASSUME NEW type, SetFifo(t, [F(t) EXCEPT !.host.dataType = type])
      PROVE  /\ OthersSame(thr[t].f) /\ FifoShape'
             /\ ElementsSame(thr[t].f) /\ fifo'[thr[t].f].st = fifo[thr[t].f].st
             /\ fifo'[thr[t].f].dev = fifo[thr[t].f].dev
  <2>1. PICK r : r = [F(t) EXCEPT !.host.dataType = type]
    OBVIOUS
  <2>2. DOMAIN r = FifoFields /\ fifo' = [fifo EXCEPT ![thr[t].f] = r]
    BY <1>0, <1>2, <2>1 DEF FifoShape, F, SetFifo
  <2>3. FifoShape' /\ fifo'[thr[t].f] = r /\ OthersSame(thr[t].f)
    BY <1>0, <2>2, FifoSet
  <2>4. QED
    BY <1>0, <2>1, <2>3 DEF F, FifoFields, ElementsSame, FifoShape
<1>3. ASSUME NEW td, SetFifo(t, [F(t) EXCEPT !.host = td, !.hostSet = TRUE])
      PROVE  /\ OthersSame(thr[t].f) /\ FifoShape'
             /\ ElementsSame(thr[t].f) /\ fifo'[thr[t].f].st = fifo[thr[t].f].st
             /\ fifo'[thr[t].f].dev = fifo[thr[t].f].dev
  <2>1. PICK r : r = [F(t) EXCEPT !.host = td, !.hostSet = TRUE]
    OBVIOUS
  <2>2. DOMAIN r = FifoFields /\ fifo' = [fifo EXCEPT ![thr[t].f] = r]
    BY <1>0, <1>3, <2>1 DEF FifoShape, F, SetFifo
  <2>3. FifoShape' /\ fifo'[thr[t].f] = r /\ OthersSame(thr[t].f)
    BY <1>0, <2>2, FifoSet
  <2>4. QED
    BY <1>0, <2>1, <2>3 DEF F, FifoFields, ElementsSame, FifoShape
<1>4. thr'[t] = Idle /\ OnlyThread(t)
  BY GoesTo DEF SetType, SetDesc, OnlyThread
<1>5. UNCHANGED <<usage, mutex, dev, head, next, graph, resp, stick, writes, got>>
  BY DEF SetType, SetDesc
<1>6. \/ fifo' = fifo
      \/ \E type : SetFifo(t, [F(t) EXCEPT !.host.dataType = type])
      \/ \E td : SetFifo(t, [F(t) EXCEPT !.host = td, !.hostSet = TRUE])
  BY Zenon DEF SetType, SetDesc
<1>7. /\ OthersSame(thr[t].f) /\ FifoShape'
      /\ ElementsSame(thr[t].f) /\ fifo'[thr[t].f].st = fifo[thr[t].f].st
      /\ fifo'[thr[t].f].dev = fifo[thr[t].f].dev
  BY <1>1, <1>2, <1>3, <1>6
<1>8. QED
  BY <1>0, <1>4, <1>5, <1>7

LEMMA FAllocReadDoes ==
  ASSUME HoldInv, NEW t \in Threads, FAllocRead(t)
  PROVE  /\ thr[t].pc = "enter"
         /\ \/ thr'[t] = Idle
            \/ /\ fifo[thr[t].f].st = "created" /\ thr'[t].pc = "find"
               /\ thr'[t].seen = dev.listed /\ SameCall(thr'[t], thr[t])
               /\ thr'[t].e = thr[t].e /\ thr'[t].param = thr[t].param
         /\ OnlyThread(t)
         /\ UNCHANGED <<usage, mutex, dev, head, next, graph, fifo, resp, stick, writes, got>>
<1>1. CASE F(t).st = "created"
  <2>1. thr' = [thr EXCEPT ![t].pc = "find", ![t].seen = dev.listed] /\ usage' = usage
    BY <1>1 DEF FAllocRead
  <2>2. /\ thr'[t].pc = "find" /\ thr'[t].seen = dev.listed /\ SameCall(thr'[t], thr[t])
        /\ thr'[t].e = thr[t].e /\ thr'[t].param = thr[t].param
        /\ \A s \in Threads : s # t => thr'[s] = thr[s]
    BY <2>1, CarriesSeen, Zenon DEF WithSeen
  <2>3. QED
    BY <1>1, <2>1, <2>2 DEF FAllocRead, F, OnlyThread, At
<1>2. CASE F(t).st # "created"
  BY <1>2, GoesTo DEF FAllocRead, OnlyThread, At
<1>3. QED
  BY <1>1, <1>2

LEMMA FAllocFindDoes ==
  ASSUME HoldInv, FifoShape, NEW t \in Threads, FAllocFind(t)
  PROVE  /\ thr[t].f \in Fifos /\ thr[t].pc = "find" /\ OthersSame(thr[t].f) /\ FifoShape'
         /\ fifo'[thr[t].f].st = fifo[thr[t].f].st
         /\ \/ /\ thr'[t] = Idle /\ ElementsSame(thr[t].f) /\ UNCHANGED next
               /\ fifo'[thr[t].f].dev = fifo[thr[t].f].dev
            \/ /\ thr[t].seen # FALSE /\ Goes(t, "link")
               /\ next' = [next EXCEPT ![thr[t].f] = head.fifos]
               /\ fifo'[thr[t].f].type = fifo[thr[t].f].type
               /\ fifo'[thr[t].f].dev = "set"
               /\ fifo'[thr[t].f].writeCount = fifo[thr[t].f].writeCount
               /\ fifo'[thr[t].f].consumed = fifo[thr[t].f].consumed
               /\ fifo'[thr[t].f].remaining = usage.consumers
               /\ fifo'[thr[t].f].apiRead = fifo[thr[t].f].apiRead
               /\ fifo'[thr[t].f].in = <<>> /\ fifo'[thr[t].f].out = <<>>
         /\ OnlyThread(t)
         /\ UNCHANGED <<usage, mutex, dev, head, graph, resp, stick, writes, got>>
<1>0. thr[t].f \in Fifos /\ thr[t].pc = "find" /\ usage' = usage
  BY CallHas DEF HoldInv, ThreadInv, FAllocFind, At
<1>1. UNCHANGED <<usage, mutex, dev, head, graph, resp, stick, writes, got>>
  BY DEF FAllocFind, Free
<1>2. CASE Return(t) /\ fifo' = fifo /\ UNCHANGED next
  <2>1. thr'[t] = Idle /\ OnlyThread(t)
    BY <1>0, <1>2, GoesTo DEF OnlyThread
  <2>2. FifoShape' /\ ElementsSame(thr[t].f) /\ OthersSame(thr[t].f) 
    BY <1>2 DEF FifoShape, ElementsSame, OthersSame
  <2>3. QED
    BY <1>0, <1>1, <1>2, <2>1, <2>2
<1>3. CASE Return(t) /\ SetFifo(t, [F(t) EXCEPT !.graph = usage.desc[thr[t].f]])
             /\ UNCHANGED next
  <2>1. thr'[t] = Idle /\ OnlyThread(t)
    BY <1>0, <1>3, GoesTo DEF OnlyThread
  <2>2. PICK r : r = [F(t) EXCEPT !.graph = usage.desc[thr[t].f]]
    OBVIOUS
  <2>3. DOMAIN r = FifoFields /\ fifo' = [fifo EXCEPT ![thr[t].f] = r]
    BY <1>0, <1>3, <2>2 DEF FifoShape, F, SetFifo
  <2>4. FifoShape' /\ fifo'[thr[t].f] = r /\ OthersSame(thr[t].f)
    BY <1>0, <2>3, FifoSet
  <2>5. ElementsSame(thr[t].f) /\ fifo'[thr[t].f].st = fifo[thr[t].f].st
        /\ fifo'[thr[t].f].dev = fifo[thr[t].f].dev
    BY <1>0, <2>2, <2>4 DEF F, FifoFields, ElementsSame, FifoShape
  <2>6. QED
    BY <1>0, <1>1, <1>3, <2>1, <2>4, <2>5
<1>4. ASSUME NEW td, NEW host, thr[t].seen # FALSE, Goto(t, "link"),
             next' = [next EXCEPT ![thr[t].f] = head.fifos],
             SetFifo(t, [F(t) EXCEPT
               !.in = <<>>, !.out = <<>>, !.graph = td, !.host = host, !.hostSet = TRUE,
               !.remaining = usage.consumers, !.dev = "set"])
      PROVE  /\ OthersSame(thr[t].f) /\ FifoShape'
             /\ fifo'[thr[t].f].st = fifo[thr[t].f].st
             /\ thr[t].seen # FALSE /\ Goes(t, "link")
               /\ next' = [next EXCEPT ![thr[t].f] = head.fifos]
               /\ fifo'[thr[t].f].type = fifo[thr[t].f].type
               /\ fifo'[thr[t].f].dev = "set"
               /\ fifo'[thr[t].f].writeCount = fifo[thr[t].f].writeCount
               /\ fifo'[thr[t].f].consumed = fifo[thr[t].f].consumed
               /\ fifo'[thr[t].f].remaining = usage.consumers
               /\ fifo'[thr[t].f].apiRead = fifo[thr[t].f].apiRead
               /\ fifo'[thr[t].f].in = <<>> /\ fifo'[thr[t].f].out = <<>>
             /\ OnlyThread(t)
  <2>1. Goes(t, "link") /\ OnlyThread(t)
    BY <1>0, <1>4, GoesTo DEF OnlyThread, Goes, KeepsWhat
  <2>2. PICK r : r = [F(t) EXCEPT
               !.in = <<>>, !.out = <<>>, !.graph = td, !.host = host, !.hostSet = TRUE,
               !.remaining = usage.consumers, !.dev = "set"]
    OBVIOUS
  <2>3. DOMAIN r = FifoFields /\ fifo' = [fifo EXCEPT ![thr[t].f] = r]
    BY <1>0, <1>4, <2>2 DEF FifoShape, F, SetFifo
  <2>4. FifoShape' /\ fifo'[thr[t].f] = r /\ OthersSame(thr[t].f)
    BY <1>0, <2>3, FifoSet
  <2>5. /\ r.st = fifo[thr[t].f].st /\ r.type = fifo[thr[t].f].type /\ r.dev = "set"
        /\ r.writeCount = fifo[thr[t].f].writeCount /\ r.consumed = fifo[thr[t].f].consumed
        /\ r.remaining = usage.consumers /\ r.apiRead = fifo[thr[t].f].apiRead
        /\ r.in = <<>> /\ r.out = <<>>
    BY <1>0, <2>2, SMTT(30) DEF F, FifoFields, FifoShape
  <2>6. QED
    BY <1>4, <2>1, <2>4, <2>5
<1>5. \/ Return(t) /\ fifo' = fifo /\ UNCHANGED next
      \/ Return(t) /\ SetFifo(t, [F(t) EXCEPT !.graph = usage.desc[thr[t].f]]) /\ UNCHANGED next
      \/ \E td, host :
           /\ thr[t].seen # FALSE /\ Goto(t, "link")
           /\ next' = [next EXCEPT ![thr[t].f] = head.fifos]
           /\ SetFifo(t, [F(t) EXCEPT
               !.in = <<>>, !.out = <<>>, !.graph = td, !.host = host, !.hostSet = TRUE,
               !.remaining = usage.consumers, !.dev = "set"])
  BY Zenon DEF FAllocFind
<1>6. QED
  BY <1>0, <1>1, <1>2, <1>3, <1>4, <1>5

LEMMA FAllocRestDoes ==
  ASSUME HoldInv, FifoShape, NEW t \in Threads, FAllocLink(t) \/ FAllocSend(t) \/ FAllocCheck(t)
  PROVE  /\ thr[t].f \in Fifos /\ thr[t].pc \in {"link", "send", "check"}
         /\ OthersSame(thr[t].f) /\ FifoShape' /\ ElementsSame(thr[t].f)
         /\ fifo'[thr[t].f].dev = fifo[thr[t].f].dev
         /\ \/ fifo'[thr[t].f].st = fifo[thr[t].f].st
            \/ /\ thr[t].pc = "check" /\ fifo'[thr[t].f].st = "allocated" /\ thr'[t] = Idle
               /\ resp # <<>> /\ Head(resp).ok
         /\ thr[t].pc = "link" => head' = [head EXCEPT !.fifos = thr[t].f]
                                  /\ ((thr'[t] = Idle /\ Fails(t, "open")) \/ Goes(t, "send"))
         /\ thr[t].pc = "send" => (thr'[t] = Idle /\ SendFails(t)) \/ Goes(t, "check")
         /\ thr[t].pc = "check" => /\ thr'[t] = Idle
                                   /\ \/ fifo'[thr[t].f].st = "allocated"
                                      \/ Fails(t, "check") \/ (resp # <<>> /\ ~Head(resp).ok)
         /\ thr[t].pc # "link" => UNCHANGED head
         /\ FifoMutexes /\ OnlyThread(t)
         /\ UNCHANGED <<usage, dev, next, graph, stick, writes, got>>
<1>0. /\ thr[t].f \in Fifos /\ thr[t].pc \in {"link", "send", "check"} /\ usage' = usage
      /\ UNCHANGED <<usage, dev, next, graph, stick, writes, got>>
  BY CallHas DEF HoldInv, ThreadInv, FAllocLink, FAllocSend, FAllocCheck, At
<1>1. FifoMutexes
  <2>1. mutex' = mutex \/ mutex' = [mutex EXCEPT !["gstream"] = t]
        \/ mutex' = [mutex EXCEPT !["gstream"] = None]
    BY DEF FAllocLink, FAllocSend, FAllocCheck, Lock, Unlock, Free
  <2>2. QED
    BY <2>1, OtherMutexes DEF Devs
<1>2. CASE fifo' = fifo
  <2>1. FifoShape' /\ ElementsSame(thr[t].f) /\ OthersSame(thr[t].f)
    BY <1>2 DEF FifoShape, ElementsSame, OthersSame
  <2>2. CASE FAllocLink(t)
    BY <1>0, <1>1, <1>2, <2>1, <2>2, GoesTo DEF FAllocLink, At, OnlyThread, Goes, KeepsWhat
  <2>3. CASE FAllocSend(t)
    BY <1>0, <1>1, <1>2, <2>1, <2>3, GoesTo DEF FAllocSend, At, OnlyThread, Goes, KeepsWhat
  <2>4. CASE FAllocCheck(t)
    <3>1. thr'[t] = Idle /\ OnlyThread(t) /\ thr[t].pc = "check"
      BY <1>0, <2>4, GoesTo DEF FAllocCheck, OnlyThread, At
    <3>2. fifo'[thr[t].f].st = "allocated" \/ Fails(t, "check") \/ (resp # <<>> /\ ~Head(resp).ok)
      <4>1. PICK ok \in BOOLEAN :
              Checked(t, ok) /\ IF ok THEN SetFifo(t, [F(t) EXCEPT !.st = "allocated"])
                ELSE UNCHANGED fifo
        BY <2>4 DEF FAllocCheck
      <4>2. CASE ~ok
        BY <4>1, <4>2 DEF Checked
      <4>3. CASE ok
        BY <1>0, <4>1, <4>3 DEF SetFifo, F, FifoShape, FifoFields
      <4>4. QED
        BY <4>2, <4>3
    <3>3. QED
      BY <1>0, <1>1, <1>2, <2>1, <2>4, <3>1, <3>2 DEF FAllocCheck, At
  <2>5. QED
    BY <2>2, <2>3, <2>4
<1>3. CASE FAllocCheck(t) /\ SetFifo(t, [F(t) EXCEPT !.st = "allocated"]) /\ Checked(t, TRUE)
  <2>1. thr'[t] = Idle /\ OnlyThread(t)
    BY <1>0, <1>3, GoesTo DEF FAllocCheck, OnlyThread
  <2>2. PICK r : r = [F(t) EXCEPT !.st = "allocated"]
    OBVIOUS
  <2>3. DOMAIN r = FifoFields /\ fifo' = [fifo EXCEPT ![thr[t].f] = r]
    BY <1>0, <1>3, <2>2 DEF FifoShape, F, SetFifo
  <2>4. FifoShape' /\ fifo'[thr[t].f] = r /\ OthersSame(thr[t].f)
    BY <1>0, <2>3, FifoSet
  <2>5. ElementsSame(thr[t].f) /\ fifo'[thr[t].f].st = "allocated"
        /\ fifo'[thr[t].f].dev = fifo[thr[t].f].dev
    BY <1>0, <2>2, <2>4 DEF F, FifoFields, ElementsSame, FifoShape
  <2>6. resp # <<>> /\ Head(resp).ok
    BY <1>3 DEF Checked
  <2>7. QED
    BY <1>0, <1>1, <1>3, <2>1, <2>4, <2>5, <2>6 DEF FAllocCheck, At
<1>4. fifo' = fifo \/ (FAllocCheck(t) /\ SetFifo(t, [F(t) EXCEPT !.st = "allocated"]) /\ Checked(t, TRUE))
  BY DEF FAllocLink, FAllocSend, FAllocCheck
<1>5. QED
  BY <1>2, <1>3, <1>4

\* The destruction of a fifo.
LEMMA FDestroyDoes ==
  ASSUME HoldInv, DataShape, NEW t \in Threads, FifoDestroys(t)
  PROVE  /\ thr[t].f \in Fifos /\ OthersSame(thr[t].f) /\ FifoShape'
         /\ fifo'[thr[t].f].dev = fifo[thr[t].f].dev
         /\ \/ fifo'[thr[t].f] = fifo[thr[t].f] /\ (FDestroyEnter(t) \/ UNCHANGED stick)
            \/ /\ FDestroyCreated(t) /\ ElementsSame(thr[t].f) /\ fifo[thr[t].f].st = "created"
               /\ fifo'[thr[t].f].st = "freed" /\ UNCHANGED stick
            \/ /\ FDestroyFree(t) /\ fifo'[thr[t].f].st = "freed"
               /\ StreamClosed(thr[t].f) /\ thr'[t] = Idle
               /\ fifo'[thr[t].f].type = fifo[thr[t].f].type
               /\ fifo'[thr[t].f].writeCount = fifo[thr[t].f].writeCount
               /\ fifo'[thr[t].f].consumed = fifo[thr[t].f].consumed
               /\ fifo'[thr[t].f].remaining = fifo[thr[t].f].remaining
               /\ fifo'[thr[t].f].apiRead = fifo[thr[t].f].apiRead
               /\ fifo'[thr[t].f].in = <<>> /\ fifo'[thr[t].f].out = <<>>
         /\ FifoMutexes /\ OnlyThread(t)
         /\ thr'[t] = Idle \/ KeepsWhat(t)
         /\ UNCHANGED <<usage, dev, graph, writes, got>>
<1>0. /\ thr[t].f \in Fifos /\ usage' = usage
      /\ UNCHANGED <<usage, dev, graph, writes, got>>
  BY CallHas DEF HoldInv, ThreadInv, FifoDestroys, FDestroyCreated, FDestroyEnter, FDestroySend,
     FDestroyCheck, FDestroyFree, At
<1>1. FifoMutexes
  <2>1. mutex' = mutex \/ mutex' = [mutex EXCEPT !["gstream"] = t]
        \/ mutex' = [mutex EXCEPT !["gstream"] = None]
    BY DEF FifoDestroys, FDestroyCreated, FDestroyEnter, FDestroySend,
     FDestroyCheck, FDestroyFree, Lock, Unlock, Free
  <2>2. QED
    BY <2>1, OtherMutexes DEF Devs
<1>2. OnlyThread(t) /\ (thr'[t] = Idle \/ KeepsWhat(t))
  <2>1. Return(t) \/ Goto(t, "crashed") \/ Goto(t, "send") \/ Goto(t, "check") \/ Goto(t, "free")
    BY Zenon DEF FifoDestroys, FDestroyCreated, FDestroyEnter, FDestroySend,
     FDestroyCheck, FDestroyFree
  <2>2. QED
    BY <1>0, <2>1, GoesTo DEF OnlyThread, KeepsWhat
<1>3. CASE FDestroyEnter(t) \/ FDestroySend(t) \/ FDestroyCheck(t)
  <2>1. fifo' = fifo /\ (FDestroyEnter(t) \/ UNCHANGED stick)
    BY <1>3 DEF FDestroyEnter, FDestroySend, FDestroyCheck
  <2>2. FifoShape' /\ OthersSame(thr[t].f)
    BY <2>1 DEF DataShape, FifoShape, OthersSame
  <2>3. QED
    BY <1>0, <1>1, <1>2, <2>1, <2>2
<1>4. CASE FDestroyCreated(t)
  <2>1. PICK r : r = [F(t) EXCEPT !.st = "freed"]
    OBVIOUS
  <2>2. DOMAIN r = FifoFields /\ fifo' = [fifo EXCEPT ![thr[t].f] = r]
    BY <1>0, <1>4, <2>1 DEF FDestroyCreated, DataShape, FifoShape, F, SetFifo
  <2>3. FifoShape' /\ fifo'[thr[t].f] = r /\ OthersSame(thr[t].f)
    BY <1>0, <2>2, FifoSet DEF DataShape
  <2>4. ElementsSame(thr[t].f) /\ fifo'[thr[t].f].st = "freed"
        /\ fifo'[thr[t].f].dev = fifo[thr[t].f].dev
    BY <1>0, <2>1, <2>3 DEF F, FifoFields, ElementsSame, DataShape, FifoShape
  <2>5. QED
    BY <1>0, <1>1, <1>2, <1>4, <2>3, <2>4 DEF FDestroyCreated, F
<1>5. CASE FDestroyFree(t) /\ fifo' = fifo /\ UNCHANGED stick
  <2>1. FifoShape' /\ OthersSame(thr[t].f)
    BY <1>5 DEF DataShape, FifoShape, OthersSame
  <2>2. QED
    BY <1>0, <1>1, <1>2, <1>5, <2>1
<1>6. CASE /\ FDestroyFree(t) /\ StreamClosed(thr[t].f) /\ Return(t)
           /\ SetFifo(t, [F(t) EXCEPT !.st = "freed", !.in = <<>>, !.out = <<>>])
  <2>1. PICK r : r = [F(t) EXCEPT !.st = "freed", !.in = <<>>, !.out = <<>>]
    OBVIOUS
  <2>2. DOMAIN r = FifoFields /\ fifo' = [fifo EXCEPT ![thr[t].f] = r]
    BY <1>0, <1>6, <2>1 DEF DataShape, FifoShape, F, SetFifo
  <2>3. FifoShape' /\ fifo'[thr[t].f] = r /\ OthersSame(thr[t].f)
    BY <1>0, <2>2, FifoSet DEF DataShape
  <2>4. /\ r.st = "freed" /\ r.type = fifo[thr[t].f].type /\ r.dev = fifo[thr[t].f].dev
        /\ r.writeCount = fifo[thr[t].f].writeCount /\ r.consumed = fifo[thr[t].f].consumed
        /\ r.remaining = fifo[thr[t].f].remaining /\ r.apiRead = fifo[thr[t].f].apiRead
        /\ r.in = <<>> /\ r.out = <<>>
    BY <1>0, <2>1, SMTT(30) DEF F, FifoFields, DataShape, FifoShape
  <2>5. thr'[t] = Idle
    BY <1>0, <1>6, GoesTo
  <2>6. QED
    BY <1>0, <1>1, <1>2, <1>6, <2>3, <2>4, <2>5
<1>7. FDestroyFree(t) =>
        \/ fifo' = fifo /\ UNCHANGED stick
        \/ /\ StreamClosed(thr[t].f) /\ Return(t)
           /\ SetFifo(t, [F(t) EXCEPT !.st = "freed", !.in = <<>>, !.out = <<>>])
  BY Zenon DEF FDestroyFree
<1>8. QED
  BY <1>3, <1>4, <1>5, <1>6, <1>7 DEF FifoDestroys

-----------------------------------------------------------------------------
(* Elements.                                                                 *)

LEMMA WriteEnterDoes ==
  ASSUME HoldInv, NEW t \in Threads, WriteEnter(t)
  PROVE  /\ thr[t].f \in Fifos /\ thr[t].pc = "enter" /\ OnlyThread(t)
         /\ \/ writes' = writes /\ (thr'[t] = Idle \/ Goes(t, "crashed"))
            \/ /\ writes < usage.writes /\ writes' = writes + 1
               /\ fifo[thr[t].f].type = "WO"
               /\ Found(thr[t].f) \/ fifo[thr[t].f].st = "allocated"
               /\ thr'[t].pc = "send" /\ thr'[t].e.n = writes + 1
               /\ SameCall(thr'[t], thr[t]) /\ thr'[t].param = thr[t].param
         /\ UNCHANGED <<usage, mutex, dev, head, next, graph, fifo, resp, stick, got>>
<1>0. /\ thr[t].f \in Fifos /\ thr[t].pc = "enter" /\ usage' = usage
      /\ UNCHANGED <<usage, mutex, dev, head, next, graph, fifo, resp, stick, got>>
  BY CallHas DEF HoldInv, ThreadInv, WriteEnter, At
<1>1. CASE Return(t) /\ UNCHANGED writes
  BY <1>0, <1>1, GoesTo DEF OnlyThread
<1>2. CASE Goto(t, "crashed") /\ UNCHANGED writes
  BY <1>0, <1>2, GoesTo DEF OnlyThread, Goes, KeepsWhat
<1>3. ASSUME NEW x, x.n = writes + 1, thr' = [thr EXCEPT ![t].pc = "send", ![t].e = x],
             writes < usage.writes, writes' = writes + 1, F(t).type = "WO",
             Found(thr[t].f) \/ F(t).st = "allocated"
      PROVE  /\ OnlyThread(t)
             /\ writes < usage.writes /\ writes' = writes + 1
             /\ fifo[thr[t].f].type = "WO"
             /\ Found(thr[t].f) \/ fifo[thr[t].f].st = "allocated"
             /\ thr'[t].pc = "send" /\ thr'[t].e.n = writes + 1
             /\ SameCall(thr'[t], thr[t]) /\ thr'[t].param = thr[t].param
  <2>0. PICK pc : pc = "send"
    OBVIOUS
  <2>1. /\ thr'[t].pc = pc /\ thr'[t].e = x /\ SameCall(thr'[t], thr[t])
        /\ thr'[t].param = thr[t].param /\ \A s \in Threads : s # t => thr'[s] = thr[s]
    <3>1. WithElement(t, pc, x) /\ UNCHANGED usage
      BY <1>0, <1>3, <2>0, Zenon DEF WithElement
    <3>2. QED
      BY <3>1, CarriesElement
  <2>2. QED
    BY <1>3, <2>0, <2>1 DEF OnlyThread, F
<1>4. \/ Return(t) /\ UNCHANGED writes
      \/ Goto(t, "crashed") /\ UNCHANGED writes
      \/ \E x : /\ x.n = writes + 1 /\ thr' = [thr EXCEPT ![t].pc = "send", ![t].e = x]
                /\ writes < usage.writes /\ writes' = writes + 1 /\ F(t).type = "WO"
                /\ Found(thr[t].f) \/ F(t).st = "allocated"
  <2>1. CASE Return(t) /\ UNCHANGED writes
    BY <2>1
  <2>2. CASE Goto(t, "crashed") /\ UNCHANGED writes
    BY <2>2
  <2>3. CASE ~(Return(t) /\ UNCHANGED writes) /\ ~(Goto(t, "crashed") /\ UNCHANGED writes)
    <3>1. /\ writes < usage.writes /\ writes' = writes + 1 /\ F(t).type = "WO"
          /\ Found(thr[t].f) \/ F(t).st = "allocated"
          /\ \E x \in usage.tensors[F(t).host.dataType] :
                     thr' = [thr EXCEPT ![t].pc = "send", ![t].e =
                       [n |-> writes + 1, sent |-> x, type |-> F(t).host.dataType,
                        clear |-> Clear(F(t).host, F(t).graph),
                        mem |-> Transfer(InMemory(F(t).host, x), F(t).host, F(t).graph,
                                         F(t).host.dataType, "FP16")]]
      BY <2>3 DEF WriteEnter
    <3>2. PICK y : thr' = [thr EXCEPT ![t].pc = "send", ![t].e =
                       [n |-> writes + 1, sent |-> y, type |-> F(t).host.dataType,
                        clear |-> Clear(F(t).host, F(t).graph),
                        mem |-> Transfer(InMemory(F(t).host, y), F(t).host, F(t).graph,
                                         F(t).host.dataType, "FP16")]]
      BY <3>1, Zenon
    <3>3. PICK x : x = [n |-> writes + 1, sent |-> y, type |-> F(t).host.dataType,
                        clear |-> Clear(F(t).host, F(t).graph),
                        mem |-> Transfer(InMemory(F(t).host, y), F(t).host, F(t).graph,
                                         F(t).host.dataType, "FP16")]
      OBVIOUS
    <3>4. x.n = writes + 1 /\ thr' = [thr EXCEPT ![t].pc = "send", ![t].e = x]
      BY <3>2, <3>3
    <3>5. QED
      BY <3>1, <3>4
  <2>4. QED
    BY <2>1, <2>2, <2>3
<1>5. CASE \E x : /\ x.n = writes + 1 /\ thr' = [thr EXCEPT ![t].pc = "send", ![t].e = x]
                  /\ writes < usage.writes /\ writes' = writes + 1 /\ F(t).type = "WO"
                  /\ Found(thr[t].f) \/ F(t).st = "allocated"
  <2>1. PICK x : /\ x.n = writes + 1 /\ thr' = [thr EXCEPT ![t].pc = "send", ![t].e = x]
                 /\ writes < usage.writes /\ writes' = writes + 1 /\ F(t).type = "WO"
                 /\ Found(thr[t].f) \/ F(t).st = "allocated"
    BY <1>5
  <2>2. /\ OnlyThread(t)
        /\ thr'[t].pc = "send" /\ thr'[t].e.n = writes + 1
        /\ SameCall(thr'[t], thr[t]) /\ thr'[t].param = thr[t].param
    BY <2>1, <1>3, Zenon
  <2>3. QED
    BY <1>0, <2>1, <2>2 DEF F
<1>6. QED
  BY <1>1, <1>2, <1>4, <1>5

\* An element more at the stick, or one less among its results.
LEMMA BufAppended ==
  ASSUME StickShape, NEW f \in Fifos, NEW x, stick' = [stick EXCEPT !.buf[f] = Append(@, x)]
  PROVE  /\ StickShape' /\ stick'.jobs = stick.jobs /\ stick'.out = stick.out
         /\ stick'.buf[f] = Append(stick.buf[f], x)
         /\ \A h \in Fifos : h # f => stick'.buf[h] = stick.buf[h]
<1>1. PICK s : s = Append(stick.buf[f], x)
  OBVIOUS
<1>2. stick' = [stick EXCEPT !.buf = [stick.buf EXCEPT ![f] = s]]
  BY <1>1 DEF StickShape
<1>3. /\ DOMAIN stick' = {"jobs", "buf", "out"} /\ stick'.jobs = stick.jobs
           /\ stick'.out = stick.out
      /\ stick'.buf = [stick.buf EXCEPT ![f] = s]
  BY <1>2 DEF StickShape
<1>4. stick'.buf[f] = s /\ \A h \in Fifos : h # f => stick'.buf[h] = stick.buf[h]
  BY <1>3 DEF StickShape
<1>5. IsSeq(s)
  BY <1>1, SeqAppended DEF StickShape
<1>6. stick'.buf = [h \in Fifos |-> stick'.buf[h]]
  BY <1>3 DEF StickShape
<1>7. StickShape'
  BY <1>3, <1>4, <1>5, <1>6 DEF StickShape, JobRecords
<1>8. QED
  BY <1>1, <1>3, <1>4, <1>7

LEMMA OutTaken ==
  ASSUME StickShape, NEW f \in Fifos, stick.out[f] # <<>>,
         stick' = [stick EXCEPT !.out[f] = Tail(@)]
  PROVE  /\ StickShape' /\ stick'.jobs = stick.jobs /\ stick'.buf = stick.buf
         /\ stick'.out[f] = Tail(stick.out[f])
         /\ \A h \in Fifos : h # f => stick'.out[h] = stick.out[h]
<1>1. PICK s : s = Tail(stick.out[f])
  OBVIOUS
<1>2. stick' = [stick EXCEPT !.out = [stick.out EXCEPT ![f] = s]]
  BY <1>1 DEF StickShape
<1>3. /\ DOMAIN stick' = {"jobs", "buf", "out"} /\ stick'.jobs = stick.jobs
           /\ stick'.buf = stick.buf
      /\ stick'.out = [stick.out EXCEPT ![f] = s]
  BY <1>2 DEF StickShape
<1>4. stick'.out[f] = s /\ \A h \in Fifos : h # f => stick'.out[h] = stick.out[h]
  BY <1>3 DEF StickShape
<1>5. IsSeq(s)
  BY <1>1, SeqTaken DEF StickShape
<1>6. stick'.out = [h \in Fifos |-> stick'.out[h]]
  BY <1>3 DEF StickShape
<1>7. StickShape'
  BY <1>3, <1>4, <1>5, <1>6 DEF StickShape, JobRecords
<1>8. QED
  BY <1>1, <1>3, <1>4, <1>7

LEMMA WriteSendDoes ==
  ASSUME HoldInv, DataShape, NEW t \in Threads, WriteSend(t)
  PROVE  /\ thr[t].f \in Fifos /\ At(t, "WRITE", "send") /\ OnlyThread(t)
         /\ StickShape'
         /\ \/ Fails(t, "write") /\ thr'[t] = Idle /\ UNCHANGED stick
            \/ /\ Goes(t, "count") /\ Len(stick.buf[thr[t].f]) < NumElements
               /\ stick'.jobs = stick.jobs /\ stick'.out = stick.out
               /\ stick'.buf[thr[t].f] = Append(stick.buf[thr[t].f], thr[t].e)
               /\ \A h \in Fifos : h # thr[t].f => stick'.buf[h] = stick.buf[h]
         /\ UNCHANGED <<usage, mutex, dev, head, next, graph, fifo, resp, writes, got>>
<1>0. /\ thr[t].f \in Fifos /\ At(t, "WRITE", "send") /\ usage' = usage
      /\ UNCHANGED <<usage, mutex, dev, head, next, graph, fifo, resp, writes, got>>
  BY CallHas DEF HoldInv, ThreadInv, WriteSend, At
<1>1. CASE Fails(t, "write") /\ Return(t) /\ UNCHANGED stick
  BY <1>0, <1>1, GoesTo DEF OnlyThread, DataShape, StickShape, JobRecords
<1>2. CASE /\ Len(stick.buf[thr[t].f]) < NumElements
           /\ stick' = [stick EXCEPT !.buf[thr[t].f] = Append(@, thr[t].e)]
           /\ Goto(t, "count")
  BY <1>0, <1>2, GoesTo, BufAppended DEF OnlyThread, DataShape, Goes, KeepsWhat
<1>3. QED
  BY <1>1, <1>2 DEF WriteSend

LEMMA WriteCountDoes ==
  ASSUME HoldInv, DataShape, NEW t \in Threads, WriteCount(t)
  PROVE  /\ thr[t].f \in Fifos /\ At(t, "WRITE", "count") /\ OnlyThread(t) /\ thr'[t] = Idle
         /\ FifoShape' /\ OthersSame(thr[t].f)
         /\ fifo'[thr[t].f].st = fifo[thr[t].f].st /\ fifo'[thr[t].f].type = fifo[thr[t].f].type
         /\ fifo'[thr[t].f].dev = fifo[thr[t].f].dev
         /\ fifo'[thr[t].f].writeCount = fifo[thr[t].f].writeCount + 1
         /\ fifo'[thr[t].f].consumed = fifo[thr[t].f].consumed
         /\ fifo'[thr[t].f].remaining = fifo[thr[t].f].remaining
         /\ fifo'[thr[t].f].apiRead = fifo[thr[t].f].apiRead
         /\ fifo'[thr[t].f].in = Append(fifo[thr[t].f].in, thr[t].e.n)
         /\ fifo'[thr[t].f].out = fifo[thr[t].f].out
         /\ UNCHANGED <<usage, mutex, dev, head, next, graph, resp, stick, writes, got>>
<1>0. /\ thr[t].f \in Fifos /\ At(t, "WRITE", "count") /\ usage' = usage
      /\ UNCHANGED <<usage, mutex, dev, head, next, graph, resp, stick, writes, got>>
  BY CallHas DEF HoldInv, ThreadInv, WriteCount, At, Free
<1>1. thr'[t] = Idle /\ OnlyThread(t)
  BY <1>0, GoesTo DEF WriteCount, OnlyThread
<1>2. PICK r : r = [F(t) EXCEPT !.in = Push(@, thr[t].e.n), !.writeCount = @ + 1]
  OBVIOUS
<1>3. DOMAIN r = FifoFields /\ fifo' = [fifo EXCEPT ![thr[t].f] = r]
  BY <1>0, <1>2 DEF WriteCount, DataShape, FifoShape, F, SetFifo
<1>4. FifoShape' /\ fifo'[thr[t].f] = r /\ OthersSame(thr[t].f)
  BY <1>0, <1>3, FifoSet DEF DataShape
<1>5. /\ r.st = fifo[thr[t].f].st /\ r.type = fifo[thr[t].f].type
      /\ r.dev = fifo[thr[t].f].dev
      /\ r.writeCount = fifo[thr[t].f].writeCount + 1 /\ r.consumed = fifo[thr[t].f].consumed
      /\ r.remaining = fifo[thr[t].f].remaining /\ r.apiRead = fifo[thr[t].f].apiRead
      /\ r.in = Append(fifo[thr[t].f].in, thr[t].e.n) /\ r.out = fifo[thr[t].f].out
  <2>1. PICK x : x = fifo[thr[t].f]
    OBVIOUS
  <2>2. DOMAIN x = FifoFields
    BY <1>0, <2>1 DEF DataShape, FifoShape
  <2>3. r = [x EXCEPT !.in = Append(x.in, thr[t].e.n), !.writeCount = x.writeCount + 1]
    BY <1>2, <2>1 DEF F, Push
  <2>4. /\ r.st = x.st /\ r.type = x.type /\ r.dev = x.dev
        /\ r.writeCount = x.writeCount + 1 /\ r.consumed = x.consumed
    BY <2>2, <2>3 DEF FifoFields
  <2>5. /\ r.remaining = x.remaining /\ r.apiRead = x.apiRead
        /\ r.in = Append(x.in, thr[t].e.n) /\ r.out = x.out
    BY <2>2, <2>3 DEF FifoFields
  <2>6. QED
    BY <2>1, <2>4, <2>5
<1>6. QED
  BY <1>0, <1>1, <1>4, <1>5

\* A trigger takes an element of its input, and a place in its output.
LEMMA QueueInDoes ==
  ASSUME HoldInv, DataShape, NEW t \in Threads, QueueIn(t)
  PROVE  /\ thr[t].f \in Fifos /\ At(t, "QUEUE", "in") /\ OnlyThread(t)
         /\ Goes(t, "take") \/ (Goes(t, "drain") /\ fifo[thr[t].f].type = "RO")
         /\ mutex[thr[t].f] = None /\ mutex' = [mutex EXCEPT ![thr[t].f] = t]
         /\ FifoShape' /\ OthersSame(thr[t].f)
         /\ fifo'[thr[t].f].st = fifo[thr[t].f].st /\ fifo'[thr[t].f].type = fifo[thr[t].f].type
         /\ fifo'[thr[t].f].dev = fifo[thr[t].f].dev
         /\ fifo'[thr[t].f].writeCount = fifo[thr[t].f].writeCount
         /\ fifo'[thr[t].f].consumed = fifo[thr[t].f].consumed
         /\ fifo'[thr[t].f].remaining = fifo[thr[t].f].remaining - 1
         /\ fifo'[thr[t].f].apiRead = fifo[thr[t].f].apiRead
         /\ fifo'[thr[t].f].in = fifo[thr[t].f].in /\ fifo'[thr[t].f].out = fifo[thr[t].f].out
         /\ UNCHANGED <<usage, dev, head, next, graph, resp, stick, writes, got>>
<1>0. /\ thr[t].f \in Fifos /\ At(t, "QUEUE", "in") /\ usage' = usage
      /\ mutex[thr[t].f] = None /\ mutex' = [mutex EXCEPT ![thr[t].f] = t]
      /\ UNCHANGED <<usage, dev, head, next, graph, resp, stick, writes, got>>
  BY CallHas DEF HoldInv, ThreadInv, QueueIn, At, Lock
<1>1. OnlyThread(t) /\ (Goes(t, "take") \/ (Goes(t, "drain") /\ fifo[thr[t].f].type = "RO"))
  <2>1. Goto(t, "take") \/ (Goto(t, "drain") /\ F(t).type = "RO")
    BY DEF QueueIn
  <2>2. QED
    BY <1>0, <2>1, GoesTo DEF OnlyThread, Goes, KeepsWhat, F
<1>2. PICK r : r = [F(t) EXCEPT !.remaining = @ - 1]
  OBVIOUS
<1>3. DOMAIN r = FifoFields /\ fifo' = [fifo EXCEPT ![thr[t].f] = r]
  BY <1>0, <1>2 DEF QueueIn, DataShape, FifoShape, F, SetFifo
<1>4. FifoShape' /\ fifo'[thr[t].f] = r /\ OthersSame(thr[t].f)
  BY <1>0, <1>3, FifoSet DEF DataShape
<1>5. /\ r.st = fifo[thr[t].f].st /\ r.type = fifo[thr[t].f].type
      /\ r.dev = fifo[thr[t].f].dev
      /\ r.writeCount = fifo[thr[t].f].writeCount /\ r.consumed = fifo[thr[t].f].consumed
      /\ r.remaining = fifo[thr[t].f].remaining - 1 /\ r.apiRead = fifo[thr[t].f].apiRead
      /\ r.in = fifo[thr[t].f].in /\ r.out = fifo[thr[t].f].out
  BY <1>0, <1>2, SMTT(30) DEF F, FifoFields, DataShape, FifoShape
<1>6. QED
  BY <1>0, <1>1, <1>4, <1>5

LEMMA QueueDrainDoes ==
  ASSUME HoldInv, DataShape, NEW t \in Threads, QueueDrain(t)
  PROVE  /\ thr[t].f \in Fifos /\ At(t, "QUEUE", "drain") /\ OnlyThread(t) /\ Goes(t, "take")
         /\ StickShape'
         /\ stick'.jobs = stick.jobs /\ stick'.buf = stick.buf
         /\ stick' # stick =>
              /\ stick.out[thr[t].f] # <<>>
              /\ stick'.out[thr[t].f] = Tail(stick.out[thr[t].f])
              /\ \A h \in Fifos : h # thr[t].f => stick'.out[h] = stick.out[h]
         /\ UNCHANGED <<usage, mutex, dev, head, next, graph, fifo, resp, writes, got>>
<1>0. /\ thr[t].f \in Fifos /\ At(t, "QUEUE", "drain")
      /\ UNCHANGED <<usage, mutex, dev, head, next, graph, fifo, resp, writes, got>>
  BY CallHas DEF HoldInv, ThreadInv, QueueDrain, At
<1>1. Goes(t, "take") /\ OnlyThread(t)
  <2>1. Goto(t, "take")
    BY DEF QueueDrain
  <2>2. QED
    BY <1>0, <2>1, GoesTo DEF OnlyThread, Goes, KeepsWhat
<1>2. CASE /\ stick.out[thr[t].f] # <<>>
           /\ stick' = [stick EXCEPT !.out[thr[t].f] = Tail(@)]
  BY <1>0, <1>1, <1>2, OutTaken DEF DataShape
<1>3. CASE stick' = stick
  BY <1>0, <1>1, <1>3 DEF DataShape, StickShape, JobRecords
<1>4. QED
  BY <1>2, <1>3 DEF QueueDrain

LEMMA QueueTakeDoes ==
  ASSUME HoldInv, DataShape, NEW t \in Threads, QueueTake(t)
  PROVE  /\ thr[t].f \in Fifos /\ At(t, "QUEUE", "take") /\ OnlyThread(t)
         /\ mutex' = [mutex EXCEPT ![thr[t].f] = None]
         /\ FifoShape' /\ OthersSame(thr[t].f)
         /\ fifo'[thr[t].f].st = fifo[thr[t].f].st /\ fifo'[thr[t].f].type = fifo[thr[t].f].type
         /\ fifo'[thr[t].f].dev = fifo[thr[t].f].dev
         /\ fifo'[thr[t].f].writeCount = fifo[thr[t].f].writeCount
         /\ IF fifo[thr[t].f].remaining = 0
            THEN fifo'[thr[t].f].remaining = usage.consumers /\ fifo'[thr[t].f].apiRead = FALSE
            ELSE /\ fifo'[thr[t].f].remaining = fifo[thr[t].f].remaining
                 /\ fifo'[thr[t].f].apiRead = fifo[thr[t].f].apiRead
         /\ fifo'[thr[t].f].in = Pop(fifo[thr[t].f].in)
         /\ fifo'[thr[t].f].out = fifo[thr[t].f].out
         /\ \/ /\ thr'[t] = Idle /\ fifo'[thr[t].f].consumed = fifo[thr[t].f].consumed
               /\ fifo[thr[t].f].writeCount <= fifo[thr[t].f].consumed
            \/ /\ ~(fifo[thr[t].f].writeCount <= fifo[thr[t].f].consumed)
               /\ fifo'[thr[t].f].consumed = fifo[thr[t].f].consumed + 1
               /\ thr'[t].pc = "out" /\ SameCall(thr'[t], thr[t])
               /\ thr'[t].param = Top(fifo[thr[t].f].in) /\ thr'[t].e = thr[t].e
         /\ UNCHANGED <<usage, dev, head, next, graph, resp, stick, writes, got>>
<1>0. /\ thr[t].f \in Fifos /\ At(t, "QUEUE", "take") /\ usage' = usage
      /\ mutex' = [mutex EXCEPT ![thr[t].f] = None]
      /\ UNCHANGED <<usage, dev, head, next, graph, resp, stick, writes, got>>
  BY CallHas DEF HoldInv, ThreadInv, QueueTake, At, Unlock
<1>1. PICK f : f = IF F(t).remaining = 0
           THEN [F(t) EXCEPT !.remaining = usage.consumers, !.apiRead = FALSE,
                             !.in = Pop(@)]
           ELSE [F(t) EXCEPT !.in = Pop(@)]
  OBVIOUS
<1>2. IF Exhausted(f) THEN SetFifo(t, f) /\ Return(t)
     ELSE /\ SetFifo(t, [f EXCEPT !.consumed = @ + 1])
          /\ thr' = [thr EXCEPT ![t].pc = "out", ![t].param = Top(F(t).in)]
  BY <1>1 DEF QueueTake
<1>3. /\ DOMAIN f = FifoFields
      /\ f.st = fifo[thr[t].f].st /\ f.type = fifo[thr[t].f].type
      /\ f.dev = fifo[thr[t].f].dev
      /\ f.writeCount = fifo[thr[t].f].writeCount /\ f.consumed = fifo[thr[t].f].consumed
      /\ f.in = Pop(fifo[thr[t].f].in) /\ f.out = fifo[thr[t].f].out
  <2>1. CASE F(t).remaining = 0
    BY <1>0, <1>1, <2>1, SMTT(30) DEF F, FifoFields, DataShape, FifoShape
  <2>2. CASE F(t).remaining # 0
    BY <1>0, <1>1, <2>2, SMTT(30) DEF F, FifoFields, DataShape, FifoShape
  <2>3. QED
    BY <2>1, <2>2
<1>4. IF fifo[thr[t].f].remaining = 0
      THEN f.remaining = usage.consumers /\ f.apiRead = FALSE
      ELSE /\ f.remaining = fifo[thr[t].f].remaining
           /\ f.apiRead = fifo[thr[t].f].apiRead
  <2>1. CASE F(t).remaining = 0
    BY <1>0, <1>1, <2>1, SMTT(30) DEF F, FifoFields, DataShape, FifoShape
  <2>2. CASE F(t).remaining # 0
    BY <1>0, <1>1, <2>2, SMTT(30) DEF F, FifoFields, DataShape, FifoShape
  <2>3. QED
    BY <2>1, <2>2 DEF F
<1>5. CASE Exhausted(f)
  <2>1. SetFifo(t, f) /\ Return(t)
    BY <1>2, <1>5
  <2>2. thr'[t] = Idle /\ OnlyThread(t)
    BY <1>0, <2>1, GoesTo DEF OnlyThread
  <2>3. FifoShape' /\ fifo'[thr[t].f] = f /\ OthersSame(thr[t].f)
    BY <1>0, <1>3, <2>1, FifoSet DEF DataShape, SetFifo
  <2>4. fifo[thr[t].f].writeCount <= fifo[thr[t].f].consumed
    BY <1>3, <1>5 DEF Exhausted
  <2>5. QED
    BY <1>0, <1>3, <1>4, <2>2, <2>3, <2>4
<1>6. CASE ~Exhausted(f)
  <2>1. /\ SetFifo(t, [f EXCEPT !.consumed = @ + 1])
        /\ WithParam(t, "out", Top(F(t).in))
    BY <1>2, <1>6 DEF WithParam
  <2>2. /\ thr'[t].pc = "out" /\ thr'[t].param = Top(F(t).in) /\ SameCall(thr'[t], thr[t])
        /\ thr'[t].e = thr[t].e /\ \A s \in Threads : s # t => thr'[s] = thr[s]
    BY <1>0, <2>1, CarriesParam
  <2>3. PICK r : r = [f EXCEPT !.consumed = @ + 1]
    OBVIOUS
  <2>4. /\ DOMAIN r = FifoFields /\ fifo' = [fifo EXCEPT ![thr[t].f] = r]
    BY <1>3, <2>1, <2>3 DEF SetFifo
  <2>5. FifoShape' /\ fifo'[thr[t].f] = r /\ OthersSame(thr[t].f)
    BY <1>0, <2>4, FifoSet DEF DataShape
  <2>6. /\ r.st = f.st /\ r.type = f.type /\ r.dev = f.dev /\ r.writeCount = f.writeCount
        /\ r.consumed = f.consumed + 1 /\ r.remaining = f.remaining /\ r.apiRead = f.apiRead
        /\ r.in = f.in /\ r.out = f.out
    BY <1>3, <2>3, SMTT(30) DEF FifoFields
  <2>7. ~(fifo[thr[t].f].writeCount <= fifo[thr[t].f].consumed)
    BY <1>3, <1>6 DEF Exhausted
  <2>8. QED
    BY <1>0, <1>3, <1>4, <2>2, <2>5, <2>6, <2>7 DEF OnlyThread, F
<1>7. QED
  BY <1>5, <1>6

LEMMA QueueOutDoes ==
  ASSUME HoldInv, DataShape, NEW t \in Threads, QueueOut(t)
  PROVE  /\ thr[t].f \in Fifos /\ thr[t].o \in Fifos /\ At(t, "QUEUE", "out")
         /\ OnlyThread(t) /\ Goes(t, "send")
         /\ FifoShape' /\ OthersSame(thr[t].o)
         /\ fifo'[thr[t].o].st = fifo[thr[t].o].st /\ fifo'[thr[t].o].type = fifo[thr[t].o].type
         /\ fifo'[thr[t].o].dev = fifo[thr[t].o].dev
         /\ fifo'[thr[t].o].writeCount = fifo[thr[t].o].writeCount + 1
         /\ fifo'[thr[t].o].consumed = fifo[thr[t].o].consumed
         /\ fifo'[thr[t].o].remaining = fifo[thr[t].o].remaining
         /\ fifo'[thr[t].o].apiRead = fifo[thr[t].o].apiRead
         /\ fifo'[thr[t].o].in = fifo[thr[t].o].in
         /\ fifo'[thr[t].o].out = Append(fifo[thr[t].o].out, thr[t].param)
         /\ UNCHANGED <<usage, mutex, dev, head, next, graph, resp, stick, writes, got>>
<1>0. /\ thr[t].f \in Fifos /\ thr[t].o \in Fifos /\ At(t, "QUEUE", "out") /\ usage' = usage
      /\ UNCHANGED <<usage, mutex, dev, head, next, graph, resp, stick, writes, got>>
  BY CallHas DEF HoldInv, ThreadInv, QueueOut, At, Free
<1>1. OnlyThread(t) /\ Goes(t, "send")
  BY <1>0, GoesTo DEF QueueOut, OnlyThread, Goes, KeepsWhat
<1>2. PICK f : f = fifo[thr[t].o]
  OBVIOUS
<1>3. PICK r : r = [f EXCEPT !.out = Append(@, thr[t].param), !.writeCount = @ + 1]
  OBVIOUS
<1>4. DOMAIN f = FifoFields
  BY <1>0, <1>2 DEF DataShape, FifoShape
<1>5. fifo' = [fifo EXCEPT ![thr[t].o] = r]
  BY <1>0, <1>2, <1>3, <1>4 DEF QueueOut, Push, FifoFields, DataShape, FifoShape
<1>6. DOMAIN r = FifoFields
  BY <1>3, <1>4
<1>7. FifoShape' /\ fifo'[thr[t].o] = r /\ OthersSame(thr[t].o)
  BY <1>0, <1>5, <1>6, FifoSet DEF DataShape
<1>8. /\ r.st = f.st /\ r.type = f.type /\ r.dev = f.dev /\ r.writeCount = f.writeCount + 1
      /\ r.consumed = f.consumed /\ r.remaining = f.remaining /\ r.apiRead = f.apiRead
      /\ r.in = f.in /\ r.out = Append(f.out, thr[t].param)
  BY <1>3, <1>4, SMTT(30) DEF FifoFields
<1>9. QED
  BY <1>0, <1>1, <1>2, <1>7, <1>8

LEMMA QueueSendDoes ==
  ASSUME HoldInv, DataShape, NEW t \in Threads, QueueSend(t)
  PROVE  /\ thr[t].f \in Fifos /\ thr[t].o \in Fifos /\ At(t, "QUEUE", "send") /\ OnlyThread(t)
         /\ StickShape'
         /\ \/ thr'[t] = Idle /\ SendFails(t) /\ UNCHANGED stick
            \/ Goes(t, "check") /\ Fails(t, "refuse") /\ UNCHANGED stick
            \/ /\ Goes(t, "check") /\ dev.monitor
               /\ stick'.jobs = Append(stick.jobs, [f |-> thr[t].f, o |-> thr[t].o])
               /\ stick'.buf = stick.buf /\ stick'.out = stick.out
         /\ FifoMutexes
         /\ UNCHANGED <<usage, dev, head, next, graph, fifo, writes, got>>
<1>0. /\ thr[t].f \in Fifos /\ thr[t].o \in Fifos /\ At(t, "QUEUE", "send") /\ usage' = usage
      /\ UNCHANGED <<usage, dev, head, next, graph, fifo, writes, got>>
  BY CallHas DEF HoldInv, ThreadInv, QueueSend, At
<1>1. FifoMutexes
  <2>1. mutex' = mutex \/ mutex' = [mutex EXCEPT !["gstream"] = t]
    BY DEF QueueSend, Lock, Free
  <2>2. QED
    BY <2>1, OtherMutexes DEF Devs
<1>2. CASE SendFails(t) /\ Return(t) /\ UNCHANGED stick
  BY <1>0, <1>1, <1>2, GoesTo DEF OnlyThread, DataShape, StickShape, JobRecords
<1>3. CASE Goto(t, "check") /\ Fails(t, "refuse") /\ UNCHANGED stick
  BY <1>0, <1>1, <1>3, GoesTo DEF OnlyThread, Goes, KeepsWhat, DataShape, StickShape, JobRecords
<1>4. CASE /\ Goto(t, "check") /\ dev.monitor
           /\ stick' = [stick EXCEPT !.jobs = Append(@, [f |-> thr[t].f, o |-> thr[t].o])]
  <2>1. Goes(t, "check") /\ OnlyThread(t)
    BY <1>0, <1>4, GoesTo DEF OnlyThread, Goes, KeepsWhat
  <2>2. PICK j \in JobRecords : j = [f |-> thr[t].f, o |-> thr[t].o]
    BY <1>0 DEF JobRecords
  <2>3. PICK jobs : jobs = Append(stick.jobs, j)
    OBVIOUS
  <2>4. jobs \in Seq(JobRecords)
    BY <2>2, <2>3 DEF DataShape, StickShape
  <2>5. stick' = [stick EXCEPT !.jobs = jobs]
    BY <1>4, <2>2, <2>3 DEF DataShape, StickShape
  <2>6. /\ stick'.jobs = jobs /\ stick'.buf = stick.buf /\ stick'.out = stick.out
        /\ DOMAIN stick' = {"jobs", "buf", "out"}
    BY <2>5 DEF DataShape, StickShape
  <2>7. StickShape'
    BY <2>4, <2>6 DEF DataShape, StickShape, JobRecords
  <2>8. QED
    BY <1>0, <1>1, <1>4, <2>1, <2>2, <2>3, <2>6, <2>7
<1>5. \/ SendFails(t) /\ Return(t) /\ UNCHANGED stick
      \/ Goto(t, "check") /\ Fails(t, "refuse") /\ UNCHANGED stick
      \/ /\ Goto(t, "check") /\ dev.monitor
         /\ stick' = [stick EXCEPT !.jobs = Append(@, [f |-> thr[t].f, o |-> thr[t].o])]
  BY DEF QueueSend, Answers
<1>6. QED
  BY <1>2, <1>3, <1>4, <1>5

LEMMA QueueRestDoes ==
  ASSUME HoldInv, NEW t \in Threads, QueueEnter(t) \/ QueueCheck(t)
  PROVE  /\ thr[t].f \in Fifos /\ thr[t].o \in Fifos /\ OnlyThread(t)
         /\ \/ thr'[t] = Idle
            \/ /\ thr[t].pc = "enter" /\ Goes(t, "in")
               /\ graph[thr[t].g].st = "allocated" /\ fifo[thr[t].f].st = "allocated"
               /\ fifo[thr[t].o].st = "allocated" /\ fifo[thr[t].o].type # "WO"
         /\ thr[t].pc \in {"enter", "check"}
         /\ FifoMutexes
         /\ UNCHANGED <<usage, dev, head, next, fifo, stick, writes, got>>
<1>0. /\ thr[t].f \in Fifos /\ thr[t].o \in Fifos /\ usage' = usage
           /\ thr[t].pc \in {"enter", "check"}
      /\ UNCHANGED <<usage, dev, head, next, fifo, stick, writes, got>>
  BY CallHas DEF HoldInv, ThreadInv, QueueEnter, QueueCheck, At
<1>1. FifoMutexes
  <2>1. mutex' = mutex \/ mutex' = [mutex EXCEPT !["gstream"] = None]
    BY DEF QueueEnter, QueueCheck, Unlock
  <2>2. QED
    BY <2>1, OtherMutexes DEF Devs
<1>2. CASE Return(t)
  BY <1>0, <1>1, <1>2, GoesTo DEF OnlyThread
<1>3. CASE /\ QueueEnter(t) /\ Goto(t, "in") /\ graph[thr[t].g].st = "allocated"
           /\ fifo[thr[t].f].st = "allocated"
           /\ fifo[thr[t].o].st = "allocated" /\ fifo[thr[t].o].type # "WO"
  <2>1. thr[t].pc = "enter"
    BY <1>3 DEF QueueEnter, At
  <2>2. QED
    BY <1>0, <1>1, <1>3, <2>1, GoesTo DEF OnlyThread, Goes, KeepsWhat
<1>4. QED
  BY <1>2, <1>3 DEF QueueEnter, QueueCheck, Triggerable, F

LEMMA ReadEnterDoes ==
  ASSUME HoldInv, NEW t \in Threads, ReadEnter(t)
  PROVE  /\ thr[t].f \in Fifos /\ At(t, "READ", "enter") /\ OnlyThread(t)
         /\ \/ thr'[t] = Idle
            \/ Goes(t, "crashed")
            \/ /\ Goes(t, "wait") /\ fifo[thr[t].f].st = "allocated"
                    /\ fifo[thr[t].f].type = "RO"
               /\ ~fifo[thr[t].f].apiRead
         /\ UNCHANGED <<usage, mutex, dev, head, next, graph, fifo, resp, stick, writes, got>>
<1>0. /\ thr[t].f \in Fifos /\ At(t, "READ", "enter") /\ usage' = usage
      /\ UNCHANGED <<usage, mutex, dev, head, next, graph, fifo, resp, stick, writes, got>>
  BY CallHas DEF HoldInv, ThreadInv, ReadEnter, At
<1>1. \/ Return(t) \/ Goto(t, "crashed")
      \/ /\ Goto(t, "wait") /\ F(t).st = "allocated" /\ F(t).type = "RO" /\ ~F(t).apiRead
  BY DEF ReadEnter, Readable
<1>2. QED
  BY <1>0, <1>1, GoesTo DEF OnlyThread, Goes, KeepsWhat, F

LEMMA ReadWaitDoes ==
  ASSUME HoldInv, DataShape, NEW t \in Threads, ReadWait(t)
  PROVE  /\ thr[t].f \in Fifos /\ At(t, "READ", "wait") /\ OnlyThread(t)
         /\ StickShape'
         /\ \/ thr'[t] = Idle /\ UNCHANGED stick
            \/ /\ thr'[t].pc = "count" /\ SameCall(thr'[t], thr[t])
               /\ thr'[t].param = thr[t].param
               /\ stick.out[thr[t].f] # <<>> /\ thr'[t].e = Head(stick.out[thr[t].f])
               /\ stick'.jobs = stick.jobs /\ stick'.buf = stick.buf
               /\ stick'.out[thr[t].f] = Tail(stick.out[thr[t].f])
               /\ \A h \in Fifos : h # thr[t].f => stick'.out[h] = stick.out[h]
         /\ UNCHANGED <<usage, mutex, dev, head, next, graph, fifo, resp, writes, got>>
<1>0. /\ thr[t].f \in Fifos /\ At(t, "READ", "wait") /\ usage' = usage
      /\ UNCHANGED <<usage, mutex, dev, head, next, graph, fifo, resp, writes, got>>
  BY CallHas DEF HoldInv, ThreadInv, ReadWait, At
<1>1. CASE Return(t) /\ UNCHANGED stick
  BY <1>0, <1>1, GoesTo DEF OnlyThread, DataShape, StickShape, JobRecords
<1>2. CASE /\ stick.out[thr[t].f] # <<>>
           /\ WithElement(t, "count", Head(stick.out[thr[t].f]))
           /\ stick' = [stick EXCEPT !.out[thr[t].f] = Tail(@)]
  <2>1. PICK x : x = Head(stick.out[thr[t].f])
    OBVIOUS
  <2>2. /\ thr'[t].pc = "count" /\ thr'[t].e = x /\ SameCall(thr'[t], thr[t])
        /\ thr'[t].param = thr[t].param /\ \A s \in Threads : s # t => thr'[s] = thr[s]
    BY <1>0, <1>2, <2>1, CarriesElement
  <2>3. QED
    BY <1>0, <1>2, <2>1, <2>2, OutTaken DEF OnlyThread, DataShape
<1>3. QED
  BY <1>1, <1>2 DEF ReadWait, WithElement

LEMMA ReadCountDoes ==
  ASSUME HoldInv, DataShape, NEW t \in Threads, ReadCount(t)
  PROVE  /\ thr[t].f \in Fifos /\ At(t, "READ", "count") /\ OnlyThread(t) /\ thr'[t] = Idle
         /\ mutex[thr[t].f] = None
         /\ FifoShape' /\ OthersSame(thr[t].f)
         /\ fifo'[thr[t].f].st = fifo[thr[t].f].st /\ fifo'[thr[t].f].type = fifo[thr[t].f].type
         /\ fifo'[thr[t].f].dev = fifo[thr[t].f].dev
         /\ fifo'[thr[t].f].writeCount = fifo[thr[t].f].writeCount
         /\ fifo'[thr[t].f].consumed = fifo[thr[t].f].consumed
         /\ fifo'[thr[t].f].apiRead = (fifo[thr[t].f].remaining # 1)
         /\ fifo'[thr[t].f].remaining = IF fifo[thr[t].f].remaining = 1 THEN usage.consumers
                                        ELSE fifo[thr[t].f].remaining - 1
         /\ fifo'[thr[t].f].in = fifo[thr[t].f].in
         /\ fifo'[thr[t].f].out = Pop(fifo[thr[t].f].out)
         /\ \E x : /\ got' = got \cup {x} /\ x.n = thr[t].e.n
                   /\ x.param = Top(fifo[thr[t].f].out)
         /\ UNCHANGED <<usage, mutex, dev, head, next, graph, resp, stick, writes>>
<1>0. /\ thr[t].f \in Fifos /\ At(t, "READ", "count") /\ usage' = usage
           /\ mutex[thr[t].f] = None
      /\ UNCHANGED <<usage, mutex, dev, head, next, graph, resp, stick, writes>>
  BY CallHas DEF HoldInv, ThreadInv, ReadCount, At, Free
<1>1. OnlyThread(t) /\ thr'[t] = Idle
  BY <1>0, GoesTo DEF ReadCount, OnlyThread
<1>2. PICK f : f = F(t)
  OBVIOUS
<1>3. PICK r : r = [f EXCEPT !.apiRead = ~LastConsumer(f),
                          !.remaining = IF LastConsumer(f) THEN usage.consumers ELSE @ - 1,
                          !.out = Pop(@)]
  OBVIOUS
<1>4. DOMAIN f = FifoFields
  BY <1>0, <1>2 DEF F, DataShape, FifoShape
<1>5. fifo' = [fifo EXCEPT ![thr[t].f] = r]
  BY <1>0, <1>2, <1>3 DEF ReadCount, SetFifo, F
<1>6. DOMAIN r = FifoFields
  BY <1>3, <1>4
<1>7. FifoShape' /\ fifo'[thr[t].f] = r /\ OthersSame(thr[t].f)
  BY <1>0, <1>5, <1>6, FifoSet DEF DataShape
<1>8. /\ r.st = f.st /\ r.type = f.type /\ r.dev = f.dev /\ r.writeCount = f.writeCount
      /\ r.consumed = f.consumed /\ r.in = f.in /\ r.out = Pop(f.out)
      /\ r.apiRead = ~LastConsumer(f)
      /\ r.remaining = IF LastConsumer(f) THEN usage.consumers ELSE f.remaining - 1
  BY <1>3, <1>4, SMTT(30) DEF FifoFields
<1>9. \E x : got' = got \cup {x} /\ x.n = thr[t].e.n /\ x.param = Top(fifo[thr[t].f].out)
  <2>1. PICK x : x = [n |-> thr[t].e.n, param |-> Top(f.out), sent |-> thr[t].e.sent,
                       from |-> thr[t].e.type,
                       as |-> f.host.dataType, clear |-> thr[t].e.clear
                         /\ Clear(f.host, f.graph),
                       recv |-> FromMemory(f.host, Transfer(thr[t].e.mem, f.graph, f.host, "FP16",
                                                            f.host.dataType))]
    OBVIOUS
  <2>2. got' = got \cup {x}
    BY <1>2, <2>1 DEF ReadCount
  <2>3. x.n = thr[t].e.n /\ x.param = Top(fifo[thr[t].f].out)
    BY <1>2, <2>1 DEF F
  <2>4. QED
    BY <2>2, <2>3
<1>10. /\ fifo'[thr[t].f].apiRead = (fifo[thr[t].f].remaining # 1)
       /\ fifo'[thr[t].f].remaining = IF fifo[thr[t].f].remaining = 1 THEN usage.consumers
                                      ELSE fifo[thr[t].f].remaining - 1
  BY <1>2, <1>7, <1>8 DEF LastConsumer, F
<1>11. /\ fifo'[thr[t].f].st = fifo[thr[t].f].st /\ fifo'[thr[t].f].type = fifo[thr[t].f].type
       /\ fifo'[thr[t].f].dev = fifo[thr[t].f].dev
       /\ fifo'[thr[t].f].writeCount = fifo[thr[t].f].writeCount
       /\ fifo'[thr[t].f].consumed = fifo[thr[t].f].consumed
       /\ fifo'[thr[t].f].in = fifo[thr[t].f].in
       /\ fifo'[thr[t].f].out = Pop(fifo[thr[t].f].out)
  BY <1>2, <1>7, <1>8 DEF F
<1>12. QED
  BY <1>0, <1>1, <1>7, <1>9, <1>10, <1>11

-----------------------------------------------------------------------------
(* The stick, and ncDeviceClose.                                             *)

\* An element with the number of another.
Result(e) == [e EXCEPT !.mem = InMemory(fifo[Head(stick.jobs).o].graph,
                                        FromMemory(fifo[Head(stick.jobs).f].graph, e.mem))]

\* The job j has run, with the result r.
Ran(j, r) ==
  /\ stick.jobs # <<>> /\ j = Head(stick.jobs) /\ stick'.jobs = Tail(stick.jobs)
  /\ stick.buf[j.f] # <<>> /\ Len(stick.out[j.o]) < NumElements
  /\ r = Result(Head(stick.buf[j.f])) /\ Head(stick.buf[j.f]) # Stop
  /\ \A f \in Fifos : stick'.buf[f] = IF f = j.o /\ Chained(f) THEN Append(Left(j, f), r)
                                     ELSE Left(j, f)
  /\ \A f \in Fifos : IsSeq(Left(j, f))
  /\ stick'.out[j.o] = Append(stick.out[j.o], r)
  /\ \A f \in Fifos : f # j.o => stick'.out[f] = stick.out[f]
  /\ StickShape'
  /\ UNCHANGED <<usage, mutex, dev, head, next, graph, fifo, thr, resp, writes, got>>

LEMMA StickDoes ==
  ASSUME DataShape, StickRuns
  PROVE  \E j \in JobRecords : \E r : Ran(j, r)
<1>1. stick.jobs # <<>> /\ stick.jobs \in Seq(JobRecords)
  BY DEF StickRuns, DataShape, StickShape
<1>2. Head(stick.jobs) \in JobRecords /\ Tail(stick.jobs) \in Seq(JobRecords)
  BY <1>1, EmptySeq
<1>3. PICK j \in JobRecords : j = Head(stick.jobs)
  BY <1>2
<1>4. j.f \in Fifos /\ j.o \in Fifos
  BY DEF JobRecords
<1>5. PICK r : r = Result(Head(stick.buf[j.f]))
  OBVIOUS
<1>6. /\ stick.buf[j.f] # <<>> /\ Len(stick.out[j.o]) < NumElements
           /\ Head(stick.buf[j.f]) # Stop
      /\ UNCHANGED <<usage, mutex, dev, head, next, graph, fifo, thr, resp, writes, got>>
  BY <1>3 DEF StickRuns
<1>7. r = [Head(stick.buf[j.f]) EXCEPT !.mem =
             InMemory(fifo[j.o].graph, FromMemory(fifo[j.f].graph, Head(stick.buf[j.f]).mem))]
  BY <1>3, <1>5 DEF Result
<1>8. stick' = [jobs |-> Tail(stick.jobs),
                buf |-> [f \in Fifos |-> IF f = j.o /\ Chained(f) THEN Append(Left(j, f), r)
                                         ELSE Left(j, f)],
                out |-> [stick.out EXCEPT ![j.o] = Append(@, r)]]
  BY <1>3, <1>7, Zenon DEF StickRuns
<1>9. /\ stick'.jobs = Tail(stick.jobs) /\ DOMAIN stick' = {"jobs", "buf", "out"}
      /\ stick'.buf = [f \in Fifos |-> IF f = j.o /\ Chained(f) THEN Append(Left(j, f), r)
                                       ELSE Left(j, f)]
      /\ stick'.out = [stick.out EXCEPT ![j.o] = Append(stick.out[j.o], r)]
  BY <1>8
<1>10. \A f \in Fifos : stick'.buf[f] = IF f = j.o /\ Chained(f) THEN Append(Left(j, f), r)
                                        ELSE Left(j, f)
  BY <1>9
<1>11. \A f \in Fifos : IsSeq(Left(j, f))
  BY <1>4, <1>6, SeqTaken DEF Left, DataShape, StickShape
<1>12. /\ stick'.out[j.o] = Append(stick.out[j.o], r)
       /\ \A f \in Fifos : f # j.o => stick'.out[f] = stick.out[f]
       /\ stick'.out = [f \in Fifos |-> stick'.out[f]]
  BY <1>4, <1>9 DEF DataShape, StickShape
<1>13. \A f \in Fifos : IsSeq(stick'.buf[f])
  BY <1>10, <1>11, SeqAppended
<1>14. \A f \in Fifos : IsSeq(stick'.out[f])
  <2> TAKE f \in Fifos
  <2>1. IsSeq(stick.out[f]) /\ IsSeq(stick.out[j.o])
    BY <1>4 DEF DataShape, StickShape
  <2>2. IsSeq(Append(stick.out[j.o], r))
    BY <2>1, SeqAppended
  <2>3. QED
    BY <1>12, <2>1, <2>2
<1>15. stick'.buf = [f \in Fifos |-> stick'.buf[f]]
  BY <1>9
<1>16. StickShape'
  <2>1. stick'.jobs \in Seq(JobRecords)
    BY <1>2, <1>9
  <2>2. \A f \in Fifos : IsSeq(stick'.buf[f]) /\ IsSeq(stick'.out[f])
    BY <1>13, <1>14
  <2>3. QED
    BY <2>1, <2>2, <1>9, <1>12, <1>15, Zenon DEF StickShape, IsSeq, JobRecords
<1>17. Ran(j, r)
  <2>1. stick.jobs # <<>> /\ j = Head(stick.jobs) /\ stick'.jobs = Tail(stick.jobs)
    BY <1>1, <1>3, <1>9
  <2>2. /\ stick'.out[j.o] = Append(stick.out[j.o], r)
        /\ \A f \in Fifos : f # j.o => stick'.out[f] = stick.out[f]
    BY <1>12
  <2>3. QED
    BY <2>1, <2>2, <1>5, <1>6, <1>10, <1>11, <1>16, Zenon DEF Ran
<1>18. QED
  BY <1>17

LEMMA CloseDoes ==
  ASSUME HoldInv, DataShape, NEW t \in Threads, Close(t)
  PROVE  /\ thr[t].pc = "close" /\ OnlyThread(t) /\ (thr'[t] = Idle \/ Goes(t, "destroy"))
         /\ FifoShape' /\ StickShape'
         /\ \A f \in Fifos :
              /\ fifo'[f].st = fifo[f].st /\ fifo'[f].type = fifo[f].type
              /\ fifo'[f].dev = fifo[f].dev
              /\ fifo'[f].writeCount = fifo[f].writeCount
                   /\ fifo'[f].consumed = fifo[f].consumed
              /\ fifo'[f].remaining = fifo[f].remaining /\ fifo'[f].apiRead = fifo[f].apiRead
              /\ \/ fifo'[f].in = <<>> /\ fifo'[f].out = <<>>
                 \/ fifo'[f].in = fifo[f].in /\ fifo'[f].out = fifo[f].out
              /\ stick'.buf[f] = <<>> /\ stick'.out[f] = <<>>
         /\ stick'.jobs = <<>> /\ FifoMutexes
         /\ UNCHANGED <<usage, next, writes, got>>
<1>0. thr[t].pc = "close" /\ usage' = usage /\ FifoMutexes /\ UNCHANGED <<usage, next, writes,
        got>>
  BY DevicesDo DEF Close, Devices
<1>1. OnlyThread(t) /\ (thr'[t] = Idle \/ Goes(t, "destroy"))
  BY <1>0, GoesTo DEF Close, OnlyThread, Goes, KeepsWhat
<1>2. PICK listed : fifo' = [f \in Fifos |->
                   IF f \in listed THEN [fifo[f] EXCEPT !.in = <<>>, !.out = <<>>]
                   ELSE fifo[f]]
  BY DEF Close
<1>3. stick' = [jobs |-> <<>>, buf |-> [f \in Fifos |-> <<>>], out |-> [f \in Fifos |-> <<>>]]
  BY DEF Close
<1>4. ASSUME NEW f \in Fifos
      PROVE  /\ DOMAIN fifo'[f] = FifoFields
             /\ fifo'[f].st = fifo[f].st /\ fifo'[f].type = fifo[f].type
             /\ fifo'[f].dev = fifo[f].dev
             /\ fifo'[f].writeCount = fifo[f].writeCount /\ fifo'[f].consumed = fifo[f].consumed
             /\ fifo'[f].remaining = fifo[f].remaining /\ fifo'[f].apiRead = fifo[f].apiRead
             /\ \/ fifo'[f].in = <<>> /\ fifo'[f].out = <<>>
                \/ fifo'[f].in = fifo[f].in /\ fifo'[f].out = fifo[f].out
  <2>1. DOMAIN fifo[f] = FifoFields
    BY DEF DataShape, FifoShape
  <2>2. CASE f \in listed
    <3>1. fifo'[f] = [fifo[f] EXCEPT !.in = <<>>, !.out = <<>>]
      BY <1>2, <2>2
    <3>2. PICK r : r = [fifo[f] EXCEPT !.in = <<>>, !.out = <<>>]
      OBVIOUS
    <3>3. /\ DOMAIN r = FifoFields
          /\ r.st = fifo[f].st /\ r.type = fifo[f].type /\ r.dev = fifo[f].dev
          /\ r.writeCount = fifo[f].writeCount /\ r.consumed = fifo[f].consumed
          /\ r.remaining = fifo[f].remaining /\ r.apiRead = fifo[f].apiRead
          /\ r.in = <<>> /\ r.out = <<>>
      BY <2>1, <3>2, SMTT(30) DEF FifoFields
    <3>4. QED
      BY <3>1, <3>2, <3>3
  <2>3. CASE f \notin listed
    BY <1>2, <2>1, <2>3
  <2>4. QED
    BY <2>2, <2>3
<1>5. FifoShape'
  BY <1>2, <1>4 DEF FifoShape
<1>6. /\ stick'.jobs = <<>> /\ DOMAIN stick' = {"jobs", "buf", "out"}
      /\ stick'.buf = [f \in Fifos |-> <<>>] /\ stick'.out = [f \in Fifos |-> <<>>]
  BY <1>3
<1>7. \A f \in Fifos : stick'.buf[f] = <<>> /\ stick'.out[f] = <<>>
  BY <1>6
<1>8. StickShape'
  BY <1>6, <1>7, SeqEmpty DEF StickShape, JobRecords
<1>9. QED
  BY <1>0, <1>1, <1>4, <1>5, <1>6, <1>7, <1>8

-----------------------------------------------------------------------------
(* The type invariant of fifos, elements and calls.                          *)

\* The counts of a fifo, its user parameters, and its elements at the stick. The
\* remaining consumers are 0 only between the two halves of a trigger.
CountsTyped(f) ==
  /\ fifo[f].st \in {"created", "allocated", "freed"}
  /\ fifo[f].type = usage.type[f]
  /\ fifo[f].remaining \in 0 .. usage.consumers
  /\ fifo[f].remaining = 0 => mutex[f] # None
  /\ fifo[f].apiRead \in BOOLEAN
  /\ fifo[f].apiRead => fifo[f].remaining < usage.consumers /\ fifo[f].st # "created"
  /\ fifo[f].writeCount \in Nat /\ fifo[f].consumed \in Nat
  /\ fifo[f].consumed <= fifo[f].writeCount
ParamsTyped(f) ==
  /\ IsSeq(fifo[f].in) /\ IsSeq(fifo[f].out)
  /\ \A i \in 1 .. Len(fifo[f].in) : fifo[f].in[i] \in 1 .. writes
  /\ \A i \in 1 .. Len(fifo[f].out) : fifo[f].out[i] \in 0 .. writes
  /\ \A i, j \in 1 .. Len(fifo[f].in) : fifo[f].in[i] = fifo[f].in[j] => i = j
Stocked(f) ==
  /\ Len(stick.out[f]) <= NumElements
  /\ usage.type[f] = "WO" => Len(stick.buf[f]) <= NumElements
FifosTyped == \A f \in Fifos : CountsTyped(f) /\ ParamsTyped(f) /\ Stocked(f)

\* A number is given to one element.
Writing(t) == thr[t].op = "WRITE" /\ thr[t].pc \in {"send", "count"}
NumberOwn(t) ==
  Writing(t) =>
    /\ thr[t].e.n \in 1 .. writes
    /\ \A f \in Fifos : \A i \in 1 .. Len(fifo[f].in) : fifo[f].in[i] # thr[t].e.n
    /\ \A s \in Threads : Writing(s) /\ s # t => thr[s].e.n # thr[t].e.n
\* What a call has found stays true.
PlaceTyped(t) ==
  /\ thr[t].op = "FALLOC" /\ thr[t].pc # "enter" => fifo[thr[t].f].st = "created"
  /\ thr[t].op = "READ" /\ thr[t].pc \in {"wait", "count"} => fifo[thr[t].f].st # "created"
  /\ thr[t].op = "QUEUE" /\ thr[t].pc # "enter" => usage.type[thr[t].o] # "WO"
CallsTyped ==
  \A t \in Threads : thr[t].param \in 0 .. writes /\ NumberOwn(t) /\ PlaceTyped(t)

JobsTyped == \A k \in 1 .. Len(stick.jobs) : usage.type[stick.jobs[k].o] # "WO"

DataInv ==
  /\ DataShape /\ FifosTyped /\ JobsTyped /\ CallsTyped
  /\ writes \in 0 .. usage.writes /\ usage.consumers \in Nat \ {0}

-----------------------------------------------------------------------------
(* What a step of a call means for the others.                               *)

NumbersGo(t) ==
  /\ \/ writes' = writes
     \/ /\ writes' = writes + 1 /\ writes < usage.writes
        /\ thr'[t].e.n = writes + 1
  /\ Writing(t)' => writes' = writes + 1 \/ (Writing(t) /\ thr'[t].e = thr[t].e)
  /\ \A f \in Fifos : \A i \in 1 .. Len(fifo'[f].in) :
       \/ \E k \in 1 .. Len(fifo[f].in) : fifo'[f].in[i] = fifo[f].in[k]
       \/ Writing(t) /\ fifo'[f].in[i] = thr[t].e.n /\ thr'[t] = Idle
StatesGo(t) ==
  /\ \A f \in Fifos : fifo'[f].st = "created" => fifo[f].st = "created"
  /\ \A f \in Fifos : fifo[f].st = "created" /\ fifo'[f].st # "created" =>
       thr[t].op \in ObjectOps /\ thr[t].f = f
Good(t) ==
  /\ DataShape' /\ FifosTyped' /\ JobsTyped' /\ NumbersGo(t) /\ StatesGo(t)
  /\ thr'[t].param \in 0 .. writes' /\ PlaceTyped(t)' /\ OnlyThread(t)

\* A fifo whose elements are as they were.
KeptFifo(f) ==
  /\ ElementsSame(f) /\ fifo'[f].st = fifo[f].st /\ mutex'[f] = mutex[f]
  /\ stick'.buf[f] = stick.buf[f] /\ stick'.out[f] = stick.out[f]

LEMMA KeptTyped ==
  ASSUME DataInv, NEW f \in Fifos, KeptFifo(f), UNCHANGED usage, writes' >= writes,
           writes' \in Nat
  PROVE  CountsTyped(f)' /\ ParamsTyped(f)' /\ Stocked(f)'
<1>1. CountsTyped(f)'
  BY DEF DataInv, KeptFifo, ElementsSame, FifosTyped, CountsTyped
<1>2. ParamsTyped(f)'
  <2>1. /\ fifo'[f].in = fifo[f].in /\ fifo'[f].out = fifo[f].out
        /\ ParamsTyped(f) /\ writes \in Nat
    BY NcAssumption DEF DataInv, FifosTyped, KeptFifo, ElementsSame
  <2>2. \A x : (x \in 1 .. writes => x \in 1 .. writes')
                 /\ (x \in 0 .. writes => x \in 0 .. writes')
    BY <2>1
  <2>3. IsSeq(fifo'[f].in) /\ IsSeq(fifo'[f].out)
    BY <2>1 DEF ParamsTyped
  <2>4. /\ \A i \in 1 .. Len(fifo'[f].in) : fifo'[f].in[i] \in 1 .. writes'
        /\ \A i \in 1 .. Len(fifo'[f].out) : fifo'[f].out[i] \in 0 .. writes'
    BY <2>1, <2>2 DEF ParamsTyped
  <2>5. QED
    BY <2>1, <2>3, <2>4, Zenon DEF ParamsTyped, IsSeq
<1>3. Stocked(f)'
  BY DEF DataInv, KeptFifo, FifosTyped, Stocked
<1>4. QED
  BY <1>1, <1>2, <1>3

\* A step that changes no fifo and no element.
LEMMA QuietTyped ==
  ASSUME HoldInv, DataInv, NEW t \in Threads, UNCHANGED <<usage, fifo, stick, writes>>,
           FifoMutexes,
         OnlyThread(t), thr'[t].param \in 0 .. writes, PlaceTyped(t)',
         ~Writing(t)' \/ (Writing(t) /\ thr'[t].e = thr[t].e)
  PROVE  Good(t)
<1>1. \A f \in Fifos : KeptFifo(f)
  BY DEF KeptFifo, ElementsSame, FifoMutexes
<1>2. FifosTyped'
  BY <1>1, KeptTyped, NcAssumption DEF FifosTyped, DataInv
<1>3. DataShape' /\ JobsTyped'
  BY DEF DataInv, DataShape, FifoShape, StickShape, JobsTyped, JobRecords
<1>4. NumbersGo(t) /\ StatesGo(t)
  BY DEF NumbersGo, StatesGo
<1>5. QED
  BY <1>2, <1>3, <1>4 DEF Good

LEMMA GoodCalls ==
  ASSUME HoldInv, DataInv, NEW t \in Threads, thr[t].pc # "idle", Good(t), UNCHANGED usage
  PROVE  DataInv'
<1>0. /\ \A s \in Threads : s # t => thr'[s] = thr[s]
      /\ writes \in Nat /\ writes' \in Nat /\ writes' >= writes /\ writes' <= writes + 1
      /\ writes' \in 0 .. usage.writes
  BY NcAssumption DEF Good, OnlyThread, NumbersGo, DataInv, HoldInv, ThreadInv, ThrOK
<1>1. \A s \in Threads : thr'[s].param \in 0 .. writes'
  <2> TAKE s \in Threads
  <2>1. CASE s = t
    BY <2>1 DEF Good
  <2>2. CASE s # t
    BY <1>0, <2>2 DEF DataInv, CallsTyped
  <2>3. QED
    BY <2>1, <2>2
<1>2. ASSUME NEW s \in Threads
      PROVE  PlaceTyped(s)'
  <2>1. CASE s = t
    BY <2>1 DEF Good
  <2>2. CASE s # t
    <3>1. thr'[s] = thr[s] /\ PlaceTyped(s)
      BY <1>0, <2>2 DEF DataInv, CallsTyped
    <3>2. ASSUME thr[s].op = "FALLOC", thr[s].pc # "enter"
          PROVE  fifo'[thr[s].f].st = "created"
      <4>1. thr[s].pc # "idle"
        BY <3>2 DEF HoldInv, ThreadInv, Calling, Idle
      <4>2. thr[s].f \in Fifos
        BY <3>2, <4>1, CallHas DEF HoldInv, ThreadInv
      <4>3. fifo[thr[s].f].st = "created"
        BY <3>1, <3>2 DEF PlaceTyped
      <4>4. CASE fifo'[thr[s].f].st # "created"
        <5>1. thr[t].op \in ObjectOps /\ thr[t].f = thr[s].f
          BY <4>2, <4>3, <4>4 DEF Good, StatesGo
        <5>2. s \in Busy /\ t \in Busy
          BY <4>1 DEF Busy
        <5>3. thr[s].f \in Objects(thr[s]) /\ thr[t].f \in Objects(thr[t])
          BY <4>2, <5>1, NcAssumption DEF Objects
        <5>4. {thr[s].op, thr[t].op} \cap ObjectOps # {}
          BY <5>1
        <5>5. QED
          BY <2>2, <5>1, <5>2, <5>3, <5>4 DEF HoldInv, ThreadInv, Apart
      <4>5. QED
        BY <4>4
    <3>3. ASSUME thr[s].op = "READ", thr[s].pc \in {"wait", "count"}
          PROVE  fifo'[thr[s].f].st # "created"
      <4>1. thr[s].f \in Fifos
        BY <3>3, CallHas DEF HoldInv, ThreadInv
      <4>2. fifo[thr[s].f].st # "created"
        BY <3>1, <3>3 DEF PlaceTyped
      <4>3. QED
        BY <4>1, <4>2 DEF Good, StatesGo
    <3>4. QED
      BY <3>1, <3>2, <3>3 DEF PlaceTyped
  <2>3. QED
    BY <2>1, <2>2
<1>3. ASSUME NEW s \in Threads, Writing(s)'
      PROVE  /\ thr'[s].e.n \in 1 .. writes'
             /\ \A f \in Fifos : \A i \in 1 .. Len(fifo'[f].in) : fifo'[f].in[i] # thr'[s].e.n
             /\ \A r \in Threads : Writing(r)' /\ r # s => thr'[r].e.n # thr'[s].e.n
  <2>1. \A r \in Threads : Writing(r)' =>
            \/ thr'[r].e.n = writes + 1 /\ writes' = writes + 1 /\ r = t
            \/ Writing(r) /\ thr'[r].e = thr[r].e
    BY <1>0 DEF Good, NumbersGo, Writing
  <2>2. \A r \in Threads : Writing(r) => thr[r].e.n \in 1 .. writes
    BY DEF DataInv, CallsTyped, NumberOwn
  <2>3. thr'[s].e.n \in 1 .. writes'
    BY <1>0, <1>3, <2>1, <2>2
  <2>4. \A r \in Threads : Writing(r)' /\ r # s => thr'[r].e.n # thr'[s].e.n
    <3> TAKE r \in Threads
    <3> HAVE Writing(r)' /\ r # s
    <3>1. CASE Writing(r) /\ thr'[r].e = thr[r].e /\ Writing(s) /\ thr'[s].e = thr[s].e
      BY <3>1 DEF DataInv, CallsTyped, NumberOwn
    <3>2. CASE thr'[r].e.n = writes + 1 /\ writes' = writes + 1 /\ r = t
      <4>1. Writing(s) /\ thr'[s].e = thr[s].e
        BY <1>3, <2>1, <3>2
      <4>2. QED
        BY <1>0, <2>2, <3>2, <4>1
    <3>3. CASE thr'[s].e.n = writes + 1 /\ writes' = writes + 1 /\ s = t
      <4>1. Writing(r) /\ thr'[r].e = thr[r].e
        BY <2>1, <3>3
      <4>2. QED
        BY <1>0, <2>2, <3>3, <4>1
    <3>4. QED
      BY <1>3, <2>1, <3>1, <3>2, <3>3
  <2>5. ASSUME NEW f \in Fifos, NEW i \in 1 .. Len(fifo'[f].in)
        PROVE  fifo'[f].in[i] # thr'[s].e.n
    <3>1. CASE \E k \in 1 .. Len(fifo[f].in) : fifo'[f].in[i] = fifo[f].in[k]
      <4>1. PICK k \in 1 .. Len(fifo[f].in) : fifo'[f].in[i] = fifo[f].in[k]
        BY <3>1
      <4>2. fifo[f].in[k] \in 1 .. writes
        BY DEF DataInv, FifosTyped, ParamsTyped
      <4>3. CASE thr'[s].e.n = writes + 1
        BY <1>0, <4>1, <4>2, <4>3
      <4>4. CASE Writing(s) /\ thr'[s].e = thr[s].e
        BY <4>1, <4>4 DEF DataInv, CallsTyped, NumberOwn
      <4>5. QED
        BY <1>3, <2>1, <4>3, <4>4
    <3>2. CASE Writing(t) /\ fifo'[f].in[i] = thr[t].e.n /\ thr'[t] = Idle
      <4>1. s # t
        BY <1>3, <3>2 DEF Writing, Idle
      <4>2. Writing(s) /\ thr'[s].e = thr[s].e
        BY <1>3, <2>1, <4>1
      <4>3. QED
        BY <3>2, <4>1, <4>2 DEF DataInv, CallsTyped, NumberOwn
    <3>3. QED
      BY <3>1, <3>2 DEF Good, NumbersGo
  <2>6. QED
    BY <2>3, <2>4, <2>5
<1>4. \A s \in Threads : NumberOwn(s)'
  BY <1>3 DEF NumberOwn
<1>5. CallsTyped'
  BY <1>1, <1>2, <1>4 DEF CallsTyped
<1>6. QED
  BY <1>0, <1>5 DEF Good, DataInv

-----------------------------------------------------------------------------
(* Every operation keeps the types.                                          *)

LEMMA IdlePlace ==
  ASSUME NEW t \in Threads, thr'[t] = Idle, writes' \in Nat
  PROVE  thr'[t].param \in 0 .. writes' /\ PlaceTyped(t)' /\ ~Writing(t)'
  BY DEF Idle, PlaceTyped, Writing

\* A call of an operation that the types say nothing about.
LEMMA OtherPlace ==
  ASSUME DataInv, NEW t \in Threads, KeepsWhat(t), writes' = writes,
         thr[t].op \notin {"FALLOC", "READ", "QUEUE", "WRITE"}
  PROVE  thr'[t].param \in 0 .. writes' /\ PlaceTyped(t)' /\ ~Writing(t)'
  BY DEF DataInv, CallsTyped, KeepsWhat, SameCall, PlaceTyped, Writing

LEMMA WritesNat == DataInv /\ usage \in Usages => writes \in Nat /\ usage.writes \in Nat
  BY NcAssumption DEF DataInv

LEMMA QuietIdle ==
  ASSUME HoldInv, DataInv, NEW t \in Threads, UNCHANGED <<usage, fifo, stick, writes>>,
           FifoMutexes,
         OnlyThread(t), thr'[t] = Idle
  PROVE  Good(t)
  BY IdlePlace, QuietTyped, WritesNat DEF HoldInv, ThreadInv, ThrOK

LEMMA QuietOther ==
  ASSUME HoldInv, DataInv, NEW t \in Threads, UNCHANGED <<usage, fifo, stick, writes>>,
           FifoMutexes,
         OnlyThread(t), KeepsWhat(t), thr[t].op \notin {"FALLOC", "READ", "QUEUE", "WRITE"}
  PROVE  Good(t)
  BY OtherPlace, QuietTyped

LEMMA ProceedsQuiet ==
  ASSUME HoldInv, DataInv, NEW t \in Threads, UNCHANGED <<usage, fifo, stick, writes>>,
           FifoMutexes,
         Proceeds(t), thr[t].op \notin {"FALLOC", "READ", "QUEUE", "WRITE"}
  PROVE  Good(t)
<1>1. OnlyThread(t) /\ (thr'[t] = Idle \/ KeepsWhat(t))
  BY ProceedsDoes DEF OnlyThread, KeepsWhat
<1>2. QED
  BY <1>1, QuietIdle, QuietOther

LEMMA DevicesGood ==
  ASSUME HoldInv, DataInv, NEW t \in Threads, Devices(t), thr[t].op \in DeviceOps
  PROVE  Good(t)
<1>1. CASE ~Close(t)
  BY <1>1, DevicesDo, ProceedsQuiet DEF DeviceOps
<1>2. CASE Close(t)
  <2>1. DataShape
    BY DEF DataInv
  <2>2. /\ OnlyThread(t) /\ (thr'[t] = Idle \/ KeepsWhat(t))
        /\ DataShape' /\ stick'.jobs = <<>> /\ writes' = writes /\ usage' = usage
    BY <1>2, <2>1, CloseDoes DEF Goes, DataShape
  <2>3. thr'[t].param \in 0 .. writes' /\ PlaceTyped(t)' /\ ~Writing(t)'
    BY <2>2, IdlePlace, OtherPlace, WritesNat DEF DeviceOps, HoldInv, ThreadInv, ThrOK
  <2>4. ASSUME NEW f \in Fifos
        PROVE  CountsTyped(f)' /\ ParamsTyped(f)' /\ Stocked(f)'
    <3>1. /\ fifo'[f].st = fifo[f].st /\ fifo'[f].type = fifo[f].type
          /\ fifo'[f].writeCount = fifo[f].writeCount /\ fifo'[f].consumed = fifo[f].consumed
          /\ fifo'[f].remaining = fifo[f].remaining /\ fifo'[f].apiRead = fifo[f].apiRead
          /\ mutex'[f] = mutex[f]
      BY <1>2, <2>1, CloseDoes DEF FifoMutexes
    <3>2. CountsTyped(f)'
      BY <2>2, <3>1 DEF DataInv, FifosTyped, CountsTyped
    <3>3. ParamsTyped(f)'
      <4>1. CASE fifo'[f].in = <<>> /\ fifo'[f].out = <<>>
        BY <4>1, SeqEmpty DEF ParamsTyped
      <4>2. CASE fifo'[f].in = fifo[f].in /\ fifo'[f].out = fifo[f].out
        BY <2>2, <4>2 DEF DataInv, FifosTyped, ParamsTyped
      <4>3. QED
        BY <1>2, <2>1, <4>1, <4>2, CloseDoes
    <3>4. Stocked(f)'
      <4>1. stick'.buf[f] = <<>> /\ stick'.out[f] = <<>>
        BY <1>2, <2>1, CloseDoes
      <4>2. QED
        BY <4>1, SeqEmpty, NcAssumption DEF Stocked
    <3>5. QED
      BY <3>2, <3>3, <3>4
  <2>5. FifosTyped'
    BY <2>4 DEF FifosTyped
  <2>6. JobsTyped'
    BY <2>2, SeqEmpty DEF JobsTyped
  <2>7. NumbersGo(t)
    <3>1. \A f \in Fifos : Len(fifo'[f].in) = 0 \/ fifo'[f].in = fifo[f].in
      BY <1>2, <2>1, CloseDoes, SeqEmpty
    <3>2. QED
      BY <2>2, <2>3, <3>1 DEF NumbersGo
  <2>8. StatesGo(t)
    BY <1>2, <2>1, CloseDoes DEF StatesGo
  <2>9. QED
    BY <2>2, <2>3, <2>5, <2>6, <2>7, <2>8 DEF Good
<1>3. QED
  BY <1>1, <1>2

LEMMA GraphsGood ==
  ASSUME HoldInv, DataInv, NEW t \in Threads, GraphCalls(t),
         thr[t].op \in {"GALLOC", "GDESTROY", "STATE"}
  PROVE  Good(t)
  BY GraphsDo, ProceedsQuiet

\* User parameters that are as they were, or among those of before.
LEMMA ParamsSame ==
  ASSUME DataInv, NEW f \in Fifos, fifo'[f].in = fifo[f].in, fifo'[f].out = fifo[f].out,
         writes' \in Nat, writes \in Nat, writes' >= writes
  PROVE  ParamsTyped(f)'
<1>1. ParamsTyped(f)
  BY DEF DataInv, FifosTyped
<1>2. \A x : (x \in 1 .. writes => x \in 1 .. writes')
               /\ (x \in 0 .. writes => x \in 0 .. writes')
  OBVIOUS
<1>3. IsSeq(fifo'[f].in) /\ IsSeq(fifo'[f].out)
  BY <1>1 DEF ParamsTyped
<1>4. /\ \A i \in 1 .. Len(fifo'[f].in) : fifo'[f].in[i] \in 1 .. writes'
      /\ \A i \in 1 .. Len(fifo'[f].out) : fifo'[f].out[i] \in 0 .. writes'
  BY <1>1, <1>2 DEF ParamsTyped
<1>5. \A i, j \in 1 .. Len(fifo'[f].in) : fifo'[f].in[i] = fifo'[f].in[j] => i = j
  BY <1>1 DEF ParamsTyped
<1>6. QED
  BY <1>3, <1>4, <1>5, Zenon DEF ParamsTyped, IsSeq

\* The operation changes one fifo and none of its elements but those named.
LEMMA OneFifo ==
  ASSUME HoldInv, DataInv, NEW t \in Threads, NEW f \in Fifos, OthersSame(f), FifoShape',
         \A h \in Fifos : h # f => mutex'[h] = mutex[h],
         UNCHANGED <<usage, stick, writes>>,
         CountsTyped(f)', ParamsTyped(f)'
  PROVE  DataShape' /\ FifosTyped' /\ JobsTyped'
<1>1. \A h \in Fifos : h # f => KeptFifo(h)
  BY DEF KeptFifo, ElementsSame, OthersSame
<1>2. Stocked(f)'
  BY DEF DataInv, FifosTyped, Stocked
<1>3. FifosTyped'
  BY <1>1, <1>2, KeptTyped, WritesNat DEF FifosTyped, HoldInv, ThreadInv, ThrOK
<1>4. DataShape' /\ JobsTyped'
  BY DEF DataInv, DataShape, StickShape, JobsTyped, JobRecords
<1>5. QED
  BY <1>3, <1>4

LEMMA OneFifoNumbers ==
  ASSUME NEW t \in Threads, NEW f \in Fifos, OthersSame(f), UNCHANGED writes,
         ~Writing(t)' \/ (Writing(t) /\ thr'[t].e = thr[t].e),
         \A i \in 1 .. Len(fifo'[f].in) : \E k \in 1 .. Len(fifo[f].in) : fifo'[f].in[i] = fifo[f].in[k]
  PROVE  NumbersGo(t)
  BY DEF NumbersGo, OthersSame

LEMMA OptionsGood ==
  ASSUME HoldInv, DataInv, NEW t \in Threads, SetType(t) \/ SetDesc(t)
  PROVE  Good(t)
<1>0. DataShape
  BY DEF DataInv
<1> PICK f : f = thr[t].f
  OBVIOUS
<1>1. /\ f \in Fifos /\ OthersSame(f) /\ FifoShape'
      /\ ElementsSame(f) /\ fifo'[f].st = fifo[f].st
      /\ thr'[t] = Idle /\ OnlyThread(t)
      /\ UNCHANGED <<usage, mutex, stick, writes>>
  BY <1>0, OptionDoes DEF DataShape
<1>2. thr'[t].param \in 0 .. writes' /\ PlaceTyped(t)' /\ ~Writing(t)'
  BY <1>1, IdlePlace, WritesNat DEF HoldInv, ThreadInv, ThrOK
<1>3. KeptFifo(f)
  BY <1>1 DEF KeptFifo
<1>4. CountsTyped(f)' /\ ParamsTyped(f)'
  BY <1>1, <1>3, KeptTyped, WritesNat DEF HoldInv, ThreadInv, ThrOK
<1>5. DataShape' /\ FifosTyped' /\ JobsTyped'
  BY <1>1, <1>4, OneFifo
<1>6. NumbersGo(t)
  BY <1>1, <1>2, OneFifoNumbers DEF ElementsSame
<1>7. StatesGo(t)
  BY <1>1 DEF StatesGo, OthersSame
<1>8. QED
  BY <1>1, <1>2, <1>5, <1>6, <1>7 DEF Good

LEMMA FAllocsGood ==
  ASSUME HoldInv, DataInv, NEW t \in Threads, FifoAllocs(t), thr[t].op = "FALLOC"
  PROVE  Good(t)
<1>0. DataShape /\ thr[t].param \in 0 .. writes /\ PlaceTyped(t)
      /\ writes \in Nat /\ usage.consumers \in Nat \ {0} /\ FifoShape
  BY WritesNat DEF DataInv, DataShape, CallsTyped, HoldInv, ThreadInv, ThrOK
<1> PICK f : f = thr[t].f
  OBVIOUS
<1>1. CASE FAllocRead(t)
  <2>1. /\ thr[t].pc = "enter" /\ OnlyThread(t)
        /\ UNCHANGED <<usage, mutex, fifo, stick, writes>>
        /\ \/ thr'[t] = Idle
           \/ /\ fifo[f].st = "created" /\ SameCall(thr'[t], thr[t])
              /\ thr'[t].param = thr[t].param
    BY <1>1, FAllocReadDoes
  <2>2. FifoMutexes
    BY <2>1 DEF FifoMutexes
  <2>3. CASE thr'[t] = Idle
    BY <2>1, <2>2, <2>3, QuietIdle
  <2>4. CASE /\ fifo[f].st = "created" /\ SameCall(thr'[t], thr[t])
             /\ thr'[t].param = thr[t].param
    <3>1. PlaceTyped(t)' /\ ~Writing(t)' /\ thr'[t].param \in 0 .. writes
      BY <1>0, <2>1, <2>4 DEF PlaceTyped, SameCall, Writing
    <3>2. QED
      BY <2>1, <2>2, <3>1, QuietTyped
  <2>5. QED
    BY <2>1, <2>3, <2>4
<1>2. CASE FAllocFind(t)
  <2>1. /\ f \in Fifos /\ OthersSame(f) /\ FifoShape' /\ OnlyThread(t)
        /\ fifo'[f].st = fifo[f].st
        /\ UNCHANGED <<usage, mutex, stick, writes>> /\ thr[t].pc = "find"
    BY <1>0, <1>2, FAllocFindDoes
  <2>2. fifo[f].st = "created"
    BY <1>0, <2>1 DEF PlaceTyped
  <2>3. StatesGo(t)
    BY <2>1 DEF StatesGo, OthersSame
  <2>4. CASE thr'[t] = Idle /\ ElementsSame(f)
    <3>1. thr'[t].param \in 0 .. writes' /\ PlaceTyped(t)' /\ ~Writing(t)'
      BY <1>0, <2>1, <2>4, IdlePlace
    <3>2. KeptFifo(f)
      BY <2>1, <2>4 DEF KeptFifo
    <3>3. CountsTyped(f)' /\ ParamsTyped(f)'
      BY <1>0, <2>1, <3>2, KeptTyped
    <3>4. DataShape' /\ FifosTyped' /\ JobsTyped'
      BY <2>1, <3>3, OneFifo
    <3>5. NumbersGo(t)
      BY <2>1, <2>4, <3>1, OneFifoNumbers DEF ElementsSame
    <3>6. QED
      BY <2>1, <2>3, <3>1, <3>4, <3>5 DEF Good
  <2>5. CASE /\ Goes(t, "link")
             /\ fifo'[f].type = fifo[f].type
             /\ fifo'[f].writeCount = fifo[f].writeCount
             /\ fifo'[f].consumed = fifo[f].consumed
             /\ fifo'[f].remaining = usage.consumers
             /\ fifo'[f].apiRead = fifo[f].apiRead
             /\ fifo'[f].in = <<>> /\ fifo'[f].out = <<>>
    <3>1. thr'[t].param \in 0 .. writes' /\ PlaceTyped(t)' /\ ~Writing(t)'
      BY <1>0, <2>1, <2>2, <2>5 DEF Goes, KeepsWhat, SameCall, PlaceTyped, Writing
    <3>2. CountsTyped(f)'
      BY <1>0, <2>1, <2>2, <2>5 DEF DataInv, FifosTyped, CountsTyped
    <3>3. ParamsTyped(f)'
      BY <2>5, SeqEmpty DEF ParamsTyped
    <3>4. DataShape' /\ FifosTyped' /\ JobsTyped'
      BY <2>1, <3>2, <3>3, OneFifo
    <3>5. NumbersGo(t)
      BY <2>1, <2>5, <3>1, OneFifoNumbers, SeqEmpty
    <3>6. QED
      BY <2>1, <2>3, <3>1, <3>4, <3>5 DEF Good
  <2>6. QED
    BY <1>0, <1>2, <2>4, <2>5, FAllocFindDoes
<1>3. CASE FAllocLink(t) \/ FAllocSend(t) \/ FAllocCheck(t)
  <2>1. /\ f \in Fifos /\ OthersSame(f) /\ FifoShape' /\ OnlyThread(t)
        /\ ElementsSame(f) /\ thr[t].pc \in {"link", "send", "check"}
        /\ FifoMutexes /\ UNCHANGED <<usage, stick, writes>>
        /\ \/ fifo'[f].st = fifo[f].st
           \/ fifo'[f].st = "allocated" /\ thr'[t] = Idle
        /\ thr'[t] = Idle \/ KeepsWhat(t)
    BY <1>0, <1>3, FAllocRestDoes DEF Goes
  <2>2. fifo[f].st = "created"
    BY <1>0, <2>1 DEF PlaceTyped
  <2>3. StatesGo(t)
    BY <2>1, <2>2 DEF StatesGo, OthersSame, ObjectOps
  <2>4. thr'[t].param \in 0 .. writes' /\ PlaceTyped(t)' /\ ~Writing(t)'
    <3>1. CASE thr'[t] = Idle
      BY <1>0, <2>1, <3>1, IdlePlace
    <3>2. CASE thr'[t] # Idle
      BY <1>0, <2>1, <2>2, <3>2 DEF KeepsWhat, SameCall, PlaceTyped, Writing
    <3>3. QED
      BY <3>1, <3>2
  <2>5. CountsTyped(f)'
    <3>1. CountsTyped(f) /\ mutex'[f] = mutex[f] /\ usage' = usage
      BY <2>1 DEF DataInv, FifosTyped, FifoMutexes
    <3>2. ~fifo[f].apiRead
      BY <2>2, <3>1 DEF CountsTyped
    <3>3. fifo'[f].st \in {"created", "allocated", "freed"} /\ ~fifo'[f].apiRead
      BY <2>1, <2>2, <3>2 DEF ElementsSame
    <3>4. fifo'[f].apiRead \in BOOLEAN
      BY <2>1, <3>1, Zenon DEF CountsTyped, ElementsSame
    <3>5. /\ fifo'[f].type = usage'.type[f]
          /\ fifo'[f].remaining \in 0 .. usage'.consumers
          /\ fifo'[f].remaining = 0 => mutex'[f] # None
          /\ fifo'[f].writeCount \in Nat /\ fifo'[f].consumed \in Nat
          /\ fifo'[f].consumed <= fifo'[f].writeCount
      BY <2>1, <3>1 DEF CountsTyped, ElementsSame
    <3>6. QED
      BY <3>3, <3>4, <3>5, Zenon DEF CountsTyped
  <2>6. ParamsTyped(f)'
    BY <2>1, ParamsSame, WritesNat DEF ElementsSame, HoldInv, ThreadInv, ThrOK
  <2>7. DataShape' /\ FifosTyped' /\ JobsTyped'
    BY <2>1, <2>5, <2>6, OneFifo DEF FifoMutexes
  <2>8. NumbersGo(t)
    BY <2>1, <2>4, OneFifoNumbers DEF ElementsSame
  <2>9. QED
    BY <2>1, <2>3, <2>4, <2>7, <2>8 DEF Good
<1>4. QED
  BY <1>1, <1>2, <1>3 DEF FifoAllocs

\* The operation changes one fifo and its elements at the stick.
LEMMA OneStock ==
  ASSUME HoldInv, DataInv, NEW f \in Fifos, OthersSame(f), FifoShape', StickShape',
         \A h \in Fifos : h # f => /\ mutex'[h] = mutex[h] /\ stick'.buf[h] = stick.buf[h]
                                   /\ stick'.out[h] = stick.out[h],
         stick'.jobs = stick.jobs, UNCHANGED <<usage, writes>>,
         CountsTyped(f)', ParamsTyped(f)', Stocked(f)'
  PROVE  DataShape' /\ FifosTyped' /\ JobsTyped'
<1>1. \A h \in Fifos : h # f => KeptFifo(h)
  BY DEF KeptFifo, ElementsSame, OthersSame
<1>2. FifosTyped'
  BY <1>1, KeptTyped, WritesNat DEF FifosTyped, HoldInv, ThreadInv, ThrOK
<1>3. DataShape' /\ JobsTyped'
  BY DEF DataInv, DataShape, JobsTyped
<1>4. QED
  BY <1>2, <1>3

\* The counts of a fifo whose counts are as they were.
LEMMA CountsSame ==
  ASSUME DataInv, NEW f \in Fifos, UNCHANGED usage, mutex'[f] = mutex[f],
         fifo'[f].type = fifo[f].type, fifo'[f].writeCount = fifo[f].writeCount,
         fifo'[f].consumed = fifo[f].consumed, fifo'[f].remaining = fifo[f].remaining,
         fifo'[f].apiRead = fifo[f].apiRead,
         fifo'[f].st = fifo[f].st \/ fifo'[f].st = "freed"
  PROVE  CountsTyped(f)'
<1>1. CountsTyped(f)
  BY DEF DataInv, FifosTyped
<1>2. fifo'[f].apiRead \in BOOLEAN
  BY <1>1, Zenon DEF CountsTyped
<1>3. fifo'[f].apiRead => fifo'[f].remaining < usage'.consumers /\ fifo'[f].st # "created"
  BY <1>1 DEF CountsTyped
<1>4. /\ fifo'[f].st \in {"created", "allocated", "freed"}
      /\ fifo'[f].type = usage'.type[f]
      /\ fifo'[f].remaining \in 0 .. usage'.consumers
      /\ fifo'[f].remaining = 0 => mutex'[f] # None
      /\ fifo'[f].writeCount \in Nat /\ fifo'[f].consumed \in Nat
      /\ fifo'[f].consumed <= fifo'[f].writeCount
  BY <1>1 DEF CountsTyped
<1>5. QED
  BY <1>2, <1>3, <1>4, Zenon DEF CountsTyped

\* Parameters that are gone.
LEMMA ParamsGone ==
  ASSUME NEW f \in Fifos, fifo'[f].in = <<>>, fifo'[f].out = <<>>
  PROVE  ParamsTyped(f)'
<1>1. IsSeq(fifo'[f].in) /\ IsSeq(fifo'[f].out)
  BY SeqEmpty
<1>2. /\ \A i \in 1 .. Len(fifo'[f].in) : fifo'[f].in[i] \in 1 .. writes'
      /\ \A i \in 1 .. Len(fifo'[f].out) : fifo'[f].out[i] \in 0 .. writes'
      /\ \A i, j \in 1 .. Len(fifo'[f].in) : fifo'[f].in[i] = fifo'[f].in[j] => i = j
  BY SeqEmpty
<1>3. QED
  BY <1>1, <1>2, Zenon DEF ParamsTyped, IsSeq

LEMMA StreamClosedDoes ==
  ASSUME StickShape, NEW f \in Fifos, StreamClosed(f)
  PROVE  /\ StickShape' /\ stick'.jobs = stick.jobs
         /\ stick'.buf[f] = <<>> /\ stick'.out[f] = <<>>
         /\ \A h \in Fifos : h # f => stick'.buf[h] = stick.buf[h]
                               /\ stick'.out[h] = stick.out[h]
<1>1. /\ DOMAIN stick' = DOMAIN stick
      /\ stick'.jobs = stick.jobs
      /\ stick'.buf = [stick.buf EXCEPT ![f] = <<>>]
           /\ stick'.out = [stick.out EXCEPT ![f] = <<>>]
  BY DEF StickShape, StreamClosed
<1>2. /\ stick'.buf[f] = <<>> /\ stick'.out[f] = <<>>
      /\ \A h \in Fifos : h # f => stick'.buf[h] = stick.buf[h] /\ stick'.out[h] = stick.out[h]
  BY <1>1 DEF StickShape
<1>3. \A h \in Fifos : IsSeq(stick'.buf[h]) /\ IsSeq(stick'.out[h])
  BY <1>2, SeqEmpty DEF StickShape
<1>4. stick'.buf = [h \in Fifos |-> stick'.buf[h]]
        /\ stick'.out = [h \in Fifos |-> stick'.out[h]]
  BY <1>1 DEF StickShape
<1>5. QED
  BY <1>1, <1>2, <1>3, <1>4 DEF StickShape

\* The last message to the stick's thread of a fifo.
LEMMA FDestroyStock ==
  ASSUME HoldInv, DataInv, NEW t \in Threads, NEW f \in Fifos, f = thr[t].f, FDestroyEnter(t)
  PROVE  /\ StickShape' /\ stick'.jobs = stick.jobs /\ stick'.out = stick.out
         /\ Len(stick'.buf[f]) <= Len(stick.buf[f]) \/ Len(stick'.buf[f]) <= NumElements
         /\ \A h \in Fifos : h # f => stick'.buf[h] = stick.buf[h]
<1>0. StickShape
  BY DEF DataInv, DataShape
<1>1. \/ UNCHANGED stick
      \/ /\ F(t).type = "WO" => Len(stick.buf[f]) < NumElements
         /\ F(t).type # "RO"
         /\ stick' = [stick EXCEPT !.buf[f] = Append(@, Stop)]
  BY Zenon DEF FDestroyEnter
<1>2. fifo[f].type \in {"WO", "RO"}
  BY NcAssumption DEF DataInv, FifosTyped, CountsTyped, HoldInv, ThreadInv, ThrOK
<1>3. CASE UNCHANGED stick
  <2>1. StickShape'
    BY <1>0, <1>3 DEF StickShape, JobRecords
  <2>2. Len(stick.buf[f]) \in Nat
    BY <1>0, SeqLen DEF StickShape
  <2>3. QED
    BY <1>3, <2>1, <2>2
<1>4. CASE ~UNCHANGED stick
  <2>1. /\ Len(stick.buf[f]) < NumElements
        /\ stick' = [stick EXCEPT !.buf[f] = Append(@, Stop)]
    BY <1>1, <1>2, <1>4 DEF F
  <2>2. /\ StickShape' /\ stick'.jobs = stick.jobs /\ stick'.out = stick.out
        /\ stick'.buf[f] = Append(stick.buf[f], Stop)
        /\ \A h \in Fifos : h # f => stick'.buf[h] = stick.buf[h]
    BY <1>0, <2>1, BufAppended
  <2>3. Len(stick'.buf[f]) <= NumElements
    <3>1. Len(stick'.buf[f]) = Len(stick.buf[f]) + 1 /\ Len(stick.buf[f]) \in Nat
      BY <1>0, <2>2, SeqAppended, SeqLen DEF StickShape
    <3>2. QED
      BY <2>1, <3>1, NcAssumption
  <2>4. QED
    BY <2>2, <2>3
<1>5. QED
  BY <1>3, <1>4

LEMMA FDestroysGood ==
  ASSUME HoldInv, DataInv, NEW t \in Threads, FifoDestroys(t), thr[t].op = "FDESTROY"
  PROVE  Good(t)
<1>0. DataShape /\ usage \in Usages
  BY DEF DataInv, HoldInv, ThreadInv, ThrOK
<1> PICK f : f = thr[t].f
  OBVIOUS
<1>1. /\ f \in Fifos /\ OthersSame(f) /\ FifoShape' /\ FifoMutexes /\ OnlyThread(t)
      /\ thr'[t] = Idle \/ KeepsWhat(t)
      /\ UNCHANGED <<usage, writes>>
  BY <1>0, FDestroyDoes
<1>2. thr'[t].param \in 0 .. writes' /\ PlaceTyped(t)' /\ ~Writing(t)'
  BY <1>0, <1>1, IdlePlace, OtherPlace, WritesNat
<1>3. CASE fifo'[f] = fifo[f] /\ (FDestroyEnter(t) \/ UNCHANGED stick)
  <2>1. CountsTyped(f)' /\ ParamsTyped(f)'
    BY <1>0, <1>1, <1>3, CountsSame, ParamsSame, WritesNat DEF FifoMutexes
  <2>2. /\ StickShape' /\ stick'.jobs = stick.jobs
        /\ Len(stick'.buf[f]) <= Len(stick.buf[f]) \/ Len(stick'.buf[f]) <= NumElements
        /\ stick'.out = stick.out
        /\ \A h \in Fifos : h # f => stick'.buf[h] = stick.buf[h]
    <3>1. CASE FDestroyEnter(t)
      BY <1>1, <3>1, FDestroyStock
    <3>2. CASE UNCHANGED stick
      <4>1. StickShape'
        BY <1>0, <3>2 DEF DataShape, StickShape, JobRecords
      <4>2. Len(stick.buf[f]) \in Nat
        BY <1>0, <1>1, SeqLen DEF DataShape, StickShape
      <4>3. QED
        BY <3>2, <4>1, <4>2
    <3>3. QED
      BY <1>3, <3>1, <3>2
  <2>3. Stocked(f)'
    <3>1. Stocked(f) /\ Len(stick.buf[f]) \in Nat /\ Len(stick'.buf[f]) \in Nat
      BY <1>0, <1>1, <2>2, SeqLen DEF DataInv, FifosTyped, DataShape, StickShape
    <3>2. NumElements \in Nat /\ usage'.type[f] = usage.type[f] /\ stick'.out[f] = stick.out[f]
      BY <1>1, <2>2, NcAssumption
    <3>3. usage.type[f] = "WO" => Len(stick'.buf[f]) <= NumElements
      BY <2>2, <3>1, <3>2 DEF Stocked
    <3>4. Len(stick.out[f]) <= NumElements
      BY <3>1 DEF Stocked
    <3>5. QED
      BY <3>2, <3>3, <3>4 DEF Stocked
  <2>4. DataShape' /\ FifosTyped' /\ JobsTyped'
    BY <1>1, <2>1, <2>2, <2>3, OneStock DEF FifoMutexes
  <2>5. NumbersGo(t)
    BY <1>1, <1>2, <1>3, OneFifoNumbers
  <2>6. StatesGo(t)
    BY <1>1, <1>3 DEF StatesGo, OthersSame
  <2>7. QED
    BY <1>1, <1>2, <2>4, <2>5, <2>6 DEF Good
<1>4. CASE /\ ElementsSame(f) /\ fifo[f].st = "created" /\ fifo'[f].st = "freed"
           /\ UNCHANGED stick
  <2>1. CountsTyped(f)' /\ ParamsTyped(f)'
    BY <1>0, <1>1, <1>4, CountsSame, ParamsSame, WritesNat DEF FifoMutexes, ElementsSame
  <2>2. DataShape' /\ FifosTyped' /\ JobsTyped'
    BY <1>1, <1>4, <2>1, OneFifo DEF FifoMutexes
  <2>3. NumbersGo(t)
    BY <1>1, <1>2, <1>4, OneFifoNumbers DEF ElementsSame
  <2>4. StatesGo(t)
    BY <1>1, <1>4 DEF StatesGo, OthersSame, ObjectOps
  <2>5. QED
    BY <1>1, <1>2, <2>2, <2>3, <2>4 DEF Good
<1>5. CASE /\ FDestroyFree(t) /\ fifo'[f].st = "freed"
           /\ fifo'[f].type = fifo[f].type
           /\ fifo'[f].writeCount = fifo[f].writeCount
           /\ fifo'[f].consumed = fifo[f].consumed
           /\ fifo'[f].remaining = fifo[f].remaining
           /\ fifo'[f].apiRead = fifo[f].apiRead
           /\ fifo'[f].in = <<>> /\ fifo'[f].out = <<>>
           /\ StreamClosed(f)
  <2>1. CountsTyped(f)' /\ ParamsTyped(f)'
    BY <1>0, <1>1, <1>5, CountsSame, ParamsGone DEF FifoMutexes
  <2>2. StreamClosed(f)
    BY <1>5
  <2>3. /\ StickShape' /\ stick'.jobs = stick.jobs
        /\ stick'.buf[f] = <<>> /\ stick'.out[f] = <<>>
        /\ \A h \in Fifos : h # f => stick'.buf[h] = stick.buf[h]
                              /\ stick'.out[h] = stick.out[h]
    BY <1>0, <1>1, <2>2, StreamClosedDoes DEF DataShape
  <2>4. Stocked(f)'
    BY <2>3, SeqEmpty, NcAssumption DEF Stocked
  <2>5. DataShape' /\ FifosTyped' /\ JobsTyped'
    BY <1>1, <2>1, <2>3, <2>4, OneStock DEF FifoMutexes
  <2>6. NumbersGo(t)
    <3>1. \A i \in 1 .. Len(fifo'[f].in) : \E k \in 1 .. Len(fifo[f].in) : fifo'[f].in[i] = fifo[f].in[k]
      BY <1>5, SeqEmpty
    <3>2. QED
      BY <1>1, <1>2, <3>1, OneFifoNumbers
  <2>7. StatesGo(t)
    BY <1>1, <1>5 DEF StatesGo, OthersSame, FDestroyFree, At, ObjectOps
  <2>8. QED
    BY <1>1, <1>2, <2>5, <2>6, <2>7 DEF Good
<1>6. QED
  BY <1>0, <1>3, <1>4, <1>5, FDestroyDoes

\* A step that changes the elements of one fifo at the stick only.
LEMMA StockGood ==
  ASSUME HoldInv, DataInv, NEW t \in Threads, NEW f \in Fifos, StickShape',
         UNCHANGED <<usage, fifo, writes>>, FifoMutexes, OnlyThread(t),
         \A h \in Fifos : h # f => stick'.buf[h] = stick.buf[h] /\ stick'.out[h] = stick.out[h],
         stick'.jobs = stick.jobs, Stocked(f)',
         thr'[t].param \in 0 .. writes, PlaceTyped(t)',
         ~Writing(t)' \/ (Writing(t) /\ thr'[t].e = thr[t].e)
  PROVE  Good(t)
<1>1. OthersSame(f) /\ FifoShape'
  BY DEF OthersSame, DataInv, DataShape, FifoShape
<1>2. CountsTyped(f)' /\ ParamsTyped(f)'
  BY CountsSame, ParamsSame, WritesNat DEF FifoMutexes, HoldInv, ThreadInv, ThrOK
<1>3. DataShape' /\ FifosTyped' /\ JobsTyped'
  BY <1>1, <1>2, OneStock DEF FifoMutexes
<1>4. NumbersGo(t)
  BY <1>1, OneFifoNumbers
<1>5. StatesGo(t)
  BY DEF StatesGo
<1>6. QED
  BY <1>3, <1>4, <1>5 DEF Good

LEMMA WriteEnterGood ==
  ASSUME HoldInv, DataInv, NEW t \in Threads, WriteEnter(t), thr[t].op = "WRITE"
  PROVE  Good(t)
<1>0. usage \in Usages /\ DataShape
  BY DEF DataInv, HoldInv, ThreadInv, ThrOK
<1>1. /\ OnlyThread(t) /\ FifoMutexes
      /\ UNCHANGED <<usage, fifo, stick>>
  BY WriteEnterDoes DEF FifoMutexes
<1>2. CASE writes' = writes /\ thr'[t] = Idle
  BY <1>1, <1>2, QuietIdle
<1>3. CASE writes' = writes /\ Goes(t, "crashed")
  <2>1. thr'[t].param \in 0 .. writes /\ PlaceTyped(t)' /\ ~Writing(t)'
    BY <1>3 DEF DataInv, CallsTyped, PlaceTyped, Writing, Goes, KeepsWhat, SameCall
  <2>2. QED
    BY <1>1, <1>3, <2>1, QuietTyped
<1>4. CASE /\ writes < usage.writes /\ writes' = writes + 1
           /\ thr'[t].pc = "send" /\ thr'[t].e.n = writes + 1
           /\ SameCall(thr'[t], thr[t]) /\ thr'[t].param = thr[t].param
  <2>1. writes \in Nat /\ writes' \in Nat /\ writes' >= writes
    BY <1>0, <1>4, WritesNat
  <2>2. \A f \in Fifos : KeptFifo(f)
    BY <1>1 DEF KeptFifo, ElementsSame, FifoMutexes
  <2>3. FifosTyped'
    BY <1>1, <2>1, <2>2, KeptTyped DEF FifosTyped
  <2>4. DataShape' /\ JobsTyped'
    BY <1>0, <1>1 DEF DataInv, DataShape, FifoShape, StickShape, JobsTyped, JobRecords
  <2>5. NumbersGo(t) /\ StatesGo(t)
    BY <1>1, <1>4 DEF NumbersGo, StatesGo
  <2>6. thr[t].param \in 0 .. writes /\ thr'[t].op = "WRITE"
    BY <1>4 DEF DataInv, CallsTyped, SameCall
  <2>7. thr'[t].param \in 0 .. writes' /\ PlaceTyped(t)'
    BY <1>4, <2>1, <2>6 DEF PlaceTyped
  <2>8. QED
    BY <1>1, <2>3, <2>4, <2>5, <2>7 DEF Good
<1>5. QED
  BY <1>2, <1>3, <1>4, WriteEnterDoes

LEMMA WriteSendGood ==
  ASSUME HoldInv, DataInv, NEW t \in Threads, WriteSend(t), thr[t].op = "WRITE"
  PROVE  Good(t)
<1>0. usage \in Usages /\ DataShape /\ StickShape
  BY DEF DataInv, DataShape, HoldInv, ThreadInv, ThrOK
<1> PICK f : f = thr[t].f
  OBVIOUS
<1>1. /\ f \in Fifos /\ thr[t].pc = "send" /\ OnlyThread(t) /\ StickShape' /\ FifoMutexes
      /\ UNCHANGED <<usage, fifo, writes>>
      /\ \/ thr'[t] = Idle /\ UNCHANGED stick
         \/ /\ Goes(t, "count") /\ Len(stick.buf[f]) < NumElements
            /\ stick'.jobs = stick.jobs /\ stick'.out = stick.out
            /\ stick'.buf[f] = Append(stick.buf[f], thr[t].e)
            /\ \A h \in Fifos : h # f => stick'.buf[h] = stick.buf[h]
  BY <1>0, WriteSendDoes DEF FifoMutexes, At
<1>2. CASE thr'[t] = Idle /\ UNCHANGED stick
  BY <1>1, <1>2, QuietIdle
<1>3. CASE ~(thr'[t] = Idle /\ UNCHANGED stick)
  <2>1. thr'[t].param \in 0 .. writes /\ PlaceTyped(t)' /\ Writing(t) /\ thr'[t].e = thr[t].e
    BY <1>1, <1>3 DEF DataInv, CallsTyped, PlaceTyped, Writing, Goes, KeepsWhat, SameCall
  <2>2. PICK p, x : p = stick.buf[f] /\ x = thr[t].e
    OBVIOUS
  <2>3. IsSeq(p)
    BY <1>0, <1>1, <2>2 DEF StickShape
  <2>4. stick'.buf[f] = Append(p, x) /\ Len(p) < NumElements
    BY <1>1, <1>3, <2>2
  <2>5. Len(stick'.buf[f]) = Len(p) + 1 /\ Len(p) \in Nat
    BY <2>3, <2>4, SeqAppended, SeqLen
  <2>6. Stocked(f)
    BY <1>1 DEF DataInv, FifosTyped
  <2>7. Stocked(f)'
    BY <1>1, <1>3, <2>4, <2>5, <2>6, NcAssumption DEF Stocked
  <2>8. QED
    BY <1>1, <1>3, <2>1, <2>7, StockGood
<1>4. QED
  BY <1>2, <1>3

LEMMA WriteCountGood ==
  ASSUME HoldInv, DataInv, NEW t \in Threads, WriteCount(t), thr[t].op = "WRITE"
  PROVE  Good(t)
<1>0. usage \in Usages /\ DataShape /\ writes \in Nat
  BY WritesNat DEF DataInv, HoldInv, ThreadInv, ThrOK
<1> PICK f : f = thr[t].f
  OBVIOUS
<1>1. /\ f \in Fifos /\ At(t, "WRITE", "count") /\ OnlyThread(t) /\ thr'[t] = Idle
      /\ FifoShape' /\ OthersSame(f)
      /\ fifo'[f].st = fifo[f].st /\ fifo'[f].type = fifo[f].type
      /\ fifo'[f].writeCount = fifo[f].writeCount + 1
      /\ fifo'[f].consumed = fifo[f].consumed
      /\ fifo'[f].remaining = fifo[f].remaining
      /\ fifo'[f].apiRead = fifo[f].apiRead
      /\ fifo'[f].in = Append(fifo[f].in, thr[t].e.n)
      /\ fifo'[f].out = fifo[f].out
      /\ UNCHANGED <<usage, mutex, stick, writes>>
  BY <1>0, WriteCountDoes
<1>2. CountsTyped(f) /\ ParamsTyped(f)
  BY <1>1 DEF DataInv, FifosTyped
<1>3. CountsTyped(f)'
  <2>1. fifo'[f].apiRead \in BOOLEAN
    BY <1>1, <1>2, Zenon DEF CountsTyped
  <2>2. fifo'[f].apiRead => fifo'[f].remaining < usage'.consumers /\ fifo'[f].st # "created"
    BY <1>1, <1>2 DEF CountsTyped
  <2>3. /\ fifo'[f].st \in {"created", "allocated", "freed"}
        /\ fifo'[f].type = usage'.type[f]
        /\ fifo'[f].remaining \in 0 .. usage'.consumers
        /\ fifo'[f].remaining = 0 => mutex'[f] # None
        /\ fifo'[f].writeCount \in Nat /\ fifo'[f].consumed \in Nat
        /\ fifo'[f].consumed <= fifo'[f].writeCount
    BY <1>1, <1>2 DEF CountsTyped
  <2>4. QED
    BY <2>1, <2>2, <2>3, Zenon DEF CountsTyped
<1>4. PICK p, q, n : p = fifo[f].in /\ q = fifo'[f].in /\ n = thr[t].e.n
  OBVIOUS
<1>5. /\ n \in 1 .. writes
      /\ \A i \in 1 .. Len(p) : p[i] # n
  BY <1>1, <1>4 DEF DataInv, CallsTyped, NumberOwn, Writing, At
<1>6. /\ IsSeq(q) /\ Len(q) = Len(p) + 1 /\ Len(p) \in Nat
      /\ \A i \in 1 .. Len(p) : q[i] = p[i]
      /\ q[Len(p) + 1] = n
  <2>1. IsSeq(p) /\ q = Append(p, n)
    BY <1>1, <1>2, <1>4 DEF ParamsTyped
  <2>2. QED
    BY <2>1, SeqAppended, SeqLen
<1>7. ParamsTyped(f)'
  <2>1. \A i \in 1 .. Len(p) : p[i] \in 1 .. writes
    BY <1>2, <1>4 DEF ParamsTyped
  <2>2. \A i, j \in 1 .. Len(p) : p[i] = p[j] => i = j
    BY <1>2, <1>4 DEF ParamsTyped
  <2>3. \A i \in 1 .. Len(q) : q[i] \in 1 .. writes'
    BY <1>0, <1>1, <1>5, <1>6, <2>1
  <2>4. \A i, j \in 1 .. Len(q) : q[i] = q[j] => i = j
    BY <1>5, <1>6, <2>2
  <2>5. IsSeq(fifo'[f].out)
          /\ \A i \in 1 .. Len(fifo'[f].out) : fifo'[f].out[i] \in 0 .. writes'
    BY <1>1, <1>2 DEF ParamsTyped
  <2>6. QED
    BY <1>4, <1>6, <2>3, <2>4, <2>5, Zenon DEF ParamsTyped, IsSeq
<1>8. DataShape' /\ FifosTyped' /\ JobsTyped'
  BY <1>1, <1>3, <1>7, OneFifo
<1>9. thr'[t].param \in 0 .. writes' /\ PlaceTyped(t)' /\ ~Writing(t)'
  BY <1>0, <1>1, IdlePlace
<1>10. NumbersGo(t)
  <2>1. Writing(t)
    BY <1>1 DEF Writing, At
  <2>2. \A i \in 1 .. Len(q) : (\E k \in 1 .. Len(p) : q[i] = p[k]) \/ q[i] = n
    BY <1>6
  <2>3. \A h \in Fifos : \A i \in 1 .. Len(fifo'[h].in) :
          \/ \E k \in 1 .. Len(fifo[h].in) : fifo'[h].in[i] = fifo[h].in[k]
          \/ Writing(t) /\ fifo'[h].in[i] = thr[t].e.n /\ thr'[t] = Idle
    <3> TAKE h \in Fifos
    <3>1. CASE h = f
      BY <1>1, <1>4, <2>1, <2>2, <3>1
    <3>2. CASE h # f
      BY <1>1, <3>2 DEF OthersSame
    <3>3. QED
      BY <3>1, <3>2
  <2>4. QED
    BY <1>1, <1>9, <2>3 DEF NumbersGo
<1>11. StatesGo(t)
  BY <1>1 DEF StatesGo, OthersSame
<1>12. QED
  BY <1>1, <1>8, <1>9, <1>10, <1>11 DEF Good

\* The parameters after the oldest has been taken.
LEMMA Popped ==
  ASSUME NEW s, IsSeq(s)
  PROVE  /\ IsSeq(Pop(s)) /\ Len(Pop(s)) \in Nat
         /\ Len(s) > 0 => Len(Pop(s)) = Len(s) - 1 /\ Top(s) = s[1]
         /\ Len(s) = 0 => Len(Pop(s)) = 0 /\ Top(s) = 0
         /\ \A i \in 1 .. Len(Pop(s)) : i + 1 \in 1 .. Len(s) /\ Pop(s)[i] = s[i + 1]
<1>1. Len(s) \in Nat /\ (Len(s) = 0 <=> s = <<>>)
  BY SeqLen
<1>2. CASE s = <<>>
  BY <1>1, <1>2, SeqEmpty DEF Pop, Top
<1>3. CASE s # <<>>
  <2>1. Pop(s) = Tail(s) /\ Top(s) = Head(s)
    BY <1>3 DEF Pop, Top
  <2>2. /\ IsSeq(Tail(s)) /\ Len(Tail(s)) = Len(s) - 1 /\ Len(s) >= 1 /\ Head(s) = s[1]
        /\ \A i \in 1 .. Len(s) - 1 : Tail(s)[i] = s[i + 1]
    BY <1>3, SeqTaken
  <2>3. QED
    BY <1>1, <2>1, <2>2
<1>4. QED
  BY <1>2, <1>3

LEMMA ParamsPopped ==
  ASSUME DataInv, NEW f \in Fifos, writes' = writes,
         \/ fifo'[f].in = Pop(fifo[f].in) /\ fifo'[f].out = fifo[f].out
         \/ fifo'[f].in = fifo[f].in /\ fifo'[f].out = Pop(fifo[f].out)
  PROVE  /\ ParamsTyped(f)'
         /\ \A i \in 1 .. Len(fifo'[f].in) : \E k \in 1 .. Len(fifo[f].in) : fifo'[f].in[i] = fifo[f].in[k]
<1> PICK p, q, u, v : p = fifo[f].in /\ q = fifo'[f].in /\ u = fifo[f].out /\ v = fifo'[f].out
  OBVIOUS
<1>1. /\ IsSeq(p) /\ IsSeq(u)
      /\ \A i \in 1 .. Len(p) : p[i] \in 1 .. writes
      /\ \A i \in 1 .. Len(u) : u[i] \in 0 .. writes
      /\ \A i, j \in 1 .. Len(p) : p[i] = p[j] => i = j
  BY DEF DataInv, FifosTyped, ParamsTyped
<1>2. (q = Pop(p) /\ v = u) \/ (q = p /\ v = Pop(u))
  OBVIOUS
<1>3. IsSeq(q) /\ IsSeq(v)
  BY <1>1, <1>2, Popped
<1>8. /\ \A i \in 1 .. Len(Pop(p)) : i + 1 \in 1 .. Len(p) /\ Pop(p)[i] = p[i + 1]
      /\ \A i \in 1 .. Len(Pop(u)) : i + 1 \in 1 .. Len(u) /\ Pop(u)[i] = u[i + 1]
  <2>1. IsSeq(p) /\ IsSeq(u)
    BY <1>1
  <2>2. \A i \in 1 .. Len(Pop(p)) : i + 1 \in 1 .. Len(p) /\ Pop(p)[i] = p[i + 1]
    BY <2>1, Popped
  <2>3. \A i \in 1 .. Len(Pop(u)) : i + 1 \in 1 .. Len(u) /\ Pop(u)[i] = u[i + 1]
    BY <2>1, Popped
  <2>4. QED
    BY <2>2, <2>3
<1>9. \A i \in 1 .. Len(Pop(p)) : Pop(p)[i] \in 1 .. writes
                                    /\ \E k \in 1 .. Len(p) : Pop(p)[i] = p[k]
  BY <1>1, <1>8
<1>10. \A i \in 1 .. Len(Pop(u)) : Pop(u)[i] \in 0 .. writes
  BY <1>1, <1>8
<1>4. /\ \A i \in 1 .. Len(q) : q[i] \in 1 .. writes /\ \E k \in 1 .. Len(p) : q[i] = p[k]
      /\ \A i \in 1 .. Len(v) : v[i] \in 0 .. writes
  BY <1>1, <1>2, <1>9, <1>10
<1>5. \A i, j \in 1 .. Len(q) : q[i] = q[j] => i = j
  <2>1. CASE q = p
    BY <1>1, <2>1
  <2>2. CASE q = Pop(p)
    <3> SUFFICES ASSUME NEW i \in 1 .. Len(q), NEW j \in 1 .. Len(q), q[i] = q[j]
                 PROVE  i = j
      OBVIOUS
    <3>1. /\ i + 1 \in 1 .. Len(p) /\ j + 1 \in 1 .. Len(p)
          /\ q[i] = p[i + 1] /\ q[j] = p[j + 1]
      BY <1>8, <2>2
    <3>2. i + 1 = j + 1
      BY <1>1, <3>1
    <3>3. QED
      BY <3>2
  <2>3. QED
    BY <1>2, <2>1, <2>2
<1>6. ParamsTyped(f)'
  BY <1>3, <1>4, <1>5, Zenon DEF ParamsTyped, IsSeq
<1>7. QED
  BY <1>4, <1>6

LEMMA QueueRestGood ==
  ASSUME HoldInv, DataInv, NEW t \in Threads, QueueEnter(t) \/ QueueCheck(t),
           thr[t].op = "QUEUE"
  PROVE  Good(t)
<1>1. /\ FifoMutexes /\ OnlyThread(t)
      /\ UNCHANGED <<usage, fifo, stick, writes>>
      /\ thr[t].o \in Fifos
      /\ \/ thr'[t] = Idle
         \/ Goes(t, "in") /\ fifo[thr[t].o].type # "WO"
  BY QueueRestDoes
<1>2. CASE thr'[t] = Idle
  BY <1>1, <1>2, QuietIdle
<1>3. CASE Goes(t, "in") /\ fifo[thr[t].o].type # "WO"
  <2>1. thr'[t].o = thr[t].o /\ thr'[t].op = "QUEUE" /\ thr'[t].param = thr[t].param
    BY <1>3 DEF Goes, KeepsWhat, SameCall
  <2>2. thr'[t].param \in 0 .. writes /\ ~Writing(t)'
    BY <2>1 DEF DataInv, CallsTyped, Writing
  <2>3. usage'.type[thr'[t].o] # "WO"
    BY <1>1, <1>3, <2>1 DEF DataInv, FifosTyped, CountsTyped
  <2>4. PlaceTyped(t)'
    BY <2>1, <2>3 DEF PlaceTyped
  <2>5. QED
    BY <1>1, <2>2, <2>4, QuietTyped
<1>4. QED
  BY <1>1, <1>2, <1>3

\* The place of a trigger that goes on.
LEMMA QueuePlace ==
  ASSUME DataInv, NEW t \in Threads, thr[t].op = "QUEUE", thr[t].pc # "enter",
         SameCall(thr'[t], thr[t]), UNCHANGED usage
  PROVE  PlaceTyped(t)' /\ ~Writing(t)'
<1>1. thr'[t].op = "QUEUE" /\ thr'[t].o = thr[t].o /\ usage.type[thr[t].o] # "WO"
  BY DEF SameCall, DataInv, CallsTyped, PlaceTyped
<1>2. QED
  BY <1>1 DEF PlaceTyped, Writing

LEMMA QueueInGood ==
  ASSUME HoldInv, DataInv, NEW t \in Threads, QueueIn(t), thr[t].op = "QUEUE"
  PROVE  Good(t)
<1>0. usage \in Usages /\ DataShape /\ writes \in Nat /\ None \notin Threads
  BY WritesNat, NcAssumption DEF DataInv, HoldInv, ThreadInv, ThrOK
<1> PICK f : f = thr[t].f
  OBVIOUS
<1>1. /\ f \in Fifos /\ thr[t].pc = "in" /\ OnlyThread(t)
      /\ Goes(t, "take") \/ Goes(t, "drain")
      /\ mutex[f] = None /\ mutex' = [mutex EXCEPT ![f] = t]
      /\ FifoShape' /\ OthersSame(f)
      /\ fifo'[f].st = fifo[f].st /\ fifo'[f].type = fifo[f].type
      /\ fifo'[f].writeCount = fifo[f].writeCount
      /\ fifo'[f].consumed = fifo[f].consumed
      /\ fifo'[f].remaining = fifo[f].remaining - 1
      /\ fifo'[f].apiRead = fifo[f].apiRead
      /\ fifo'[f].in = fifo[f].in /\ fifo'[f].out = fifo[f].out
      /\ UNCHANGED <<usage, stick, writes>>
  BY <1>0, QueueInDoes DEF At
<1>2. mutex'[f] = t /\ \A h \in Fifos : h # f => mutex'[h] = mutex[h]
  BY <1>1, FifoMutexSet
<1>3. CountsTyped(f) /\ usage.consumers \in Nat
  BY <1>1 DEF DataInv, FifosTyped
<1>4. CountsTyped(f)'
  <2>1. fifo'[f].apiRead \in BOOLEAN
    BY <1>1, <1>3, Zenon DEF CountsTyped
  <2>2. fifo[f].remaining \in 1 .. usage.consumers
    BY <1>1, <1>3 DEF CountsTyped
  <2>3. fifo'[f].apiRead => fifo'[f].remaining < usage'.consumers /\ fifo'[f].st # "created"
    BY <1>1, <1>3, <2>2 DEF CountsTyped
  <2>4. /\ fifo'[f].st \in {"created", "allocated", "freed"}
        /\ fifo'[f].type = usage'.type[f]
        /\ fifo'[f].remaining \in 0 .. usage'.consumers
        /\ fifo'[f].remaining = 0 => mutex'[f] # None
        /\ fifo'[f].writeCount \in Nat /\ fifo'[f].consumed \in Nat
        /\ fifo'[f].consumed <= fifo'[f].writeCount
    BY <1>0, <1>1, <1>2, <1>3, <2>2 DEF CountsTyped
  <2>5. QED
    BY <2>1, <2>3, <2>4, Zenon DEF CountsTyped
<1>5. ParamsTyped(f)'
  BY <1>0, <1>1, ParamsSame
<1>6. DataShape' /\ FifosTyped' /\ JobsTyped'
  BY <1>1, <1>2, <1>4, <1>5, OneFifo
<1>7. KeepsWhat(t)
  BY <1>1 DEF Goes
<1>8. thr'[t].param \in 0 .. writes' /\ PlaceTyped(t)' /\ ~Writing(t)'
  BY <1>1, <1>7, QueuePlace DEF KeepsWhat, DataInv, CallsTyped
<1>9. NumbersGo(t)
  BY <1>1, <1>8, OneFifoNumbers
<1>10. StatesGo(t)
  BY <1>1 DEF StatesGo, OthersSame
<1>11. QED
  BY <1>1, <1>6, <1>8, <1>9, <1>10 DEF Good

LEMMA QueueDrainGood ==
  ASSUME HoldInv, DataInv, NEW t \in Threads, QueueDrain(t), thr[t].op = "QUEUE"
  PROVE  Good(t)
<1>0. usage \in Usages /\ DataShape /\ StickShape
  BY DEF DataInv, DataShape, HoldInv, ThreadInv, ThrOK
<1> PICK f : f = thr[t].f
  OBVIOUS
<1>1. /\ f \in Fifos /\ thr[t].pc = "drain" /\ OnlyThread(t) /\ StickShape' /\ FifoMutexes
      /\ KeepsWhat(t)
      /\ stick'.jobs = stick.jobs /\ stick'.buf = stick.buf
      /\ stick' # stick =>
           /\ stick.out[f] # <<>> /\ stick'.out[f] = Tail(stick.out[f])
           /\ \A h \in Fifos : h # f => stick'.out[h] = stick.out[h]
      /\ UNCHANGED <<usage, fifo, writes>>
  BY <1>0, QueueDrainDoes DEF FifoMutexes, At, Goes
<1>2. PlaceTyped(t)' /\ ~Writing(t)' /\ thr'[t].param \in 0 .. writes
  BY <1>1, QueuePlace DEF KeepsWhat, DataInv, CallsTyped
<1>3. CASE stick' = stick
  <2>1. Stocked(f)' /\ \A h \in Fifos : h # f => stick'.out[h] = stick.out[h]
    BY <1>1, <1>3 DEF Stocked, DataInv, FifosTyped
  <2>2. QED
    BY <1>1, <1>2, <2>1, StockGood
<1>4. CASE stick' # stick
  <2>1. PICK p : p = stick.out[f]
    OBVIOUS
  <2>2. IsSeq(p) /\ p # <<>>
    BY <1>0, <1>1, <1>4, <2>1 DEF StickShape
  <2>3. Len(stick'.out[f]) = Len(p) - 1 /\ Len(p) \in Nat
    BY <1>1, <1>4, <2>1, <2>2, SeqTaken, SeqLen
  <2>4. Stocked(f)'
    BY <1>1, <1>4, <2>1, <2>3, NcAssumption DEF Stocked, DataInv, FifosTyped
  <2>5. QED
    BY <1>1, <1>2, <1>4, <2>4, StockGood
<1>5. QED
  BY <1>3, <1>4

LEMMA QueueTakeGood ==
  ASSUME HoldInv, DataInv, NEW t \in Threads, QueueTake(t), thr[t].op = "QUEUE"
  PROVE  Good(t)
<1>0. usage \in Usages /\ DataShape /\ writes \in Nat /\ usage.consumers \in Nat \ {0}
  BY WritesNat, NcAssumption DEF DataInv, HoldInv, ThreadInv, ThrOK
<1> PICK f : f = thr[t].f
  OBVIOUS
<1>1. /\ f \in Fifos /\ thr[t].pc = "take" /\ OnlyThread(t)
      /\ mutex' = [mutex EXCEPT ![f] = None]
      /\ FifoShape' /\ OthersSame(f)
      /\ fifo'[f].st = fifo[f].st /\ fifo'[f].type = fifo[f].type
      /\ fifo'[f].writeCount = fifo[f].writeCount
      /\ IF fifo[f].remaining = 0
         THEN fifo'[f].remaining = usage.consumers /\ fifo'[f].apiRead = FALSE
         ELSE /\ fifo'[f].remaining = fifo[f].remaining
              /\ fifo'[f].apiRead = fifo[f].apiRead
      /\ fifo'[f].in = Pop(fifo[f].in) /\ fifo'[f].out = fifo[f].out
      /\ \/ thr'[t] = Idle /\ fifo'[f].consumed = fifo[f].consumed
         \/ /\ ~(fifo[f].writeCount <= fifo[f].consumed)
            /\ fifo'[f].consumed = fifo[f].consumed + 1
            /\ thr'[t].pc = "out" /\ SameCall(thr'[t], thr[t])
            /\ thr'[t].param = Top(fifo[f].in)
      /\ UNCHANGED <<usage, stick, writes>>
  BY <1>0, QueueTakeDoes DEF At
<1>2. \A h \in Fifos : h # f => mutex'[h] = mutex[h]
  BY <1>1, FifoMutexSet
<1>3. CountsTyped(f) /\ ParamsTyped(f)
  BY <1>1 DEF DataInv, FifosTyped
<1>4. CountsTyped(f)'
  <2>1. fifo'[f].apiRead \in BOOLEAN
    BY <1>1, <1>3, Zenon DEF CountsTyped
  <2>2. /\ fifo'[f].remaining \in 1 .. usage.consumers
        /\ fifo'[f].apiRead => fifo'[f].remaining < usage'.consumers /\ fifo'[f].st # "created"
    BY <1>0, <1>1, <1>3 DEF CountsTyped
  <2>3. fifo'[f].consumed \in Nat /\ fifo'[f].consumed <= fifo'[f].writeCount
    BY <1>1, <1>3 DEF CountsTyped
  <2>4. /\ fifo'[f].st \in {"created", "allocated", "freed"}
        /\ fifo'[f].type = usage'.type[f]
        /\ fifo'[f].remaining \in 0 .. usage'.consumers
        /\ fifo'[f].remaining = 0 => mutex'[f] # None
        /\ fifo'[f].writeCount \in Nat
    BY <1>0, <1>1, <1>3, <2>2 DEF CountsTyped
  <2>5. QED
    BY <2>1, <2>2, <2>3, <2>4, Zenon DEF CountsTyped
<1>5. /\ ParamsTyped(f)'
      /\ \A i \in 1 .. Len(fifo'[f].in) : \E k \in 1 .. Len(fifo[f].in) : fifo'[f].in[i] = fifo[f].in[k]
  BY <1>1, ParamsPopped
<1>6. DataShape' /\ FifosTyped' /\ JobsTyped'
  BY <1>1, <1>2, <1>4, <1>5, OneFifo
<1>7. thr'[t].param \in 0 .. writes' /\ PlaceTyped(t)' /\ ~Writing(t)'
  <2>1. CASE thr'[t] = Idle
    BY <1>0, <1>1, <2>1, IdlePlace
  <2>2. CASE thr'[t].param = Top(fifo[f].in) /\ SameCall(thr'[t], thr[t])
    <3>1. PICK p : p = fifo[f].in
      OBVIOUS
    <3>2. IsSeq(p) /\ \A i \in 1 .. Len(p) : p[i] \in 1 .. writes
      BY <1>3, <3>1 DEF ParamsTyped
    <3>3. Top(p) = 0 \/ (Len(p) > 0 /\ Len(p) \in Nat /\ Top(p) = p[1])
      BY <3>2, Popped, SeqLen
    <3>4. Top(p) \in 0 .. writes
      BY <1>0, <3>2, <3>3
    <3>5. QED
      BY <1>1, <2>2, <3>1, <3>4, QueuePlace
  <2>3. QED
    BY <1>1, <2>1, <2>2
<1>8. NumbersGo(t)
  BY <1>1, <1>5, <1>7, OneFifoNumbers
<1>9. StatesGo(t)
  BY <1>1 DEF StatesGo, OthersSame
<1>10. QED
  BY <1>1, <1>6, <1>7, <1>8, <1>9 DEF Good

LEMMA QueueOutGood ==
  ASSUME HoldInv, DataInv, NEW t \in Threads, QueueOut(t), thr[t].op = "QUEUE"
  PROVE  Good(t)
<1>0. usage \in Usages /\ DataShape /\ writes \in Nat
  BY WritesNat DEF DataInv, HoldInv, ThreadInv, ThrOK
<1> PICK f, n : f = thr[t].o /\ n = thr[t].param
  OBVIOUS
<1>1. /\ f \in Fifos /\ thr[t].pc = "out" /\ OnlyThread(t) /\ KeepsWhat(t)
      /\ FifoShape' /\ OthersSame(f)
      /\ fifo'[f].st = fifo[f].st /\ fifo'[f].type = fifo[f].type
      /\ fifo'[f].writeCount = fifo[f].writeCount + 1
      /\ fifo'[f].consumed = fifo[f].consumed
      /\ fifo'[f].remaining = fifo[f].remaining
      /\ fifo'[f].apiRead = fifo[f].apiRead
      /\ fifo'[f].in = fifo[f].in
      /\ fifo'[f].out = Append(fifo[f].out, n)
      /\ UNCHANGED <<usage, mutex, stick, writes>>
  BY <1>0, QueueOutDoes DEF At, Goes
<1>2. CountsTyped(f) /\ ParamsTyped(f) /\ n \in 0 .. writes
  BY <1>1 DEF DataInv, FifosTyped, CallsTyped
<1>3. CountsTyped(f)'
  <2>1. fifo'[f].apiRead \in BOOLEAN
    BY <1>1, <1>2, Zenon DEF CountsTyped
  <2>2. fifo'[f].apiRead => fifo'[f].remaining < usage'.consumers /\ fifo'[f].st # "created"
    BY <1>1, <1>2 DEF CountsTyped
  <2>3. /\ fifo'[f].st \in {"created", "allocated", "freed"}
        /\ fifo'[f].type = usage'.type[f]
        /\ fifo'[f].remaining \in 0 .. usage'.consumers
        /\ fifo'[f].remaining = 0 => mutex'[f] # None
        /\ fifo'[f].writeCount \in Nat /\ fifo'[f].consumed \in Nat
        /\ fifo'[f].consumed <= fifo'[f].writeCount
    BY <1>1, <1>2 DEF CountsTyped
  <2>4. QED
    BY <2>1, <2>2, <2>3, Zenon DEF CountsTyped
<1>4. ParamsTyped(f)'
  <2>1. PICK u, v : u = fifo[f].out /\ v = fifo'[f].out
    OBVIOUS
  <2>2. IsSeq(u) /\ v = Append(u, n) /\ \A i \in 1 .. Len(u) : u[i] \in 0 .. writes
    BY <1>1, <1>2, <2>1 DEF ParamsTyped
  <2>3. /\ IsSeq(v) /\ Len(v) = Len(u) + 1 /\ Len(u) \in Nat
        /\ \A i \in 1 .. Len(u) : v[i] = u[i]
        /\ v[Len(u) + 1] = n
    BY <2>2, SeqAppended, SeqLen
  <2>4. \A i \in 1 .. Len(v) : v[i] \in 0 .. writes
    BY <1>2, <2>2, <2>3
  <2>6. writes' = writes /\ fifo'[f].in = fifo[f].in
    BY <1>1
  <2>5. /\ IsSeq(fifo'[f].in)
        /\ \A i \in 1 .. Len(fifo'[f].in) : fifo'[f].in[i] \in 1 .. writes'
        /\ \A i, j \in 1 .. Len(fifo'[f].in) : fifo'[f].in[i] = fifo'[f].in[j] => i = j
    <3>1. \A i \in 1 .. Len(fifo'[f].in) : fifo'[f].in[i] \in 1 .. writes'
      BY <1>2, <2>6 DEF ParamsTyped
    <3>2. \A i, j \in 1 .. Len(fifo'[f].in) : fifo'[f].in[i] = fifo'[f].in[j] => i = j
      BY <1>2, <2>6 DEF ParamsTyped
    <3>3. IsSeq(fifo'[f].in)
      BY <1>2, <2>6 DEF ParamsTyped
    <3>4. QED
      BY <3>1, <3>2, <3>3
  <2>7. QED
    BY <2>1, <2>3, <2>4, <2>5, <2>6, Zenon DEF ParamsTyped, IsSeq
<1>5. DataShape' /\ FifosTyped' /\ JobsTyped'
  BY <1>1, <1>3, <1>4, OneFifo
<1>6. thr'[t].param \in 0 .. writes' /\ PlaceTyped(t)' /\ ~Writing(t)'
  BY <1>1, <1>2, QueuePlace DEF KeepsWhat
<1>7. NumbersGo(t)
  BY <1>1, <1>6, OneFifoNumbers
<1>8. StatesGo(t)
  BY <1>1 DEF StatesGo, OthersSame
<1>9. QED
  BY <1>1, <1>5, <1>6, <1>7, <1>8 DEF Good

LEMMA QueueSendGood ==
  ASSUME HoldInv, DataInv, NEW t \in Threads, QueueSend(t), thr[t].op = "QUEUE"
  PROVE  Good(t)
<1>0. usage \in Usages /\ DataShape
  BY DEF DataInv, DataShape, HoldInv, ThreadInv, ThrOK
<1> PICK j : j = [f |-> thr[t].f, o |-> thr[t].o]
  OBVIOUS
<1>1. /\ thr[t].f \in Fifos /\ thr[t].o \in Fifos /\ thr[t].pc = "send" /\ OnlyThread(t)
      /\ StickShape' /\ FifoMutexes
      /\ UNCHANGED <<usage, fifo, writes>>
      /\ \/ thr'[t] = Idle /\ UNCHANGED stick
         \/ Goes(t, "check") /\ UNCHANGED stick
         \/ /\ Goes(t, "check")
            /\ stick'.jobs = Append(stick.jobs, j)
            /\ stick'.buf = stick.buf /\ stick'.out = stick.out
  BY <1>0, QueueSendDoes DEF At
<1>2. CASE thr'[t] = Idle /\ UNCHANGED stick
  BY <1>1, <1>2, QuietIdle
<1>3. ASSUME Goes(t, "check")
      PROVE  PlaceTyped(t)' /\ ~Writing(t)' /\ thr'[t].param \in 0 .. writes
  BY <1>1, <1>3, QueuePlace DEF Goes, KeepsWhat, DataInv, CallsTyped
<1>4. CASE Goes(t, "check") /\ UNCHANGED stick
  BY <1>1, <1>3, <1>4, QuietTyped
<1>5. CASE /\ Goes(t, "check")
           /\ stick'.jobs = Append(stick.jobs, j)
           /\ stick'.buf = stick.buf /\ stick'.out = stick.out
  <2>1. usage.type[j.o] # "WO" /\ JobsTyped
    BY <1>1 DEF DataInv, CallsTyped, PlaceTyped
  <2>2. PICK p : p = stick.jobs
    OBVIOUS
  <2>3. IsSeq(p) /\ \A k \in 1 .. Len(p) : usage.type[p[k].o] # "WO"
    BY <1>0, <2>1, <2>2 DEF DataShape, StickShape, IsSeq, JobsTyped
  <2>4. PICK q : q = stick'.jobs
    OBVIOUS
  <2>5. /\ Len(q) = Len(p) + 1 /\ Len(p) \in Nat
        /\ \A i \in 1 .. Len(p) : q[i] = p[i]
        /\ q[Len(p) + 1] = j
    BY <1>5, <2>2, <2>3, <2>4, SeqAppended, SeqLen
  <2>6. \A k \in 1 .. Len(q) : usage'.type[q[k].o] # "WO"
    BY <1>1, <2>1, <2>3, <2>5
  <2>7. JobsTyped'
    BY <2>4, <2>6 DEF JobsTyped
  <2>8. \A f \in Fifos : KeptFifo(f)
    BY <1>1, <1>5 DEF KeptFifo, ElementsSame, FifoMutexes
  <2>9. FifosTyped'
    BY <1>0, <1>1, <2>8, KeptTyped, WritesNat DEF FifosTyped
  <2>10. DataShape'
    BY <1>0, <1>1 DEF DataShape, FifoShape
  <2>11. NumbersGo(t) /\ StatesGo(t)
    BY <1>1, <1>3, <1>5 DEF NumbersGo, StatesGo
  <2>12. QED
    BY <1>1, <1>3, <1>5, <2>7, <2>9, <2>10, <2>11 DEF Good
<1>6. QED
  BY <1>1, <1>2, <1>4, <1>5

LEMMA TriggersGood ==
  ASSUME HoldInv, DataInv, NEW t \in Threads, Triggers(t), thr[t].op = "QUEUE"
  PROVE  Good(t)
  BY QueueRestGood, QueueInGood, QueueDrainGood, QueueTakeGood, QueueOutGood, QueueSendGood
  DEF Triggers

LEMMA WritesGood ==
  ASSUME HoldInv, DataInv, NEW t \in Threads, Writes(t), thr[t].op = "WRITE"
  PROVE  Good(t)
  BY WriteEnterGood, WriteSendGood, WriteCountGood DEF Writes

LEMMA ReadEnterGood ==
  ASSUME HoldInv, DataInv, NEW t \in Threads, ReadEnter(t), thr[t].op = "READ"
  PROVE  Good(t)
<1>1. /\ thr[t].f \in Fifos /\ FifoMutexes /\ OnlyThread(t)
      /\ UNCHANGED <<usage, fifo, stick, writes>>
      /\ \/ thr'[t] = Idle
         \/ Goes(t, "crashed")
         \/ Goes(t, "wait") /\ fifo[thr[t].f].st = "allocated"
  BY ReadEnterDoes DEF FifoMutexes
<1>2. CASE thr'[t] = Idle
  BY <1>1, <1>2, QuietIdle
<1>3. CASE Goes(t, "crashed") \/ (Goes(t, "wait") /\ fifo[thr[t].f].st = "allocated")
  <2>1. /\ thr'[t].op = "READ" /\ thr'[t].f = thr[t].f /\ thr'[t].param \in 0 .. writes
        /\ thr'[t].pc = "crashed" \/ fifo[thr[t].f].st = "allocated"
    BY <1>3 DEF Goes, KeepsWhat, SameCall, DataInv, CallsTyped
  <2>2. PICK f : f = thr'[t].f
    OBVIOUS
  <2>3. thr'[t].pc = "crashed" \/ fifo'[f].st = "allocated"
    BY <1>1, <2>1, <2>2
  <2>4. PlaceTyped(t)' /\ ~Writing(t)'
    BY <2>1, <2>2, <2>3 DEF PlaceTyped, Writing
  <2>5. QED
    BY <1>1, <2>1, <2>4, QuietTyped
<1>4. QED
  BY <1>1, <1>2, <1>3

LEMMA ReadWaitGood ==
  ASSUME HoldInv, DataInv, NEW t \in Threads, ReadWait(t), thr[t].op = "READ"
  PROVE  Good(t)
<1>0. usage \in Usages /\ DataShape /\ StickShape
  BY DEF DataInv, DataShape, HoldInv, ThreadInv, ThrOK
<1> PICK f : f = thr[t].f
  OBVIOUS
<1>1. /\ f \in Fifos /\ thr[t].pc = "wait" /\ OnlyThread(t) /\ StickShape' /\ FifoMutexes
      /\ UNCHANGED <<usage, fifo, writes>>
      /\ \/ thr'[t] = Idle /\ UNCHANGED stick
         \/ /\ thr'[t].pc = "count" /\ SameCall(thr'[t], thr[t]) /\ thr'[t].param = thr[t].param
            /\ stick.out[f] # <<>>
            /\ stick'.jobs = stick.jobs /\ stick'.buf = stick.buf
            /\ stick'.out[f] = Tail(stick.out[f])
            /\ \A h \in Fifos : h # f => stick'.out[h] = stick.out[h]
  BY <1>0, ReadWaitDoes DEF FifoMutexes, At
<1>2. CASE thr'[t] = Idle /\ UNCHANGED stick
  BY <1>1, <1>2, QuietIdle
<1>3. CASE /\ thr'[t].pc = "count" /\ SameCall(thr'[t], thr[t]) /\ thr'[t].param = thr[t].param
           /\ stick.out[f] # <<>>
           /\ stick'.jobs = stick.jobs /\ stick'.buf = stick.buf
           /\ stick'.out[f] = Tail(stick.out[f])
           /\ \A h \in Fifos : h # f => stick'.out[h] = stick.out[h]
  <2>1. PICK p : p = stick.out[f]
    OBVIOUS
  <2>2. IsSeq(p) /\ p # <<>>
    BY <1>0, <1>1, <1>3, <2>1 DEF StickShape
  <2>3. Len(stick'.out[f]) = Len(p) - 1 /\ Len(p) \in Nat
    BY <1>3, <2>1, <2>2, SeqTaken, SeqLen
  <2>4. Stocked(f)'
    BY <1>1, <1>3, <2>1, <2>3, NcAssumption DEF Stocked, DataInv, FifosTyped
  <2>5. fifo[f].st # "created" /\ thr[t].param \in 0 .. writes
    BY <1>1 DEF DataInv, CallsTyped, PlaceTyped
  <2>6. thr'[t].op = "READ" /\ thr'[t].f = f
    BY <1>3 DEF SameCall
  <2>7. PlaceTyped(t)' /\ ~Writing(t)'
    BY <1>1, <2>5, <2>6 DEF PlaceTyped, Writing
  <2>8. QED
    BY <1>1, <1>3, <2>4, <2>5, <2>7, StockGood
<1>4. QED
  BY <1>1, <1>2, <1>3

LEMMA ReadCountGood ==
  ASSUME HoldInv, DataInv, NEW t \in Threads, ReadCount(t), thr[t].op = "READ"
  PROVE  Good(t)
<1>0. usage \in Usages /\ DataShape /\ writes \in Nat /\ usage.consumers \in Nat \ {0}
  BY WritesNat DEF DataInv, HoldInv, ThreadInv, ThrOK
<1> PICK f : f = thr[t].f
  OBVIOUS
<1>1. /\ f \in Fifos /\ thr[t].pc = "count" /\ OnlyThread(t) /\ thr'[t] = Idle
      /\ mutex[f] = None
      /\ FifoShape' /\ OthersSame(f)
      /\ fifo'[f].st = fifo[f].st /\ fifo'[f].type = fifo[f].type
      /\ fifo'[f].writeCount = fifo[f].writeCount
      /\ fifo'[f].consumed = fifo[f].consumed
      /\ fifo'[f].apiRead = (fifo[f].remaining # 1)
      /\ fifo'[f].remaining = IF fifo[f].remaining = 1 THEN usage.consumers
                              ELSE fifo[f].remaining - 1
      /\ fifo'[f].in = fifo[f].in
      /\ fifo'[f].out = Pop(fifo[f].out)
      /\ UNCHANGED <<usage, mutex, stick, writes>>
  BY <1>0, ReadCountDoes DEF At
<1>2. CountsTyped(f)
  BY <1>1 DEF DataInv, FifosTyped
<1>3. fifo[f].st # "created"
  BY <1>1 DEF DataInv, CallsTyped, PlaceTyped
<1>4. CountsTyped(f)'
  <2>1. fifo'[f].apiRead \in BOOLEAN
    BY <1>1
  <2>2. fifo[f].remaining \in 1 .. usage.consumers
    BY <1>1, <1>2 DEF CountsTyped
  <2>3. /\ fifo'[f].remaining \in 1 .. usage.consumers
        /\ fifo'[f].apiRead => fifo'[f].remaining < usage'.consumers /\ fifo'[f].st # "created"
    <3>1. CASE fifo[f].remaining = 1
      <4>1. fifo'[f].remaining = usage.consumers /\ ~fifo'[f].apiRead
        BY <1>1, <3>1
      <4>2. QED
        BY <1>0, <4>1
    <3>2. CASE fifo[f].remaining # 1
      <4>1. fifo'[f].remaining = fifo[f].remaining - 1
        BY <1>1, <3>2
      <4>2. QED
        BY <1>0, <1>1, <1>3, <2>2, <3>2, <4>1
    <3>3. QED
      BY <3>1, <3>2
  <2>4. /\ fifo'[f].st \in {"created", "allocated", "freed"}
        /\ fifo'[f].type = usage'.type[f]
        /\ fifo'[f].remaining \in 0 .. usage'.consumers
        /\ fifo'[f].remaining = 0 => mutex'[f] # None
        /\ fifo'[f].writeCount \in Nat /\ fifo'[f].consumed \in Nat
        /\ fifo'[f].consumed <= fifo'[f].writeCount
    BY <1>0, <1>1, <1>2, <2>3 DEF CountsTyped
  <2>5. QED
    BY <2>1, <2>3, <2>4, Zenon DEF CountsTyped
<1>5. ParamsTyped(f)'
  BY <1>1, ParamsPopped
<1>6. DataShape' /\ FifosTyped' /\ JobsTyped'
  BY <1>1, <1>4, <1>5, OneFifo
<1>7. thr'[t].param \in 0 .. writes' /\ PlaceTyped(t)' /\ ~Writing(t)'
  BY <1>0, <1>1, IdlePlace
<1>8. NumbersGo(t)
  BY <1>1, <1>7, OneFifoNumbers
<1>9. StatesGo(t)
  BY <1>1 DEF StatesGo, OthersSame
<1>10. QED
  BY <1>1, <1>6, <1>7, <1>8, <1>9 DEF Good

LEMMA ReadsGood ==
  ASSUME HoldInv, DataInv, NEW t \in Threads, ReadsElem(t), thr[t].op = "READ"
  PROVE  Good(t)
  BY ReadEnterGood, ReadWaitGood, ReadCountGood DEF ReadsElem

-----------------------------------------------------------------------------
(* The stick, and the beginning of a call.                                   *)

LEMMA LeftOf ==
  ASSUME StickShape, NEW f \in Fifos, NEW j, stick.buf[j.f] # <<>>
  PROVE  /\ IsSeq(Left(j, f)) /\ Len(Left(j, f)) \in Nat
         /\ Len(Left(j, f)) = IF f = j.f THEN Len(stick.buf[f]) - 1 ELSE Len(stick.buf[f])
<1> PICK p, q : p = stick.buf[f] /\ q = Left(j, f)
  OBVIOUS
<1>1. IsSeq(p)
  BY DEF StickShape
<1>2. Len(p) \in Nat
  BY <1>1, SeqLen
<1>3. CASE f = j.f
  <2>1. q = Tail(p) /\ p # <<>>
    BY <1>3 DEF Left
  <2>2. IsSeq(Tail(p)) /\ Len(Tail(p)) = Len(p) - 1
    BY <1>1, <2>1, SeqTaken
  <2>3. Len(Tail(p)) \in Nat
    BY <2>2, SeqLen
  <2>4. QED
    BY <1>3, <2>1, <2>2, <2>3
<1>4. CASE f # j.f
  BY <1>1, <1>2, <1>4 DEF Left
<1>5. QED
  BY <1>3, <1>4

LEMMA RanTypes ==
  ASSUME HoldInv, DataInv, NEW j \in JobRecords, NEW r, Ran(j, r)
  PROVE  DataInv'
<1>0. usage \in Usages /\ DataShape /\ StickShape /\ FifoShape /\ NumElements \in Nat \ {0}
  BY NcAssumption DEF DataInv, DataShape, HoldInv, ThreadInv, ThrOK
<1>1. /\ stick.jobs # <<>> /\ j = Head(stick.jobs) /\ stick'.jobs = Tail(stick.jobs)
      /\ stick.buf[j.f] # <<>> /\ Len(stick.out[j.o]) < NumElements
      /\ \A f \in Fifos : stick'.buf[f] = IF f = j.o /\ Chained(f) THEN Append(Left(j, f), r)
                                         ELSE Left(j, f)
      /\ stick'.out[j.o] = Append(stick.out[j.o], r)
      /\ \A f \in Fifos : f # j.o => stick'.out[f] = stick.out[f]
      /\ StickShape' /\ j.o \in Fifos
      /\ UNCHANGED <<usage, mutex, fifo, thr, writes>>
  BY DEF Ran, JobRecords
<1>2. PICK p, q : p = stick.jobs /\ q = stick'.jobs
  OBVIOUS
<1>3. IsSeq(p) /\ p # <<>> /\ \A k \in 1 .. Len(p) : usage.type[p[k].o] # "WO"
  BY <1>0, <1>1, <1>2 DEF DataInv, StickShape, IsSeq, JobsTyped
<1>4. /\ Len(q) = Len(p) - 1 /\ Len(p) \in Nat /\ Len(p) >= 1
      /\ j = p[1] /\ \A i \in 1 .. Len(p) - 1 : q[i] = p[i + 1]
  BY <1>1, <1>2, <1>3, SeqTaken, SeqLen
<1>5. JobsTyped'
  <2>1. \A k \in 1 .. Len(q) : usage'.type[q[k].o] # "WO"
    BY <1>1, <1>3, <1>4
  <2>2. QED
    BY <1>2, <2>1 DEF JobsTyped
<1>6. usage.type[j.o] # "WO"
  BY <1>3, <1>4
<1>7. ASSUME NEW f \in Fifos
      PROVE  Stocked(f)'
  <2>1. Stocked(f)
    BY DEF DataInv, FifosTyped
  <2>2. Len(stick'.out[f]) <= NumElements
    <3>1. CASE f = j.o
      <4>1. PICK u : u = stick.out[f]
        OBVIOUS
      <4>2. IsSeq(u) /\ Len(u) < NumElements /\ stick'.out[f] = Append(u, r)
        BY <1>0, <1>1, <3>1, <4>1 DEF StickShape
      <4>3. Len(stick'.out[f]) = Len(u) + 1 /\ Len(u) \in Nat
        BY <4>2, SeqAppended, SeqLen
      <4>4. QED
        BY <1>0, <4>2, <4>3
    <3>2. CASE f # j.o
      BY <1>1, <2>1, <3>2 DEF Stocked
    <3>3. QED
      BY <3>1, <3>2
  <2>3. ASSUME usage.type[f] = "WO"
        PROVE  Len(stick'.buf[f]) <= NumElements
    <3>1. stick'.buf[f] = Left(j, f)
      BY <1>1, <1>6, <2>3
    <3>2. Len(stick.buf[f]) \in Nat
      BY <1>0, SeqLen DEF StickShape
    <3>3. Len(Left(j, f)) <= Len(stick.buf[f])
      BY <1>0, <1>1, <3>2, LeftOf
    <3>4. Len(Left(j, f)) \in Nat
      BY <1>0, <1>1, LeftOf
    <3>5. QED
      BY <1>0, <2>1, <2>3, <3>1, <3>2, <3>3, <3>4 DEF Stocked
  <2>4. QED
    BY <1>1, <2>2, <2>3 DEF Stocked
<1>8. FifosTyped'
  <2>1. \A f \in Fifos : CountsTyped(f)' /\ ParamsTyped(f)'
    BY <1>0, <1>1, CountsSame, ParamsSame, WritesNat
  <2>2. QED
    BY <1>7, <2>1 DEF FifosTyped
<1>9. CallsTyped'
  BY <1>1 DEF DataInv, CallsTyped, NumberOwn, PlaceTyped, Writing
<1>10. DataShape'
  BY <1>0, <1>1 DEF DataShape, FifoShape
<1>11. QED
  BY <1>1, <1>5, <1>8, <1>9, <1>10 DEF DataInv

LEMMA CallTypes ==
  ASSUME HoldInv, DataInv, NEW t \in Threads, Call(t)
  PROVE  DataInv'
<1>1. /\ UNCHANGED <<usage, mutex, fifo, stick, writes>>
      /\ \A s \in Threads : s # t => thr'[s] = thr[s]
      /\ thr'[t].pc = "enter" /\ thr'[t].param = 0
  <2>1. PICK c \in usage.calls[t] :
          thr' = [thr EXCEPT ![t] =
                   [Idle EXCEPT !.pc = "enter", !.op = c.op, !.g = c.g, !.f = c.f, !.o = c.o]]
    BY DEF Call
  <2>2. PICK x : x = [Idle EXCEPT !.pc = "enter", !.op = c.op, !.g = c.g, !.f = c.f, !.o = c.o]
    OBVIOUS
  <2>3. x.pc = "enter" /\ x.param = 0
    BY <2>2 DEF Idle
  <2>4. thr' = [thr EXCEPT ![t] = x]
    BY <2>1, <2>2
  <2>5. thr'[t] = x /\ \A s \in Threads : s # t => thr'[s] = thr[s]
    BY <2>4 DEF HoldInv, ThreadInv, ThrOK
  <2>6. QED
    BY <2>3, <2>5 DEF Call
<1>2. DataShape' /\ JobsTyped' /\ FifosTyped' /\ writes \in Nat
  BY <1>1, WritesNat
  DEF DataInv, DataShape, FifoShape, StickShape, JobRecords, JobsTyped, FifosTyped, CountsTyped,
      ParamsTyped, Stocked, HoldInv, ThreadInv, ThrOK
<1>3. \A s \in Threads : thr'[s].param \in 0 .. writes' /\ PlaceTyped(s)'
  <2> TAKE s \in Threads
  <2>1. CASE s = t
    BY <1>1, <1>2, <2>1 DEF PlaceTyped
  <2>2. CASE s # t
    BY <1>1, <2>2 DEF DataInv, CallsTyped, PlaceTyped
  <2>3. QED
    BY <2>1, <2>2
<1>4. \A s \in Threads : Writing(s)' => Writing(s) /\ thr'[s] = thr[s]
  BY <1>1 DEF Writing
<1>5. \A s \in Threads : NumberOwn(s)'
  BY <1>1, <1>4 DEF DataInv, CallsTyped, NumberOwn
<1>6. QED
  BY <1>1, <1>2, <1>3, <1>5 DEF DataInv, CallsTyped

LEMMA InitTypes == Init => DataInv
<1> SUFFICES ASSUME Init PROVE DataInv
  OBVIOUS
<1>1. /\ usage \in Usages /\ usage.consumers \in Nat \ {0} /\ usage.writes \in Nat
      /\ usage.type \in [Fifos -> {"WO", "RO"}] /\ NumElements \in Nat
  BY NcAssumption DEF Init
<1>2. \A f \in Fifos :
        /\ fifo[f] = NewFifo(usage, f) /\ stick.buf[f] = <<>> /\ stick.out[f] = <<>>
  BY DEF Init
<1>3. ASSUME NEW f \in Fifos
      PROVE  /\ DOMAIN fifo[f] = FifoFields
             /\ fifo[f].st \in {"created", "allocated"} /\ fifo[f].type = usage.type[f]
             /\ fifo[f].writeCount = 0 /\ fifo[f].consumed = 0
             /\ fifo[f].remaining = usage.consumers /\ fifo[f].apiRead = FALSE
             /\ fifo[f].in = <<>> /\ fifo[f].out = <<>>
  <2>1. PICK x, a, b, c, d :
          /\ x = fifo[f] /\ a \in {"created", "allocated"}
          /\ x = [st |-> a, type |-> usage.type[f], dev |-> b, writeCount |-> 0, consumed |-> 0,
                  remaining |-> usage.consumers, apiRead |-> FALSE, in |-> <<>>, out |-> <<>>,
                  graph |-> c, hostSet |-> (f \in Range(usage.ready.fifos)), host |-> d]
    BY <1>2, <1>3, Zenon DEF NewFifo
  <2>2. DOMAIN x = FifoFields
    BY <2>1, SMTT(30) DEF FifoFields
  <2>3. /\ x.st = a /\ x.type = usage.type[f] /\ x.writeCount = 0 /\ x.consumed = 0
        /\ x.remaining = usage.consumers /\ x.apiRead = FALSE /\ x.in = <<>> /\ x.out = <<>>
    BY <2>1, SMTT(30)
  <2>4. QED
    BY <2>1, <2>2, <2>3
<1>4. DataShape
  <2>1. FifoShape
    BY <1>3 DEF FifoShape, Init
  <2>2. StickShape
    BY <1>2, SeqEmpty DEF StickShape, Init
  <2>3. QED
    BY <2>1, <2>2 DEF DataShape
<1>5. FifosTyped
  <2>1. ASSUME NEW f \in Fifos
        PROVE  CountsTyped(f)
    <3>1. /\ fifo[f].st \in {"created", "allocated"} /\ fifo[f].type = usage.type[f]
          /\ fifo[f].writeCount = 0 /\ fifo[f].consumed = 0
          /\ fifo[f].remaining = usage.consumers /\ fifo[f].apiRead = FALSE
      BY <1>3, <2>1
    <3>2. fifo[f].remaining \in 0 .. usage.consumers /\ fifo[f].remaining # 0
      BY <1>1, <3>1
    <3>3. /\ fifo[f].consumed <= fifo[f].writeCount
          /\ fifo[f].consumed \in Nat /\ fifo[f].writeCount \in Nat
          /\ fifo[f].st \in {"created", "allocated", "freed"}
      BY <3>1
    <3>4. fifo[f].apiRead \in BOOLEAN /\ ~fifo[f].apiRead
      BY <3>1
    <3>5. QED
      BY <3>1, <3>2, <3>3, <3>4, Zenon DEF CountsTyped
  <2>2. ASSUME NEW f \in Fifos
        PROVE  ParamsTyped(f)
    <3>0. fifo[f].in = <<>> /\ fifo[f].out = <<>>
      BY <1>3, <2>2
    <3>1. IsSeq(fifo[f].in) /\ IsSeq(fifo[f].out)
      BY <3>0, SeqEmpty
    <3>2. Len(fifo[f].in) = 0 /\ Len(fifo[f].out) = 0
      BY <3>0, SeqEmpty
    <3>3. QED
      BY <3>1, <3>2 DEF ParamsTyped
  <2>3. ASSUME NEW f \in Fifos
        PROVE  Stocked(f)
    BY <1>1, <1>2, SeqEmpty DEF Stocked
  <2>4. QED
    BY <2>1, <2>2, <2>3 DEF FifosTyped
<1>6. JobsTyped
  BY SeqEmpty DEF JobsTyped, Init
<1>7. CallsTyped
  BY <1>1 DEF CallsTyped, NumberOwn, PlaceTyped, Writing, Init, Idle
<1>8. QED
  BY <1>1, <1>4, <1>5, <1>6, <1>7 DEF DataInv, Init

LEMMA StepTypes == HoldInv /\ DataInv /\ [Next]_vars => DataInv'
<1> SUFFICES ASSUME HoldInv, DataInv, [Next]_vars PROVE DataInv'
  OBVIOUS
<1>1. CASE StickRuns
  <2>1. \E j \in JobRecords : \E r : Ran(j, r)
    BY <1>1, StickDoes DEF DataInv
  <2>2. QED
    BY <2>1, RanTypes
<1>2. ASSUME NEW t \in Threads, Thread(t)
      PROVE  DataInv'
  <2>1. CASE Call(t)
    BY <2>1, CallTypes
  <2>2. CASE OpsOf(t) /\ thr[t].pc # "idle" /\ Steps(t)
    <3>1. Good(t)
      BY <2>2, DevicesGood, GraphsGood, OptionsGood, FAllocsGood, FDestroysGood, WritesGood,
         TriggersGood, ReadsGood DEF OpsOf
    <3>2. usage' = usage
      BY <2>2 DEF Steps, Advances
    <3>3. QED
      BY <2>2, <3>1, <3>2, GoodCalls
  <2>3. QED
    BY <1>2, <2>1, <2>2, StepOps
<1>3. CASE UNCHANGED vars
  BY <1>3 DEF vars, DataInv, DataShape, FifoShape, StickShape, JobRecords, FifosTyped,
     CountsTyped,
     ParamsTyped, Stocked, JobsTyped, CallsTyped, NumberOwn, PlaceTyped, Writing
<1>4. QED
  BY <1>1, <1>2, <1>3 DEF Next

-----------------------------------------------------------------------------
(* The answers that nobody has read are bounded by the calls that may still  *)
(* send a request.                                                           *)

MaySend(t) ==
  \/ thr[t].pc \in {"enter", "find", "send", "in", "drain", "take", "out"}
  \/ At(t, "FALLOC", "link")
Unsent == {t \in Threads : MaySend(t)}
RespBound == IsSeq(resp) /\ Len(resp) + Cardinality(Unsent) <= MaxStale + Cardinality(Threads)

\* A call that may not send a request any more, and the one request of a call.
Spent(t) == thr'[t].pc \in {"idle", "destroy", "data", "check", "memory", "linked", "free", "count",
                            "stuck", "crashed", "close", "monitor", "running", "waiting"}
            \/ (thr'[t].pc = "link" /\ thr'[t].op # "FALLOC")
RespMoves(t) ==
  \/ /\ MaySend(t) \/ Spent(t)
     /\ \/ resp' = resp
        \/ resp' = <<>>
        \/ resp # <<>> /\ resp' = Tail(resp)
  \/ MaySend(t) /\ Spent(t) /\ \E x : resp' = Append(resp, x)

LEMMA SpentUnsent ==
  ASSUME NEW t \in Threads, Spent(t)
  PROVE  ~MaySend(t)'
  BY DEF Spent, MaySend, At

LEMMA SendMoves ==
  ASSUME HoldInv, NEW t \in Threads, thr[t].pc = "send", UNCHANGED usage,
         \/ resp' = resp
         \/ /\ Goto(t, "check") \/ Goto(t, "data")
            /\ \E ok \in Answers(t) : resp' = Answer(t, ok)
  PROVE  RespMoves(t)
<1>1. MaySend(t)
  BY DEF MaySend
<1>2. CASE resp' = resp
  BY <1>1, <1>2 DEF RespMoves
<1>3. CASE /\ Goto(t, "check") \/ Goto(t, "data")
           /\ \E ok \in Answers(t) : resp' = Answer(t, ok)
  <2>1. Spent(t)
    BY <1>3, GoesTo DEF Spent
  <2>2. \E x : resp' = Append(resp, x)
    BY <1>3, Zenon DEF Answer
  <2>3. QED
    BY <1>1, <2>1, <2>2 DEF RespMoves
<1>4. QED
  BY <1>2, <1>3

\* A step that sends nothing.
LEMMA QuietMoves ==
  ASSUME HoldInv, NEW t \in Threads, UNCHANGED usage,
         \/ resp' = resp
         \/ resp' = <<>>
         \/ \E ok \in BOOLEAN : Checked(t, ok),
         \/ MaySend(t)
         \/ Return(t)
         \/ \E pc \in {"destroy", "data", "check", "memory", "linked", "free", "count",
                     "crashed", "running", "waiting"} : Goto(t, pc)
  PROVE  RespMoves(t)
<1>1. MaySend(t) \/ Spent(t)
  BY GoesTo DEF Spent
<1>2. resp' = resp \/ resp' = <<>> \/ (resp # <<>> /\ resp' = Tail(resp))
  BY DEF Checked
<1>3. QED
  BY <1>1, <1>2 DEF RespMoves

LEMMA DevicesMove ==
  ASSUME HoldInv, NEW t \in Threads, Devices(t)
  PROVE  RespMoves(t)
<1>1. CASE OpenEnter(t) \/ CloseEnter(t)
  BY <1>1, QuietMoves DEF OpenEnter, CloseEnter, MaySend, At
<1>2. CASE OpenMonitor(t) \/ Destroy(t)
  BY <1>2, QuietMoves DEF OpenMonitor, Destroy
<1>3. CASE Close(t)
  <2>1. resp' = <<>> /\ UNCHANGED usage /\ (Return(t) \/ Goto(t, "destroy"))
    BY <1>3, Zenon DEF Close
  <2>2. QED
    BY <2>1, QuietMoves
<1>4. QED
  BY <1>1, <1>2, <1>3 DEF Devices

LEMMA GraphsMove ==
  ASSUME HoldInv, NEW t \in Threads, GraphCalls(t)
  PROVE  RespMoves(t)
<1>1. CASE GAllocSend(t) \/ GDestroySend(t) \/ StateSend(t)
  BY <1>1, SendMoves DEF GAllocSend, GDestroySend, StateSend, At
<1>2. CASE GAllocEnter(t) \/ GDestroyCreated(t) \/ GDestroyEnter(t) \/ StateEnter(t)
  BY <1>2, QuietMoves DEF GAllocEnter, GDestroyCreated, GDestroyEnter, StateEnter, MaySend, At
<1>3. CASE GAllocData(t) \/ GAllocMemory(t) \/ GAllocLinked(t) \/ GDestroyFree(t) \/ StateSet(t)
  <2>1. /\ UNCHANGED <<usage, resp>>
        /\ Return(t) \/ Goto(t, "check") \/ Goto(t, "crashed")
    BY <1>3, Zenon DEF GAllocData, GAllocMemory, GAllocLinked, GDestroyFree, StateSet
  <2>2. QED
    BY <2>1, QuietMoves
<1>4. CASE GAllocLink(t)
  BY <1>4, QuietMoves DEF GAllocLink
<1>5. CASE GDestroyCheck(t) \/ StateCheck(t)
  <2>1. /\ UNCHANGED usage
        /\ Return(t) \/ Goto(t, "free") \/ Goto(t, "running") \/ Goto(t, "waiting")
        /\ \E ok \in BOOLEAN : Checked(t, ok)
    <3>1. CASE GDestroyCheck(t)
      BY <3>1, Zenon DEF GDestroyCheck
    <3>2. CASE StateCheck(t)
      BY <3>2, Zenon DEF StateCheck
    <3>3. QED
      BY <1>5, <3>1, <3>2
  <2>2. QED
    BY <2>1, QuietMoves
<1>6. CASE GAllocCheck(t)
  <2>1. /\ UNCHANGED usage /\ (Return(t) \/ Goto(t, "memory") \/ Goto(t, "link"))
        /\ \E ok \in BOOLEAN : Checked(t, ok)
        /\ thr[t].op = "GALLOC"
    BY <1>6, Zenon DEF GAllocCheck, At
  <2>2. CASE Return(t) \/ Goto(t, "memory")
    BY <2>1, <2>2, QuietMoves
  <2>3. CASE Goto(t, "link")
    <3>1. thr'[t].pc = "link" /\ thr'[t].op # "FALLOC"
      BY <2>1, <2>3, GoesTo DEF SameCall
    <3>2. Spent(t)
      BY <3>1 DEF Spent
    <3>3. resp' = resp \/ (resp # <<>> /\ resp' = Tail(resp))
      BY <2>1 DEF Checked
    <3>4. QED
      BY <3>2, <3>3 DEF RespMoves
  <2>4. QED
    BY <2>1, <2>2, <2>3
<1>7. QED
  BY <1>1, <1>2, <1>3, <1>4, <1>5, <1>6 DEF GraphCalls

LEMMA FifosMove ==
  ASSUME HoldInv, NEW t \in Threads, FifoCalls(t)
  PROVE  RespMoves(t)
<1>1. CASE FAllocSend(t) \/ FDestroySend(t)
  BY <1>1, SendMoves DEF FAllocSend, FDestroySend, At
<1>2. CASE \/ SetType(t) \/ SetDesc(t) \/ FAllocRead(t) \/ FDestroyCreated(t)
           \/ FDestroyEnter(t)
  BY <1>2, QuietMoves
  DEF SetType, SetDesc, FAllocRead, FDestroyCreated, FDestroyEnter, MaySend, At
<1>3. CASE FAllocFind(t)
  <2>1. thr[t].pc = "find" /\ UNCHANGED <<usage, resp>>
    BY <1>3 DEF FAllocFind, At
  <2>2. QED
    BY <2>1, QuietMoves DEF MaySend
<1>4. CASE FAllocLink(t)
  BY <1>4, QuietMoves DEF FAllocLink, MaySend
<1>5. CASE FAllocCheck(t) \/ FDestroyCheck(t)
  <2>1. /\ UNCHANGED usage /\ (Return(t) \/ Goto(t, "free"))
        /\ \E ok \in BOOLEAN : Checked(t, ok)
    BY <1>5, Zenon DEF FAllocCheck, FDestroyCheck
  <2>2. QED
    BY <2>1, QuietMoves
<1>6. CASE FDestroyFree(t)
  <2>1. UNCHANGED <<usage, resp>> /\ (Return(t) \/ Goto(t, "crashed"))
    BY <1>6, Zenon DEF FDestroyFree
  <2>2. QED
    BY <2>1, QuietMoves
<1>7. QED
  BY <1>1, <1>2, <1>3, <1>4, <1>5, <1>6 DEF FifoCalls

LEMMA ElementsMove ==
  ASSUME HoldInv, NEW t \in Threads, Elements(t)
  PROVE  RespMoves(t)
<1>1. CASE QueueSend(t)
  BY <1>1, SendMoves DEF QueueSend, At
<1>2. CASE \/ WriteEnter(t) \/ WriteSend(t) \/ QueueEnter(t) \/ QueueIn(t) \/ QueueDrain(t)
           \/ QueueTake(t) \/ QueueOut(t) \/ ReadEnter(t)
  <2>1. UNCHANGED <<usage, resp>>
          /\ thr[t].pc \in {"enter", "send", "in", "drain", "take", "out"}
    BY <1>2 DEF WriteEnter, WriteSend, QueueEnter, QueueIn, QueueDrain, QueueTake, QueueOut,
       ReadEnter,
       At
  <2>2. QED
    BY <2>1, QuietMoves DEF MaySend
<1>3. CASE WriteCount(t) \/ QueueCheck(t) \/ ReadCount(t)
  <2>1. /\ UNCHANGED usage /\ Return(t)
        /\ resp' = resp \/ \E ok \in BOOLEAN : Checked(t, ok)
    BY <1>3, Zenon DEF WriteCount, QueueCheck, ReadCount
  <2>2. QED
    BY <2>1, QuietMoves
<1>4. CASE ReadWait(t)
  <2>1. UNCHANGED <<usage, resp>>
    BY <1>4 DEF ReadWait
  <2>2. Return(t) \/ \E x : WithElement(t, "count", x)
    BY <1>4, Zenon DEF ReadWait, WithElement
  <2>3. thr'[t].pc \in {"idle", "count"}
    BY <2>1, <2>2, GoesTo, CarriesElement
  <2>4. Spent(t)
    BY <2>3 DEF Spent
  <2>5. QED
    BY <2>1, <2>4 DEF RespMoves
<1>5. QED
  BY <1>1, <1>2, <1>3, <1>4 DEF Elements

LEMMA StepBound == HoldInv /\ RespBound /\ [Next]_vars => RespBound'
<1> SUFFICES ASSUME HoldInv, RespBound, [Next]_vars PROVE RespBound'
  OBVIOUS
<1>0. /\ IsFiniteSet(Threads) /\ MaxStale \in Nat /\ Unsent \subseteq Threads
      /\ Cardinality(Threads) \in Nat
  BY NcAssumption, FS_CardinalityType DEF Unsent
<1>1. CASE UNCHANGED vars
  BY <1>1 DEF vars, RespBound, Unsent, MaySend, At
<1>2. CASE StickRuns
  BY <1>2 DEF StickRuns, RespBound, Unsent, MaySend, At
<1>3. ASSUME NEW t \in Threads, Call(t)
      PROVE  RespBound'
  <2>1. resp' = resp /\ Len(resp) <= MaxStale
    BY <1>3 DEF Call, Allowed
  <2>2. Unsent' \subseteq Threads
    BY DEF Unsent
  <2>3. Cardinality(Unsent') <= Cardinality(Threads) /\ Cardinality(Unsent') \in Nat
    BY <1>0, <2>2, FS_Subset, FS_CardinalityType
  <2>4. Len(resp) \in Nat
    BY SeqLen DEF RespBound
  <2>5. QED
    BY <1>0, <2>1, <2>3, <2>4 DEF RespBound
<1>4. ASSUME NEW t \in Threads, RespMoves(t), \A s \in Threads : s # t => thr'[s] = thr[s]
      PROVE  RespBound'
  <2>0. IsSeq(resp) /\ Len(resp) \in Nat
    BY SeqLen DEF RespBound
  <2>1. PICK U, V : U = Unsent /\ V = Unsent'
    OBVIOUS
  <2>2. IsFiniteSet(U) /\ Cardinality(U) \in Nat
          /\ Len(resp) + Cardinality(U) <= MaxStale + Cardinality(Threads)
    BY <1>0, <2>1, FS_Subset, FS_CardinalityType DEF RespBound
  <2>3. \A s \in Threads : s # t => (s \in V <=> s \in U)
    BY <1>4, <2>1 DEF Unsent, MaySend, At
  <2>4. V \subseteq Threads
    BY <2>1 DEF Unsent
  <2>5. t \in V => MaySend(t)'
    BY <2>1 DEF Unsent
  <2>6. MaySend(t) => t \in U
    BY <2>1 DEF Unsent
  <2>7. CASE MaySend(t) /\ Spent(t) /\ \E x : resp' = Append(resp, x)
    <3>1. V \subseteq U \ {t} /\ t \in U
      BY <1>0, <2>1, <2>3, <2>4, <2>5, <2>6, <2>7, SpentUnsent
    <3>2. IsFiniteSet(U \ {t}) /\ Cardinality(U \ {t}) = Cardinality(U) - 1
      BY <2>2, <3>1, FS_RemoveElement
    <3>3. Cardinality(V) <= Cardinality(U) - 1 /\ Cardinality(V) \in Nat
      BY <3>1, <3>2, FS_Subset, FS_CardinalityType
    <3>4. IsSeq(resp') /\ Len(resp') = Len(resp) + 1
      BY <2>0, <2>7, SeqAppended
    <3>5. QED
      BY <1>0, <2>0, <2>1, <2>2, <3>3, <3>4 DEF RespBound
  <2>8. CASE /\ MaySend(t) \/ Spent(t)
             /\ resp' = resp \/ resp' = <<>> \/ (resp # <<>> /\ resp' = Tail(resp))
    <3>1. V \subseteq U
      BY <1>0, <2>1, <2>3, <2>4, <2>5, <2>6, <2>8, SpentUnsent
    <3>2. Cardinality(V) <= Cardinality(U) /\ Cardinality(V) \in Nat
      BY <2>2, <3>1, FS_Subset, FS_CardinalityType
    <3>3. IsSeq(resp') /\ Len(resp') <= Len(resp) /\ Len(resp') \in Nat
      <4>1. PICK p : p = resp
        OBVIOUS
      <4>2. resp # <<>> => IsSeq(Tail(p)) /\ Len(Tail(p)) = Len(p) - 1 /\ Len(p) >= 1
        BY <2>0, <4>1, SeqTaken
      <4>3. CASE resp # <<>> /\ resp' = Tail(resp)
        <5>1. IsSeq(resp') /\ Len(resp') = Len(p) - 1
          BY <4>1, <4>2, <4>3
        <5>2. QED
          BY <2>0, <4>1, <4>2, <4>3, <5>1
      <4>4. CASE resp' = resp \/ resp' = <<>>
        BY <2>0, <4>4, SeqEmpty
      <4>5. QED
        BY <2>8, <4>3, <4>4
    <3>4. QED
      BY <1>0, <2>0, <2>1, <2>2, <3>2, <3>3 DEF RespBound
  <2>9. QED
    BY <1>4, <2>7, <2>8 DEF RespMoves
<1>5. ASSUME NEW t \in Threads, Thread(t)
      PROVE  RespBound'
  <2>1. CASE Call(t)
    BY <1>3, <2>1
  <2>2. CASE ~Call(t)
    <3>1. RespMoves(t)
      BY <1>5, <2>2, DevicesMove, GraphsMove, FifosMove, ElementsMove DEF Thread
    <3>2. \A s \in Threads : s # t => thr'[s] = thr[s]
      BY <1>5, <2>2, ThreadSteps DEF Steps, Advances, HoldInv, ThreadInv
    <3>3. QED
      BY <1>4, <3>1, <3>2
  <2>3. QED
    BY <2>1, <2>2
<1>6. QED
  BY <1>1, <1>2, <1>5 DEF Next

LEMMA InitBound == Init => RespBound
<1> SUFFICES ASSUME Init PROVE RespBound
  OBVIOUS
<1>1. Unsent = {} /\ resp = <<>>
  BY DEF Init, Unsent, MaySend, At, Idle
<1>2. Cardinality(Unsent) = 0 /\ Cardinality(Threads) \in Nat
  BY <1>1, FS_EmptySet, FS_CardinalityType, NcAssumption
<1>3. QED
  BY <1>1, <1>2, SeqEmpty, NcAssumption DEF RespBound

-----------------------------------------------------------------------------
(* The device, the lists and the graphs.                                     *)

GraphStates == {"created", "allocated", "running", "waiting", "freed"}
ListsShape ==
  /\ head \in [graphs : Graphs \cup {None}, fifos : Fifos \cup {None}]
  /\ next \in [Objs -> Objs \cup {None}]
  /\ \A g \in Graphs : next[g] \in Graphs \cup {None}
  /\ \A f \in Fifos : next[f] \in Fifos \cup {None}
GraphShape == graph \in [Graphs -> [st : GraphStates, started : BOOLEAN]]
DeviceShape ==
  dev \in [st : {"created", "opened", "closed", "destroyed"}, listed : BOOLEAN, monitor : BOOLEAN]
ObjectShape == ListsShape /\ GraphShape /\ DeviceShape

LEMMA DevicesShape ==
  ASSUME HoldInv, ObjectShape, NEW t \in Threads, Devices(t)
  PROVE  ObjectShape'
<1>1. CASE OpenEnter(t) \/ OpenMonitor(t) \/ CloseEnter(t) \/ Destroy(t)
  <2>1. /\ UNCHANGED <<head, next, graph>>
        /\ \/ UNCHANGED dev
           \/ \E b \in BOOLEAN : dev' = [dev EXCEPT !.listed = b]
           \/ dev' = [dev EXCEPT !.st = "opened", !.monitor = TRUE]
           \/ dev' = [dev EXCEPT !.st = "destroyed"]
    BY <1>1 DEF OpenEnter, OpenMonitor, CloseEnter, Destroy
  <2>2. DeviceShape'
    BY <2>1 DEF ObjectShape, DeviceShape
  <2>3. QED
    BY <2>1, <2>2 DEF ObjectShape, ListsShape, GraphShape
<1>2. CASE Close(t)
  <2>1. /\ head' = [graphs |-> None, fifos |-> None] /\ next' = next
        /\ dev' = [dev EXCEPT !.st = "closed", !.monitor = FALSE]
        /\ \E S : graph' = [g \in Graphs |->
                             IF g \in S THEN [graph[g] EXCEPT !.st = "freed"] ELSE graph[g]]
    BY <1>2, Zenon DEF Close
  <2>2. DeviceShape'
    BY <2>1 DEF ObjectShape, DeviceShape
  <2>3. GraphShape'
    BY <2>1 DEF ObjectShape, GraphShape, GraphStates
  <2>4. ListsShape'
    BY <2>1 DEF ObjectShape, ListsShape
  <2>5. QED
    BY <2>2, <2>3, <2>4 DEF ObjectShape
<1>3. QED
  BY <1>1, <1>2 DEF Devices

LEMMA RemovedShape ==
  ASSUME ListsShape,
         (\E x \in Graphs : Removed("graphs", x)) \/ (\E x \in Fifos : Removed("fifos", x))
  PROVE  ListsShape'
<1>1. ASSUME NEW x \in Graphs, Removed("graphs", x)
      PROVE  ListsShape'
  <2>1. CASE head.graphs = x
    <3>1. head' = [head EXCEPT !.graphs = next[x]] /\ next' = next
      BY <1>1, <2>1 DEF Removed
    <3>2. next[x] \in Graphs \cup {None}
      BY DEF ListsShape
    <3>3. QED
      BY <3>1, <3>2 DEF ListsShape
  <2>2. CASE head.graphs # x
    <3>1. PICK S : S = List(head.graphs)
      OBVIOUS
    <3>2. /\ head' = head
          /\ next' = [y \in Objs |-> IF y \in S /\ next[y] = x THEN next[x] ELSE next[y]]
      BY <1>1, <2>2, <3>1 DEF Removed
    <3>3. next[x] \in Graphs \cup {None} /\ x # None /\ x \notin Fifos
      BY NcAssumption DEF ListsShape
    <3>4. \A y \in Objs : next'[y] = next[x] \/ next'[y] = next[y]
      BY <3>2
    <3>5. \A y \in Fifos : next'[y] = next[y]
      BY <3>2, <3>3 DEF ListsShape, Objs
    <3>6. QED
      BY <3>2, <3>3, <3>4, <3>5 DEF ListsShape, Objs
  <2>3. QED
    BY <2>1, <2>2
<1>2. ASSUME NEW x \in Fifos, Removed("fifos", x)
      PROVE  ListsShape'
  <2>1. CASE head.fifos = x
    <3>1. head' = [head EXCEPT !.fifos = next[x]] /\ next' = next
      BY <1>2, <2>1 DEF Removed
    <3>2. next[x] \in Fifos \cup {None}
      BY DEF ListsShape
    <3>3. QED
      BY <3>1, <3>2 DEF ListsShape
  <2>2. CASE head.fifos # x
    <3>1. PICK S : S = List(head.fifos)
      OBVIOUS
    <3>2. /\ head' = head
          /\ next' = [y \in Objs |-> IF y \in S /\ next[y] = x THEN next[x] ELSE next[y]]
      BY <1>2, <2>2, <3>1 DEF Removed
    <3>3. next[x] \in Fifos \cup {None} /\ x # None /\ x \notin Graphs
      BY NcAssumption DEF ListsShape
    <3>4. \A y \in Objs : next'[y] = next[x] \/ next'[y] = next[y]
      BY <3>2
    <3>5. \A y \in Graphs : next'[y] = next[y]
      BY <3>2, <3>3 DEF ListsShape, Objs
    <3>6. QED
      BY <3>2, <3>3, <3>4, <3>5 DEF ListsShape, Objs
  <2>3. QED
    BY <2>1, <2>2
<1>3. QED
  BY <1>1, <1>2

LEMMA GraphsShape ==
  ASSUME HoldInv, ObjectShape, NEW t \in Threads, GraphCalls(t),
         thr[t].op \in {"GALLOC", "GDESTROY", "STATE"}, thr[t].pc # "idle"
  PROVE  ObjectShape'
<1>0. thr[t].g \in Graphs
  BY CallHas DEF HoldInv, ThreadInv
<1> PICK g : g = thr[t].g
  OBVIOUS
<1>1. CASE \/ GAllocEnter(t) \/ GAllocSend(t) \/ GAllocData(t) \/ GAllocCheck(t)
           \/ GAllocMemory(t) \/ GDestroyEnter(t) \/ GDestroySend(t) \/ GDestroyCheck(t)
           \/ StateEnter(t) \/ StateSend(t) \/ StateCheck(t)
  <2>1. UNCHANGED <<dev, head, next, graph>>
    BY <1>1 DEF GAllocEnter, GAllocSend, GAllocData, GAllocCheck, GAllocMemory, GDestroyEnter,
       GDestroySend, GDestroyCheck, StateEnter, StateSend, StateCheck
  <2>2. QED
    BY <2>1 DEF ObjectShape, ListsShape, GraphShape, DeviceShape
<1>2. CASE GAllocLink(t)
  <2>1. /\ next' = next \/ (head.graphs # None /\ next' = [next EXCEPT ![g] = head.graphs])
        /\ UNCHANGED <<dev, head, graph>>
    BY <1>2 DEF GAllocLink
  <2>2. head.graphs \in Graphs \cup {None}
    BY DEF ObjectShape, ListsShape
  <2>3. ListsShape'
    BY <1>0, <2>1, <2>2, NcAssumption DEF ObjectShape, ListsShape, Objs
  <2>4. QED
    BY <2>1, <2>3 DEF ObjectShape, GraphShape, DeviceShape
<1>3. CASE GAllocLinked(t) \/ GDestroyCreated(t) \/ StateSet(t)
  <2>1. /\ head' = head \/ head' = [head EXCEPT !.graphs = g]
        /\ graph' = graph \/ \E st \in GraphStates : graph' = [graph EXCEPT ![g].st = st]
        /\ UNCHANGED <<dev, next>>
    BY <1>3 DEF GAllocLinked, GDestroyCreated, StateSet, GraphStates
  <2>2. ListsShape'
    BY <1>0, <2>1 DEF ObjectShape, ListsShape
  <2>3. GraphShape'
    <3>1. CASE graph' = graph
      BY <3>1 DEF ObjectShape, GraphShape
    <3>2. ASSUME NEW st \in GraphStates, graph' = [graph EXCEPT ![g].st = st]
          PROVE  GraphShape'
      BY <1>0, <3>2 DEF ObjectShape, GraphShape
    <3>3. QED
      BY <2>1, <3>1, <3>2
  <2>4. QED
    BY <2>1, <2>2, <2>3 DEF ObjectShape, DeviceShape
<1>4. CASE GDestroyFree(t)
  <2>1. /\ dev' = dev
        /\ \/ Removed("graphs", g) /\ graph' = [graph EXCEPT ![g].st = "freed"]
           \/ UNCHANGED <<head, next, graph>>
    BY <1>4, Zenon DEF GDestroyFree
  <2>2. ListsShape'
    BY <1>0, <2>1, RemovedShape DEF ObjectShape, ListsShape
  <2>3. GraphShape'
    BY <1>0, <2>1 DEF ObjectShape, GraphShape, GraphStates
  <2>4. QED
    BY <2>1, <2>2, <2>3 DEF ObjectShape, DeviceShape
<1>5. QED
  BY <1>1, <1>2, <1>3, <1>4 DEF GraphCalls

LEMMA FifosShape ==
  ASSUME HoldInv, ObjectShape, NEW t \in Threads, FifoCalls(t), thr[t].pc # "idle",
         thr[t].op \in {"SETTYPE", "SETDESC", "FALLOC", "FDESTROY"}
  PROVE  ObjectShape'
<1>0. thr[t].f \in Fifos
  BY CallHas DEF HoldInv, ThreadInv
<1> PICK f : f = thr[t].f
  OBVIOUS
<1>1. CASE \/ SetType(t) \/ SetDesc(t) \/ FAllocRead(t) \/ FAllocSend(t) \/ FAllocCheck(t)
           \/ FDestroyCreated(t) \/ FDestroyEnter(t) \/ FDestroySend(t) \/ FDestroyCheck(t)
  <2>1. UNCHANGED <<dev, head, next, graph>>
    BY <1>1, Zenon DEF SetType, SetDesc, FAllocRead, FAllocSend, FAllocCheck, FDestroyCreated,
       FDestroyEnter,
       FDestroySend, FDestroyCheck
  <2>2. QED
    BY <2>1 DEF ObjectShape, ListsShape, GraphShape, DeviceShape
<1>2. CASE FAllocFind(t)
  <2>1. /\ next' = next \/ next' = [next EXCEPT ![f] = head.fifos]
        /\ UNCHANGED <<dev, head, graph>>
    BY <1>2, Zenon DEF FAllocFind
  <2>2. head.fifos \in Fifos \cup {None}
    BY DEF ObjectShape, ListsShape
  <2>3. ListsShape'
    BY <1>0, <2>1, <2>2, NcAssumption DEF ObjectShape, ListsShape, Objs
  <2>4. QED
    BY <2>1, <2>3 DEF ObjectShape, GraphShape, DeviceShape
<1>3. CASE FAllocLink(t)
  <2>1. head' = [head EXCEPT !.fifos = f] /\ UNCHANGED <<dev, next, graph>>
    BY <1>3 DEF FAllocLink
  <2>2. ListsShape'
    BY <1>0, <2>1 DEF ObjectShape, ListsShape
  <2>3. QED
    BY <2>1, <2>2 DEF ObjectShape, GraphShape, DeviceShape
<1>4. CASE FDestroyFree(t)
  <2>1. (Removed("fifos", f) \/ UNCHANGED <<head, next>>) /\ UNCHANGED <<dev, graph>>
    BY <1>4, Zenon DEF FDestroyFree
  <2>2. ListsShape'
    BY <1>0, <2>1, RemovedShape DEF ObjectShape, ListsShape
  <2>3. QED
    BY <2>1, <2>2 DEF ObjectShape, GraphShape, DeviceShape
<1>5. QED
  BY <1>1, <1>2, <1>3, <1>4 DEF FifoCalls

LEMMA ElementsShape ==
  ASSUME HoldInv, ObjectShape, NEW t \in Threads, Elements(t), thr[t].pc # "idle",
           thr[t].op = "QUEUE" \/ ~Triggers(t)
  PROVE  ObjectShape'
<1>1. CASE QueueCheck(t)
  <2>1. /\ graph' = graph \/ graph' = [graph EXCEPT ![thr[t].g].started = TRUE]
        /\ UNCHANGED <<dev, head, next>>
    BY <1>1 DEF QueueCheck
  <2>2. thr[t].g \in Graphs
    BY <1>1, CallHas DEF HoldInv, ThreadInv, Triggers
  <2>3. GraphShape'
    BY <2>1, <2>2 DEF ObjectShape, GraphShape
  <2>4. QED
    BY <2>1, <2>3 DEF ObjectShape, ListsShape, DeviceShape
<1>2. CASE \/ WriteEnter(t) \/ WriteSend(t) \/ WriteCount(t) \/ QueueEnter(t) \/ QueueIn(t)
           \/ QueueDrain(t) \/ QueueTake(t) \/ QueueOut(t) \/ QueueSend(t)
           \/ ReadEnter(t) \/ ReadWait(t) \/ ReadCount(t)
  <2>1. UNCHANGED <<dev, head, next, graph>>
    BY <1>2, Zenon DEF WriteEnter, WriteSend, WriteCount, QueueEnter, QueueIn, QueueDrain,
       QueueTake,
       QueueOut, QueueSend, ReadEnter, ReadWait, ReadCount
  <2>2. QED
    BY <2>1 DEF ObjectShape, ListsShape, GraphShape, DeviceShape
<1>3. QED
  BY <1>1, <1>2 DEF Elements

LEMMA InitShape == Init => ObjectShape
<1> SUFFICES ASSUME Init PROVE ObjectShape
  OBVIOUS
<1>1. /\ IsReady(usage.ready)
      /\ usage.ready.graphs \in Seq(Graphs) /\ usage.ready.fifos \in Seq(Fifos)
  BY NcAssumption DEF Init, IsReady
<1>2. \A S, list : list \in Seq(S) => First(list) \in S \cup {None}
  <2> TAKE S, list
  <2> HAVE list \in Seq(S)
  <2>1. CASE list = <<>>
    BY <2>1 DEF First
  <2>2. CASE list # <<>>
    <3>1. Len(list) \in Nat /\ Len(list) # 0
      BY <2>2, EmptySeq
    <3>2. list[1] \in S
      BY <3>1
    <3>3. QED
      BY <2>2, <3>2 DEF First
  <2>3. QED
    BY <2>1, <2>2
<1>3. \A S, list, x : list \in Seq(S) => After(list, x) \in S \cup {None}
  <2> TAKE S, list, x
  <2> HAVE list \in Seq(S)
  <2>1. CASE \E i \in 1 .. Len(list) - 1 : list[i] = x
    <3>1. PICK k : k = CHOOSE i \in 1 .. Len(list) - 1 : list[i] = x
      OBVIOUS
    <3>2. k \in 1 .. Len(list) - 1
      BY <2>1, <3>1
    <3>3. list[k + 1] \in S
      BY <3>2
    <3>4. After(list, x) = list[k + 1]
      BY <2>1, <3>1 DEF After
    <3>5. QED
      BY <3>3, <3>4
  <2>2. CASE ~\E i \in 1 .. Len(list) - 1 : list[i] = x
    BY <2>2 DEF After
  <2>3. QED
    BY <2>1, <2>2
<1>4. ListsShape
  <2>1. head \in [graphs : Graphs \cup {None}, fifos : Fifos \cup {None}]
    <3>1. head = [graphs |-> First(usage.ready.graphs), fifos |-> First(usage.ready.fifos)]
      BY DEF Init
    <3>2. First(usage.ready.graphs) \in Graphs \cup {None}
            /\ First(usage.ready.fifos) \in Fifos \cup {None}
      BY <1>1, <1>2
    <3>3. QED
      BY <3>1, <3>2
  <2>2. next = [x \in Objs |-> IF x \in Graphs THEN After(usage.ready.graphs, x)
                               ELSE After(usage.ready.fifos, x)]
    BY DEF Init
  <2>3. \A x : After(usage.ready.graphs, x) \in Graphs \cup {None}
                 /\ After(usage.ready.fifos, x) \in Fifos \cup {None}
    BY <1>1, <1>3
  <2>4. \A f \in Fifos : f \notin Graphs
    BY NcAssumption
  <2>5. QED
    BY <2>1, <2>2, <2>3, <2>4 DEF ListsShape, Objs
<1>5. GraphShape
  BY DEF Init, GraphShape, NewGraph, GraphStates
<1>6. DeviceShape
  BY DEF Init, DeviceShape
<1>7. QED
  BY <1>4, <1>5, <1>6 DEF ObjectShape

LEMMA StepShape == HoldInv /\ ObjectShape /\ [Next]_vars => ObjectShape'
<1> SUFFICES ASSUME HoldInv, ObjectShape, [Next]_vars PROVE ObjectShape'
  OBVIOUS
<1>1. CASE UNCHANGED vars
  BY <1>1 DEF vars, ObjectShape, ListsShape, GraphShape, DeviceShape
<1>2. CASE StickRuns
  <2>1. UNCHANGED <<dev, head, next, graph>>
    BY <1>2, Zenon DEF StickRuns
  <2>2. QED
    BY <2>1 DEF ObjectShape, ListsShape, GraphShape, DeviceShape
<1>3. ASSUME NEW t \in Threads, Thread(t)
      PROVE  ObjectShape'
  <2>1. CASE Call(t)
    BY <2>1 DEF Call, ObjectShape, ListsShape, GraphShape, DeviceShape
  <2>2. CASE OpsOf(t) /\ thr[t].pc # "idle"
    <3>1. CASE Devices(t)
      BY <3>1, DevicesShape
    <3>2. CASE thr[t].op \in {"GALLOC", "GDESTROY", "STATE"} /\ GraphCalls(t)
      BY <2>2, <3>2, GraphsShape
    <3>3. CASE \/ thr[t].op = "SETTYPE" /\ SetType(t)
               \/ thr[t].op = "SETDESC" /\ SetDesc(t)
               \/ thr[t].op = "FALLOC" /\ FifoAllocs(t)
               \/ thr[t].op = "FDESTROY" /\ FifoDestroys(t)
      BY <2>2, <3>3, FifosShape DEF FifoCalls, FifoAllocs, FifoDestroys
    <3>4. CASE \/ thr[t].op = "WRITE" /\ Writes(t)
               \/ thr[t].op = "QUEUE" /\ Triggers(t)
               \/ thr[t].op = "READ" /\ ReadsElem(t)
      <4>1. Elements(t)
        BY <3>4 DEF Elements, Writes, Triggers, ReadsElem
      <4>2. thr[t].op = "QUEUE" \/ ~Triggers(t)
        BY <3>4 DEF Triggers, Writes, ReadsElem, WriteEnter, WriteSend, WriteCount, ReadEnter,
           ReadWait, ReadCount,
           QueueEnter, QueueIn, QueueDrain, QueueTake, QueueOut, QueueSend, QueueCheck, At
      <4>3. QED
        BY <2>2, <4>1, <4>2, ElementsShape
    <3>5. QED
      BY <2>2, <3>1, <3>2, <3>3, <3>4 DEF OpsOf
  <2>3. QED
    BY <1>3, <2>1, <2>2, StepOps
<1>4. QED
  BY <1>1, <1>2, <1>3 DEF Next

-----------------------------------------------------------------------------
(* The type invariant.                                                       *)

\* Distinct numbers up to a bound.
LEMMA FewNumbers ==
  ASSUME NEW s, IsSeq(s), NEW n \in Nat, \A i \in 1 .. Len(s) : s[i] \in 1 .. n,
         \A i, j \in 1 .. Len(s) : s[i] = s[j] => i = j
  PROVE  Len(s) <= n
<1>1. Len(s) \in Nat
  BY SeqLen
<1>2. SUFFICES ASSUME Len(s) > n PROVE FALSE
  BY <1>1
<1>3. PICK g : g = [i \in 1 .. Len(s) |-> s[i]]
  OBVIOUS
<1>4. g \in [1 .. Len(s) -> 1 .. n] /\ \A i \in 1 .. Len(s) : g[i] = s[i]
  BY <1>3
<1>5. /\ IsFiniteSet(1 .. Len(s)) /\ IsFiniteSet(1 .. n)
      /\ Cardinality(1 .. n) < Cardinality(1 .. Len(s))
  <2>1. /\ IsFiniteSet(1 .. Len(s))
        /\ Cardinality(1 .. Len(s)) = IF 1 > Len(s) THEN 0 ELSE Len(s) - 1 + 1
    BY <1>1, FS_Interval
  <2>2. IsFiniteSet(1 .. n) /\ Cardinality(1 .. n) = IF 1 > n THEN 0 ELSE n - 1 + 1
    BY FS_Interval
  <2>3. QED
    BY <1>1, <1>2, <2>1, <2>2
<1>6. \E x, y \in 1 .. Len(s) : x # y /\ g[x] = g[y]
  BY <1>4, <1>5, FS_PigeonHole
<1>7. QED
  BY <1>4, <1>6

TypeInv == HoldInv /\ DataInv /\ ObjectShape /\ RespBound

LEMMA TypesHold == TypeInv => TypeOK
<1> SUFFICES ASSUME TypeInv PROVE TypeOK
  OBVIOUS
<1>1. HoldInv /\ DataInv /\ ObjectShape /\ RespBound /\ usage \in Usages
  BY DEF TypeInv, HoldInv, ThreadInv, ThrOK
<1>2. mutex \in [Mutexes -> Threads \cup {None}]
  BY <1>1 DEF HoldInv, Held
<1>3. /\ dev \in [st : {"created", "opened", "closed", "destroyed"}, listed : BOOLEAN,
                  monitor : BOOLEAN]
      /\ head \in [graphs : Graphs \cup {None}, fifos : Fifos \cup {None}]
      /\ next \in [Objs -> Objs \cup {None}]
      /\ graph \in [Graphs -> [st : {"created", "allocated", "running", "waiting", "freed"},
                               started : BOOLEAN]]
  BY <1>1 DEF ObjectShape, ListsShape, GraphShape, DeviceShape, GraphStates
<1>4. writes \in Nat /\ usage.writes \in Nat /\ writes <= usage.writes
  BY <1>1, WritesNat DEF DataInv
<1>5. ASSUME NEW f \in Fifos
      PROVE  /\ fifo[f].st \in {"created", "allocated", "freed"}
             /\ fifo[f].remaining \in 1 .. usage.consumers \/ mutex[f] # None
             /\ fifo[f].apiRead => fifo[f].remaining < usage.consumers
             /\ fifo[f].consumed <= fifo[f].writeCount
             /\ Len(fifo[f].in) <= usage.writes
             /\ Len(stick.out[f]) <= NumElements
             /\ fifo[f].type = "WO" => Len(stick.buf[f]) <= NumElements
  <2>1. CountsTyped(f) /\ ParamsTyped(f) /\ Stocked(f) /\ usage.consumers \in Nat
    BY <1>1 DEF DataInv, FifosTyped
  <2>2. Len(fifo[f].in) <= usage.writes
    <3>1. PICK p : p = fifo[f].in
      OBVIOUS
    <3>2. /\ IsSeq(p) /\ \A i \in 1 .. Len(p) : p[i] \in 1 .. writes
          /\ \A i, j \in 1 .. Len(p) : p[i] = p[j] => i = j
      BY <2>1, <3>1 DEF ParamsTyped
    <3>3. Len(p) <= writes /\ Len(p) \in Nat
      BY <1>4, <3>2, FewNumbers, SeqLen
    <3>4. QED
      BY <1>4, <3>1, <3>3
  <2>3. fifo[f].remaining \in 1 .. usage.consumers \/ mutex[f] # None
    BY <2>1 DEF CountsTyped
  <2>4. QED
    BY <2>1, <2>2, <2>3 DEF CountsTyped, Stocked
<1>6. ASSUME NEW t \in Threads
      PROVE  /\ thr[t].g \in Graphs \cup {None} /\ thr[t].f \in Fifos \cup {None}
             /\ thr[t].param \in Numbers
  <2>1. thr[t].param \in Numbers
    BY <1>1, <1>4 DEF DataInv, CallsTyped, Numbers
  <2>2. CASE thr[t].pc = "idle"
    BY <1>1, <2>1, <2>2 DEF HoldInv, ThreadInv, Calling, Idle
  <2>3. CASE thr[t].pc # "idle"
    BY <1>1, <2>1, <2>3, CallHas DEF HoldInv, ThreadInv
  <2>4. QED
    BY <2>2, <2>3
<1>7. Len(resp) <= MaxStale + Cardinality(Threads)
  <2>1. /\ Unsent \subseteq Threads /\ IsFiniteSet(Threads) /\ MaxStale \in Nat
    BY NcAssumption DEF Unsent
  <2>2. Cardinality(Unsent) \in Nat /\ Cardinality(Threads) \in Nat
    BY <2>1, FS_Subset, FS_CardinalityType
  <2>3. Len(resp) \in Nat /\ Len(resp) + Cardinality(Unsent) <= MaxStale + Cardinality(Threads)
    BY <1>1, SeqLen DEF RespBound
  <2>4. QED
    BY <2>1, <2>2, <2>3
<1>8. writes \in Numbers
  BY <1>4 DEF Numbers
<1>9. QED
  BY <1>1, <1>2, <1>3, <1>5, <1>6, <1>7, <1>8 DEF TypeOK

\* The type invariant, for every use of the API: the consumers that remain, the
\* parameters and the elements of a fifo, and the answers that nobody has read, stay
\* in their bounds (ncFifoWriteElem, ncGraphQueueInference, ncFifoReadElem).
THEOREM TypesAreOK == Spec => []TypeOK
<1>1. Init => TypeInv
  BY InitHold, InitTypes, InitShape, InitBound DEF TypeInv
<1>2. TypeInv /\ [Next]_vars => TypeInv'
  BY StepHold, StepTypes, StepShape, StepBound DEF TypeInv
<1>3. QED
  BY <1>1, <1>2, TypesHold, PTL DEF Spec

=============================================================================
