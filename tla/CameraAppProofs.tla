--------------------------- MODULE CameraAppProofs ---------------------------
(***************************************************************************)
(* Theorems about the application for any devices, any number of links and *)
(* any plugging, use and leaving: it opens one stick at a time, and every  *)
(* data link is released in order and once, although its release takes no  *)
(* lock.                                                                   *)
(***************************************************************************)
EXTENDS CameraApp, FiniteSetTheorems, TLAPS

-----------------------------------------------------------------------------
(* Types.                                                                    *)

\* Where the worker opens a link, and where a closer has one that it has not
\* deleted yet.
OpeningPcs == {"open", "add", "nativeAdd", "listAdd"}
ClosingPcs == {"remove", "nativeRemove", "removed", "disconnect", "release", "delete"}

TaskType ==
  [kind: {"TRYOPEN", "OPEN", "CLOSE"}, link: Links \cup {None}, links: SUBSET Links]
CloserType ==
  [pc: {"idle", "new", "next", "released"} \cup OpeningPcs \cup ClosingPcs,
   link: Links \cup {None}, rest: SUBSET (Devices \cup Links)]
LinkType ==
  [dev: Devices \cup {None}, native: {"none", "there", "deleted"}, connected: BOOLEAN]
Using == {"up", "reset", "write"}
UiType ==
  [pc: Using \cup {"close", "release", "null", "monitor", "quit", "gone"},
   link: Links \cup {None}, rest: SUBSET Links]
RunType == [pc: {"idle", "queued", "running", "using"}, link: Links \cup {None}]

TypeOK ==
  /\ usb \in [Devices -> {"out", "arrived", "in", "left"}] /\ plugs \in 0..MaxPlugs
  /\ asked \subseteq Devices /\ dialog \in BOOLEAN /\ opened \subseteq Devices
  /\ sync \in Closers \cup {None} /\ state \in {"NON", "TRYOPEN", "INITIALIZING"}
  /\ tasks \in Seq(TaskType) /\ closers \in [Closers -> CloserType]
  /\ ui \in UiType /\ finish \in BOOLEAN /\ run \in RunType
  /\ link \in [Links -> LinkType] /\ listed \subseteq Links /\ native \subseteq Links
  /\ api \in {"up", "destroyed", "null"}
  /\ handler \in BOOLEAN /\ monitor \in BOOLEAN /\ alive \in BOOLEAN

\* A place in the code that needs a link has one.
PlacesOK ==
  /\ \A i \in DOMAIN tasks : tasks[i].kind = "OPEN" => tasks[i].link \in Links
  /\ closers["worker"].pc \in OpeningPcs => closers["worker"].link \in Links
  /\ \A t \in Closers : closers[t].pc \in ClosingPcs => closers[t].link \in Links
  /\ closers["worker"].pc \in ClosingPcs \cup {"next", "released"} =>
       closers["worker"].rest \subseteq Links
  /\ closers["worker"].pc # "new"
  /\ closers["monitor"].pc \notin OpeningPcs \cup {"next"}
  /\ closers["monitor"].pc = "new" =>
       \E d \in Devices : closers["monitor"].rest = {d}
  /\ ui.pc = "write" => ui.link \in Links
  /\ run.pc = "using" => run.link \in Links

-----------------------------------------------------------------------------
(* The invariant of the openings.                                            *)

\* onDestroy has not yet run close(false).
Live == ui.pc \in Using \cup {"close"}

\* There is at most one opening, and none in CAMERA_NON.
OneOpen ==
  Live => /\ \A x, y \in Openings : x = y
          /\ state = "NON" => Openings = {}

-----------------------------------------------------------------------------
(* The invariant of the links.                                               *)

\* The tasks of a kind, the worker's places while it closes its list, and the
\* link that a thread is closing and has not deleted yet.
TasksOf(kind) == {i \in DOMAIN tasks : tasks[i].kind = kind}
ListPcs == ClosingPcs \cup {"next", "released"}
InHand(t) == {l \in {closers[t].link} : closers[t].pc \in ClosingPcs}

\* The links that the worker is to list, and those that it is to close.
ToList ==
  {tasks[i].link : i \in TasksOf("OPEN")}
    \cup {l \in {closers["worker"].link} : closers["worker"].pc \in OpeningPcs}
ToClose ==
  (UNION {tasks[i].links : i \in TasksOf("CLOSE")})
    \cup {l \in closers["worker"].rest : closers["worker"].pc \in ListPcs}

\* The steps of onDestroy.
ApiAt(pc) ==
  CASE pc = "null" -> "destroyed"
    [] pc \in {"monitor", "quit", "gone"} -> "null"
    [] OTHER -> "up"
Stages ==
  /\ api = ApiAt(ui.pc)
  /\ api # "up" => native = {}
  /\ Live => TasksOf("CLOSE") = {} /\ closers["worker"].pc \notin ListPcs

\* One task that closes at most, which no TRYOPEN precedes; before onDestroy no
\* TRYOPEN follows the opening of a link or the link itself.
Queue ==
  /\ \A i, j \in TasksOf("CLOSE") : i = j
  /\ TasksOf("CLOSE") # {} => closers["worker"].pc \notin ListPcs
  /\ \A i \in TasksOf("TRYOPEN"), j \in TasksOf("CLOSE") : j < i
  /\ Live => \A i \in TasksOf("TRYOPEN") :
       /\ \A j \in TasksOf("OPEN") : i < j
       /\ closers["worker"].pc \notin OpeningPcs
       /\ listed = {}

\* mSync is held from the choice of a link to the end of its removal by the
\* worker, and to the end of its closing by onDisconnect.
SyncHeld ==
  /\ closers["monitor"].pc \in ClosingPcs \cup {"released"} => sync = "monitor"
  /\ closers["worker"].pc \in {"remove", "nativeRemove", "removed"} => sync = "worker"

\* A link in somebody's hands has its native object, and only one has it.
Owned ==
  \A l \in ToList \cup ToClose \cup InHand("worker") \cup InHand("monitor") :
    link[l].native = "there"
OneTask ==
  /\ \A i, j \in TasksOf("OPEN") : tasks[i].link = tasks[j].link => i = j
  /\ closers["worker"].pc \in OpeningPcs =>
       \A i \in TasksOf("OPEN") : tasks[i].link # closers["worker"].link
OneHand ==
  /\ ToList \cap (listed \cup ToClose \cup InHand("worker") \cup InHand("monitor")) = {}
  /\ ToClose \cap (InHand("worker") \cup InHand("monitor")) = {}
  /\ InHand("worker") \cap InHand("monitor") = {}

\* What is listed was created, is there until the API is gone, and is not in the
\* worker's hands as long as onDisconnect may take it.
Listed ==
  /\ \A l \in listed : link[l].native # "none"
  /\ api # "null" => \A l \in listed : link[l].native = "there"
  /\ api # "null" /\ state # "NON" => listed \cap (ToClose \cup InHand("worker")) = {}
  /\ \A t \in Closers :
       closers[t].pc \in {"nativeRemove", "removed", "disconnect", "release", "delete"} =>
         api = "null" \/ closers[t].link \notin listed

\* What the native API lists is there, and is not past MvNcApi::remove.
NativeListed ==
  /\ \A l \in native : link[l].native = "there"
  /\ \A t \in Closers : closers[t].pc \in {"removed", "disconnect", "release", "delete"} =>
       closers[t].link \notin native

LinkInv == Stages /\ Queue /\ SyncHeld /\ Owned /\ OneTask /\ OneHand /\ Listed /\ NativeListed

IInv == TypeOK /\ PlacesOK /\ OneOpen /\ LinkInv

-----------------------------------------------------------------------------
(* Proof of the types.                                                       *)

LEMMA QueueEventType ==
  ASSUME TypeOK, NEW task \in TaskType, QueueEvent(task)
  PROVE  tasks' \in Seq(TaskType)
  BY DEF TypeOK, QueueEvent

LEMMA TaskTypes ==
  /\ Task("TRYOPEN", None, {}) \in TaskType
  /\ \A l \in Links : Task("OPEN", l, {}) \in TaskType
  /\ \A ls \in SUBSET Links : Task("CLOSE", None, ls) \in TaskType
  BY DEF Task, TaskType

LEMMA TakeType ==
  ASSUME TypeOK, NEW kind, Take(kind)
  PROVE  Head(tasks) \in TaskType /\ tasks' \in Seq(TaskType)
  BY DEF TypeOK, Take

LEMMA GotoType ==
  ASSUME TypeOK, NEW t \in Closers,
         NEW pc \in {"idle", "new", "next", "released"} \cup OpeningPcs \cup ClosingPcs,
         Goto(t, pc)
  PROVE  closers' \in [Closers -> CloserType]
  BY DEF TypeOK, Goto, CloserType

LEMMA RestType == Rest \in CloserType
  BY DEF Rest, CloserType

LEMMA InitType == Init => TypeOK
<1> SUFFICES ASSUME Init PROVE TypeOK
  OBVIOUS
<1>1. ui \in UiType /\ closers \in [Closers -> CloserType]
  BY RestType DEF Init, Rest, UiType, Using
<1>2. link \in [Links -> LinkType]
  BY DEF Init, LinkType
<1>3. plugs \in 0..MaxPlugs
  BY CameraAssumption DEF Init
<1>4. tasks \in Seq(TaskType)
  BY DEF Init
<1>5. QED
  BY <1>1, <1>2, <1>3, <1>4 DEF Init, TypeOK, RunType

LEMMA UsbType == ASSUME TypeOK, Usb PROVE TypeOK'
<1> USE DEF appVars, linkVars, TypeOK
<1>1. CASE Choose
  <2>1. asked' \subseteq Devices
    BY <1>1 DEF Choose, Present
  <2>2. QED
    BY <1>1, <2>1 DEF Choose
<1>2. ASSUME NEW d \in Devices, Plug(d) PROVE TypeOK'
  <2>1. plugs' \in 0..MaxPlugs
    BY <1>2, CameraAssumption DEF Plug
  <2>2. QED
    BY <1>2, <2>1 DEF Plug
<1>3. ASSUME NEW d \in Devices, Unplug(d) \/ Forget(d) PROVE TypeOK'
  BY <1>3 DEF Unplug, Forget
<1>4. QED
  BY <1>1, <1>2, <1>3 DEF Usb

LEMMA ListenerType == ASSUME TypeOK, PlacesOK, Listener PROVE TypeOK'
<1> USE DEF appVars, linkVars, usbVars
<1>1. ASSUME NEW d \in Devices, OnAttach(d) PROVE TypeOK'
  <2>1. tasks' \in Seq(TaskType)
    BY <1>1, TaskTypes, QueueEventType DEF OnAttach, TypeOK
  <2>2. QED
    BY <1>1, <2>1 DEF OnAttach, TypeOK
<1>2. ASSUME NEW d \in Devices, OnConnect(d) PROVE TypeOK'
  <2>1. closers' \in [Closers -> CloserType]
    <3>1. [Rest EXCEPT !.pc = "new", !.rest = {d}] \in CloserType
      BY DEF Rest, CloserType
    <3>2. QED
      BY <1>2, <3>1 DEF OnConnect, TypeOK
  <2>2. QED
    BY <1>2, <2>1 DEF OnConnect, TypeOK
<1>3. ASSUME NEW d \in Devices, OnDisconnect(d) PROVE TypeOK'
  <2>1. closers' \in [Closers -> CloserType]
    <3>1. \A l \in listed : [Rest EXCEPT !.pc = "remove", !.link = l] \in CloserType
      BY DEF Rest, CloserType, ClosingPcs, TypeOK
    <3>2. QED
      BY <1>3, <3>1 DEF OnDisconnect, DisconnectHeld, TypeOK
  <2>2. QED
    BY <1>3, <2>1 DEF OnDisconnect, DisconnectHeld, Crash, TypeOK, Closers
<1>4. ASSUME NEW d \in Devices, OnDettach(d) \/ OnCancel(d) PROVE TypeOK'
  BY <1>4 DEF OnDettach, OnCancel, TypeOK
<1>5. ASSUME NEW l \in Links, OnConnectQueue(l) PROVE TypeOK'
  <2>1. tasks' \in Seq(TaskType)
    BY <1>5, TaskTypes, QueueEventType DEF OnConnectQueue
  <2>2. link' \in [Links -> LinkType]
    BY <1>5 DEF OnConnectQueue, TypeOK, LinkType, PlacesOK
  <2>3. QED
    BY <1>5, <2>1, <2>2, RestType DEF OnConnectQueue, TypeOK
<1>6. CASE OnConnectFailed
  BY <1>6, RestType DEF OnConnectFailed, TypeOK
<1>7. QED
  BY <1>1, <1>2, <1>3, <1>4, <1>5, <1>6 DEF Listener

LEMMA ConnectedType ==
  ASSUME TypeOK, NEW l \in Links, NEW b \in BOOLEAN
  PROVE  [link EXCEPT ![l].connected = b] \in [Links -> LinkType]
  BY DEF TypeOK, LinkType

LEMMA WorkerType == ASSUME TypeOK, PlacesOK, Worker PROVE TypeOK'
<1> USE DEF appVars, linkVars, usbVars
<1>1. CASE HandleTryOpen
  <2>1. asked' \subseteq Devices /\ dialog' \in BOOLEAN /\ state' \in {"NON", "TRYOPEN", "INITIALIZING"}
    BY <1>1 DEF HandleTryOpen, Ask, Present, TypeOK
  <2>2. tasks' \in Seq(TaskType)
    BY <1>1, TakeType DEF HandleTryOpen
  <2>3. QED
    BY <1>1, <2>1, <2>2 DEF HandleTryOpen, Crash, TypeOK
<1>2. CASE TakeOpen \/ TakeClose
  <2>1. tasks' \in Seq(TaskType) /\ Head(tasks) \in TaskType
    BY <1>2, TakeType DEF TakeOpen, TakeClose
  <2>2. /\ [Rest EXCEPT !.pc = "open", !.link = Head(tasks).link] \in CloserType
        /\ [Rest EXCEPT !.pc = "next", !.rest = Head(tasks).links] \in CloserType
    BY <2>1 DEF Rest, CloserType, TaskType, OpeningPcs
  <2>3. QED
    BY <1>2, <2>1, <2>2 DEF TakeOpen, TakeClose, TypeOK
<1>3. CASE Open
  <2>1. link' \in [Links -> LinkType]
    <3> DEFINE l == closers["worker"].link
               b == link[l].dev \in Booted
    <3>1. l \in Links /\ b \in BOOLEAN
      BY <1>3 DEF Open, PlacesOK, OpeningPcs
    <3>2. link' = [link EXCEPT ![l].connected = b] \/ link' = link
      BY <1>3 DEF Open
    <3> HIDE DEF l, b
    <3>3. QED
      BY <3>1, <3>2, ConnectedType DEF TypeOK
  <2>2. closers' \in [Closers -> CloserType]
    BY <1>3, GotoType DEF Open, OpeningPcs, Closers
  <2>3. QED
    BY <1>3, <2>1, <2>2 DEF Open, TypeOK
<1>4. CASE Add
  <2>1. closers' \in [Closers -> CloserType]
    BY <1>4, GotoType DEF Add, OpeningPcs, Closers
  <2>2. QED
    BY <1>4, <2>1 DEF Add, TypeOK
<1>5. CASE NativeAdd
  <2>1. closers' \in [Closers -> CloserType]
    BY <1>5, GotoType DEF NativeAdd, OpeningPcs, Closers, TypeOK
  <2>2. native' \subseteq Links
    BY <1>5 DEF NativeAdd, TypeOK, PlacesOK, OpeningPcs
  <2>3. QED
    BY <1>5, <2>1, <2>2 DEF NativeAdd, Crash, TypeOK
<1>6. CASE ListAdd
  <2>1. listed' \subseteq Links
    BY <1>6 DEF ListAdd, TypeOK, PlacesOK, OpeningPcs
  <2>2. QED
    BY <1>6, <2>1, RestType DEF ListAdd, TypeOK
<1>7. CASE CloseNext
  <2>1. closers' \in [Closers -> CloserType]
    <3>1. CASE closers["worker"].rest = {}
      BY <1>7, <3>1, RestType DEF CloseNext, TypeOK
    <3>2. CASE closers["worker"].rest # {}
      <4>1. closers["worker"].rest \subseteq Links /\ closers["worker"] \in CloserType
        BY <1>7 DEF CloseNext, PlacesOK, TypeOK, Closers
      <4>2. PICK l \in closers["worker"].rest, pc \in {"disconnect", "remove"} :
              closers' = [closers EXCEPT !["worker"].link = l, !["worker"].rest = @ \ {l},
                            !["worker"].pc = pc]
        BY <1>7, <3>2 DEF CloseNext
      <4>3. [closers["worker"] EXCEPT !.link = l, !.rest = @ \ {l}, !.pc = pc] \in CloserType
        BY <4>1 DEF CloserType, ClosingPcs
      <4>4. QED
        BY <4>1, <4>2, <4>3 DEF TypeOK, Closers, CloserType, ClosingPcs
    <3>3. QED
      BY <3>1, <3>2
  <2>2. QED
    BY <1>7, <2>1 DEF CloseNext, TypeOK, Closers
<1>8. CASE ReleasedWorker
  <2>1. closers' \in [Closers -> CloserType]
    BY <1>8, GotoType DEF ReleasedWorker, Closers
  <2>2. QED
    BY <1>8, <2>1 DEF ReleasedWorker, TypeOK
<1>9. QED
  BY <1>1, <1>2, <1>3, <1>4, <1>5, <1>6, <1>7, <1>8 DEF Worker

LEMMA ClosingType == ASSUME TypeOK, PlacesOK, Closing PROVE TypeOK'
<1> USE DEF appVars, linkVars, usbVars
<1>1. ASSUME NEW t \in Closers, Remove(t) PROVE TypeOK'
  <2>1. closers' \in [Closers -> CloserType]
    BY <1>1, GotoType DEF Remove, ClosingPcs, TypeOK
  <2>2. QED
    BY <1>1, <2>1 DEF Remove, Crash, TypeOK
<1>2. ASSUME NEW t \in Closers, NativeRemove(t) PROVE TypeOK'
  <2>1. closers' \in [Closers -> CloserType]
    BY <1>2, GotoType DEF NativeRemove, ClosingPcs, TypeOK
  <2>2. QED
    BY <1>2, <2>1 DEF NativeRemove, Crash, TypeOK
<1>3. ASSUME NEW t \in Closers, Removed(t) PROVE TypeOK'
  <2>1. closers' \in [Closers -> CloserType]
    BY <1>3, GotoType DEF Removed, ClosingPcs
  <2>2. QED
    BY <1>3, <2>1 DEF Removed, TypeOK
<1>4. ASSUME NEW t \in Closers, Disconnect(t) \/ Release(t) \/ Delete(t) PROVE TypeOK'
  <2>1. closers' \in [Closers -> CloserType]
    BY <1>4, GotoType DEF Disconnect, Release, Delete, ClosingPcs, TypeOK
  <2>2. link' \in [Links -> LinkType]
    <3>1. CASE Disconnect(t)
      <4>1. closers[t].link \in Links /\ FALSE \in BOOLEAN
        BY <3>1 DEF Disconnect, PlacesOK, ClosingPcs
      <4>2. link' = [link EXCEPT ![closers[t].link].connected = FALSE]
        BY <3>1 DEF Disconnect
      <4>3. QED
        BY <4>1, <4>2, ConnectedType
    <3>2. CASE Delete(t)
      <4>1. link' = link \/ link' = [link EXCEPT ![closers[t].link].native = "deleted"]
        BY <3>2 DEF Delete
      <4>2. link \in [Links -> LinkType]
        BY DEF TypeOK
      <4>3. QED
        BY <4>1, <4>2 DEF LinkType
    <3>3. CASE Release(t)
      BY <3>3 DEF Release, TypeOK
    <3>4. QED
      BY <1>4, <3>1, <3>2, <3>3
  <2>3. QED
    BY <1>4, <2>1, <2>2 DEF Disconnect, Release, Delete, Crash, TypeOK
<1>5. CASE ReleasedMonitor
  BY <1>5, RestType, ZenonT(30) DEF ReleasedMonitor, Crash, TypeOK
<1>6. QED
  BY <1>1, <1>2, <1>3, <1>4, <1>5 DEF Closing

LEMMA UiThreadType == ASSUME TypeOK, UiThread PROVE TypeOK'
<1> USE DEF linkVars, usbVars
<1>1. CASE Compute
  BY <1>1 DEF Compute, TypeOK, RunType
<1>2. CASE Reset
  <2>1. ui' \in UiType
    BY <1>2 DEF Reset, TypeOK, UiType, Rest, Using
  <2>2. QED
    BY <1>2, <2>1 DEF Reset, TypeOK
<1>3. CASE ResetLink
  <2>1. ui' \in UiType
    <3>1. CASE ui.rest = {}
      BY <1>3, <3>1 DEF ResetLink, UiType, Rest, Using
    <3>2. CASE ui.rest # {}
      <4>1. ui' = ui \/ \E l \in ui.rest :
              ui' = [ui EXCEPT !.pc = "write", !.link = l, !.rest = @ \ {l}]
        BY <1>3, <3>2 DEF ResetLink
      <4>2. QED
        <5>1. ui \in UiType
          BY DEF TypeOK
        <5>2. \A l \in Links : [ui EXCEPT !.pc = "write", !.link = l, !.rest = @ \ {l}] \in UiType
          BY <5>1 DEF UiType, Using
        <5>3. ui.rest \subseteq Links
          BY <5>1 DEF UiType
        <5>4. QED
          BY <4>1, <5>1, <5>2, <5>3
    <3>3. QED
      BY <3>1, <3>2
  <2>2. QED
    BY <1>3, <2>1 DEF ResetLink, Crash, TypeOK
<1>4. CASE ResetWritten \/ Leave \/ FinishApp
  <2>1. ui' \in UiType
    BY <1>4 DEF ResetWritten, Leave, FinishApp, TypeOK, UiType, UiGoto, Using
  <2>2. QED
    BY <1>4, <2>1 DEF ResetWritten, Leave, FinishApp, Crash, TypeOK
<1>5. CASE DestroyClose
  <2>1. ui' \in UiType
    BY <1>5 DEF DestroyClose, TypeOK, UiType, UiGoto
  <2>2. tasks' \in Seq(TaskType)
    <3>1. Task("CLOSE", None, listed) \in TaskType
      BY TaskTypes DEF TypeOK
    <3>2. QED
      BY <1>5, <3>1, QueueEventType DEF DestroyClose, TypeOK
  <2>3. QED
    BY <1>5, <2>1, <2>2 DEF DestroyClose, TypeOK
<1>6. CASE DestroyRelease \/ DestroyNull \/ DestroyMonitor \/ DestroyHandler
  <2>1. ui' \in UiType
    BY <1>6 DEF DestroyRelease, DestroyNull, DestroyMonitor, DestroyHandler, TypeOK, UiType, UiGoto
  <2>2. QED
    <3>1. tasks' = tasks \/ tasks' = <<>>
      BY <1>6 DEF DestroyRelease, DestroyNull, DestroyMonitor, DestroyHandler
    <3>2. tasks \in Seq(TaskType) /\ <<>> \in Seq(TaskType)
      BY DEF TypeOK
    <3>3. QED
      BY <1>6, <2>1, <3>1, <3>2
      DEF DestroyRelease, DestroyNull, DestroyMonitor, DestroyHandler, TypeOK
<1>7. QED
  BY <1>1, <1>2, <1>3, <1>4, <1>5, <1>6 DEF UiThread

LEMMA ExecutorType == ASSUME TypeOK, Executor PROVE TypeOK'
<1>1. run' \in RunType
  BY DEF Executor, RunBegin, RunUse, RunUsed, RunEnd, TypeOK, RunType
<1>2. QED
  BY <1>1, ZenonT(30) DEF Executor, RunBegin, RunUse, RunUsed, RunEnd, Crash, TypeOK, linkVars, usbVars

LEMMA UnchangedType == TypeOK /\ UNCHANGED vars => TypeOK'
  BY DEF TypeOK, vars, usbVars, appVars, linkVars

-----------------------------------------------------------------------------
(* The queue of the tasks, as its indices see it.                            *)

\* A task that is posted comes last.
LEMMA QueueEventTasks ==
  ASSUME TypeOK, NEW task \in TaskType, QueueEvent(task)
  PROVE  /\ DOMAIN tasks \subseteq Nat
         /\ \A i \in DOMAIN tasks : i \in DOMAIN tasks' /\ tasks'[i] = tasks[i]
         /\ \A i \in DOMAIN tasks' : i \in DOMAIN tasks \/
              /\ handler /\ tasks'[i] = task
              /\ \A j \in DOMAIN tasks' : j # i => j \in DOMAIN tasks /\ j < i
<1>1. tasks \in Seq(TaskType) /\ DOMAIN tasks = 1..Len(tasks) /\ Len(tasks) \in Nat
  BY DEF TypeOK
<1>2. CASE handler
  <2>1. tasks' = Append(tasks, task)
    BY <1>2 DEF QueueEvent
  <2>2. /\ DOMAIN tasks' = 1..(Len(tasks) + 1)
        /\ tasks'[Len(tasks) + 1] = task
        /\ \A i \in 1..Len(tasks) : tasks'[i] = tasks[i]
    BY <1>1, <2>1
  <2>3. QED
    BY <1>1, <1>2, <2>2
<1>3. CASE ~handler
  BY <1>1, <1>3 DEF QueueEvent
<1>4. QED
  BY <1>2, <1>3

\* The tasks behind the one that is taken move up.
LEMMA TakeTasks ==
  ASSUME TypeOK, NEW kind, Take(kind)
  PROVE  /\ 1 \in DOMAIN tasks /\ tasks[1] = Head(tasks) /\ tasks[1].kind = kind
         /\ DOMAIN tasks \subseteq Nat /\ DOMAIN tasks' \subseteq Nat \ {0}
         /\ \A i \in DOMAIN tasks : 1 <= i
         /\ \A i \in DOMAIN tasks' :
              i + 1 \in DOMAIN tasks /\ tasks'[i] = tasks[i + 1]
<1>1. tasks \in Seq(TaskType) /\ tasks # <<>> /\ tasks' = Tail(tasks)
  BY DEF TypeOK, Take
<1>2. Len(tasks) \in Nat /\ Len(tasks) > 0 /\ DOMAIN tasks = 1..Len(tasks)
  BY <1>1
<1>3. DOMAIN tasks' = 1..(Len(tasks) - 1) /\ \A i \in 1..(Len(tasks) - 1) : tasks'[i] = tasks[i + 1]
  BY <1>1, <1>2
<1>4. tasks[1] = Head(tasks)
  BY <1>1
<1>5. QED
  BY <1>2, <1>3, <1>4 DEF Take

-----------------------------------------------------------------------------
(* Proof of the places.                                                      *)

LEMMA InitPlaces == Init => PlacesOK
  BY DEF Init, PlacesOK, Rest, Closers, OpeningPcs, ClosingPcs

\* The steps that leave what the places are about.
LEMMA SamePlaces ==
  ASSUME PlacesOK, UNCHANGED <<tasks, closers, ui, run>>
  PROVE  PlacesOK'
  BY DEF PlacesOK

\* The monitor thread moves.
LEMMA MonitorMoves ==
  ASSUME TypeOK, PlacesOK, NEW c \in CloserType, closers' = [closers EXCEPT !["monitor"] = c],
         c.pc \notin OpeningPcs \cup {"next"}, c.pc \in ClosingPcs => c.link \in Links,
         c.pc = "new" => \E d \in Devices : c.rest = {d},
         UNCHANGED <<tasks, ui, run>>
  PROVE  PlacesOK'
  BY DEF PlacesOK, TypeOK, Closers

LEMMA ListenerPlaces == ASSUME TypeOK, PlacesOK, Listener PROVE PlacesOK'
<1> USE DEF appVars, linkVars, usbVars
<1>1. ASSUME NEW d \in Devices, OnAttach(d) PROVE PlacesOK'
  <2>1. CASE tasks' = tasks
    BY <1>1, <2>1, SamePlaces DEF OnAttach
  <2>2. CASE QueueEvent(Task("TRYOPEN", None, {}))
    <3>1. \A i \in DOMAIN tasks' : tasks'[i].kind = "OPEN" => tasks'[i].link \in Links
      BY <2>2, TaskTypes, QueueEventTasks DEF Task, PlacesOK
    <3>2. QED
      BY <1>1, <3>1 DEF OnAttach, PlacesOK
  <2>3. QED
    BY <1>1, <2>1, <2>2 DEF OnAttach
<1>2. ASSUME NEW d \in Devices, OnConnect(d) PROVE PlacesOK'
  <2>1. closers' = closers \/
          closers' = [closers EXCEPT !["monitor"] = [Rest EXCEPT !.pc = "new", !.rest = {d}]]
    BY <1>2 DEF OnConnect
  <2>2. UNCHANGED <<tasks, ui, run>>
    BY <1>2 DEF OnConnect
  <2> DEFINE c == [Rest EXCEPT !.pc = "new", !.rest = {d}]
  <2>3. c \in CloserType /\ c.pc = "new" /\ c.rest = {d}
    BY DEF Rest, CloserType
  <2> HIDE DEF c
  <2>4. QED
    BY <2>1, <2>2, <2>3, SamePlaces, MonitorMoves DEF c, OpeningPcs, ClosingPcs
<1>3. ASSUME NEW d \in Devices, OnDisconnect(d) PROVE PlacesOK'
  <2>1. closers' = closers \/ \E l \in Links :
          closers' = [closers EXCEPT !["monitor"] = [Rest EXCEPT !.pc = "remove", !.link = l]]
    BY <1>3 DEF OnDisconnect, DisconnectHeld, TypeOK
  <2>2. UNCHANGED <<tasks, ui, run>>
    BY <1>3 DEF OnDisconnect, DisconnectHeld
  <2> DEFINE c(l) == [Rest EXCEPT !.pc = "remove", !.link = l]
  <2>3. \A l \in Links : c(l) \in CloserType /\ c(l).pc = "remove" /\ c(l).link = l
    BY DEF Rest, CloserType, ClosingPcs
  <2>4. CASE closers' = closers
    BY <2>2, <2>4, SamePlaces
  <2>5. ASSUME NEW l \in Links, closers' = [closers EXCEPT !["monitor"] = c(l)]
        PROVE  PlacesOK'
    <3>1. c(l) \in CloserType /\ c(l).pc = "remove" /\ c(l).link = l
      BY <2>3
    <3> HIDE DEF c
    <3>2. QED
      BY <2>2, <2>5, <3>1, MonitorMoves DEF OpeningPcs
  <2>6. QED
    BY <2>1, <2>4, <2>5
<1>4. ASSUME NEW d \in Devices, OnDettach(d) \/ OnCancel(d) PROVE PlacesOK'
  BY <1>4, SamePlaces DEF OnDettach, OnCancel
<1>5. ASSUME NEW l \in Links, OnConnectQueue(l) PROVE PlacesOK'
  <2>1. \A i \in DOMAIN tasks' : tasks'[i].kind = "OPEN" => tasks'[i].link \in Links
    BY <1>5, TaskTypes, QueueEventTasks DEF OnConnectQueue, Task, PlacesOK
  <2>2. QED
    BY <1>5, <2>1 DEF OnConnectQueue, PlacesOK, TypeOK, Closers, Rest, OpeningPcs, ClosingPcs
<1>6. CASE OnConnectFailed
  BY <1>6 DEF OnConnectFailed, PlacesOK, TypeOK, Closers, Rest, OpeningPcs, ClosingPcs
<1>7. QED
  BY <1>1, <1>2, <1>3, <1>4, <1>5, <1>6 DEF Listener

\* The worker moves, and the queue keeps its openings' links.
LEMMA WorkerMoves ==
  ASSUME TypeOK, PlacesOK, NEW c \in CloserType, closers' = [closers EXCEPT !["worker"] = c],
         c.pc # "new", c.pc \in OpeningPcs \cup ClosingPcs => c.link \in Links,
         c.pc \in ClosingPcs \cup {"next", "released"} => c.rest \subseteq Links,
         \A i \in DOMAIN tasks' : tasks'[i].kind = "OPEN" => tasks'[i].link \in Links,
         UNCHANGED <<ui, run>>
  PROVE  PlacesOK'
  BY DEF PlacesOK, TypeOK, Closers

\* Goto of the worker as a record.
LEMMA WorkerGoto ==
  ASSUME TypeOK, NEW pc \in {"idle", "new", "next", "released"} \cup OpeningPcs \cup ClosingPcs,
         Goto("worker", pc)
  PROVE  \E c \in CloserType :
           /\ closers' = [closers EXCEPT !["worker"] = c]
           /\ c.pc = pc /\ c.link = closers["worker"].link /\ c.rest = closers["worker"].rest
<1> DEFINE c == [closers["worker"] EXCEPT !.pc = pc]
<1>1. closers["worker"] \in CloserType
  BY DEF TypeOK, Closers
<1>2. c \in CloserType /\ c.pc = pc /\ c.link = closers["worker"].link /\ c.rest = closers["worker"].rest
  BY <1>1 DEF CloserType
<1>3. closers' = [closers EXCEPT !["worker"] = c]
  BY DEF Goto
<1>4. QED
  BY <1>2, <1>3

LEMMA WorkerPlaces == ASSUME TypeOK, PlacesOK, Worker PROVE PlacesOK'
<1> USE DEF appVars, linkVars, usbVars
<1>1. CASE HandleTryOpen
  <2>1. \A i \in DOMAIN tasks' : tasks'[i].kind = "OPEN" => tasks'[i].link \in Links
    BY <1>1, TakeTasks DEF HandleTryOpen, PlacesOK
  <2>2. QED
    BY <1>1, <2>1 DEF HandleTryOpen, PlacesOK
<1>2. CASE TakeOpen \/ TakeClose
  <2>1. \A i \in DOMAIN tasks' : tasks'[i].kind = "OPEN" => tasks'[i].link \in Links
    BY <1>2, TakeTasks DEF TakeOpen, TakeClose, PlacesOK
  <2>2. CASE TakeOpen
    <3>1. Head(tasks) \in TaskType /\ Head(tasks).link \in Links
      BY <2>2, TakeTasks, TakeType DEF TakeOpen, PlacesOK
    <3>2. [Rest EXCEPT !.pc = "open", !.link = Head(tasks).link] \in CloserType
      BY <3>1 DEF Rest, CloserType, OpeningPcs
    <3>3. QED
      BY <2>1, <2>2, <3>1, <3>2, WorkerMoves DEF TakeOpen, Rest, OpeningPcs, ClosingPcs
  <2>3. CASE TakeClose
    <3>1. Head(tasks) \in TaskType /\ Head(tasks).links \subseteq Links
      BY <2>3, TakeType DEF TakeClose, TaskType
    <3>2. [Rest EXCEPT !.pc = "next", !.rest = Head(tasks).links] \in CloserType
      BY <3>1 DEF Rest, CloserType
    <3>3. QED
      BY <2>1, <2>3, <3>1, <3>2, WorkerMoves DEF TakeClose, Rest, OpeningPcs, ClosingPcs
  <2>4. QED
    BY <1>2, <2>2, <2>3
<1>3. CASE Open \/ Add \/ NativeAdd
  <2>1. closers' = closers \/ \E pc \in {"idle", "add", "nativeAdd", "listAdd"} : Goto("worker", pc)
    BY <1>3 DEF Open, Add, NativeAdd
  <2>2. UNCHANGED <<tasks, ui, run>> /\ closers["worker"].link \in Links
    BY <1>3 DEF Open, Add, NativeAdd, PlacesOK, OpeningPcs
  <2>3. CASE closers' = closers
    BY <2>2, <2>3, SamePlaces
  <2>4. CASE \E pc \in {"idle", "add", "nativeAdd", "listAdd"} : Goto("worker", pc)
    <3>1. PICK pc \in {"idle", "add", "nativeAdd", "listAdd"} : Goto("worker", pc)
      BY <2>4
    <3>2. PICK c \in CloserType : /\ closers' = [closers EXCEPT !["worker"] = c]
                                  /\ c.pc = pc /\ c.link = closers["worker"].link
      BY <3>1, WorkerGoto DEF OpeningPcs
    <3>3. QED
      BY <2>2, <3>2, WorkerMoves DEF PlacesOK, ClosingPcs
  <2>5. QED
    BY <2>1, <2>3, <2>4
<1>4. CASE ListAdd
  BY <1>4, RestType, WorkerMoves DEF ListAdd, Rest, OpeningPcs, ClosingPcs, PlacesOK
<1>5. CASE CloseNext
  <2>1. CASE closers["worker"].rest = {}
    BY <1>5, <2>1, RestType, WorkerMoves DEF CloseNext, Rest, OpeningPcs, ClosingPcs, PlacesOK
  <2>2. CASE closers["worker"].rest # {}
    <3>1. closers["worker"].rest \subseteq Links /\ closers["worker"] \in CloserType
      BY <1>5 DEF CloseNext, PlacesOK, TypeOK, Closers
    <3>2. PICK l \in closers["worker"].rest, pc \in {"disconnect", "remove"} :
            closers' = [closers EXCEPT !["worker"].link = l, !["worker"].rest = @ \ {l},
                          !["worker"].pc = pc]
      BY <1>5, <2>2 DEF CloseNext
    <3> DEFINE c == [closers["worker"] EXCEPT !.link = l, !.rest = @ \ {l}, !.pc = pc]
    <3>3. c \in CloserType /\ c.pc = pc /\ c.link \in Links /\ c.rest \subseteq Links
      BY <3>1 DEF CloserType, ClosingPcs
    <3>4. closers' = [closers EXCEPT !["worker"] = c]
      BY <3>1, <3>2 DEF TypeOK, Closers, CloserType
    <3>5. UNCHANGED <<tasks, ui, run>>
      BY <1>5 DEF CloseNext
    <3> HIDE DEF c
    <3>6. QED
      BY <3>3, <3>4, <3>5, WorkerMoves DEF PlacesOK
  <2>3. QED
    BY <2>1, <2>2
<1>6. CASE ReleasedWorker
  <2>1. PICK c \in CloserType : /\ closers' = [closers EXCEPT !["worker"] = c]
                                /\ c.pc = "next" /\ c.rest = closers["worker"].rest
    BY <1>6, WorkerGoto DEF ReleasedWorker
  <2>2. c.rest \subseteq Links /\ UNCHANGED <<tasks, ui, run>>
    BY <1>6, <2>1 DEF ReleasedWorker, PlacesOK
  <2>3. QED
    BY <2>1, <2>2, WorkerMoves DEF PlacesOK, OpeningPcs, ClosingPcs
<1>7. QED
  BY <1>1, <1>2, <1>3, <1>4, <1>5, <1>6 DEF Worker

LEMMA ClosingPlaces == ASSUME TypeOK, PlacesOK, Closing PROVE PlacesOK'
<1> USE DEF appVars, linkVars, usbVars
<1>1. ASSUME NEW t \in Closers,
             Remove(t) \/ NativeRemove(t) \/ Removed(t) \/ Disconnect(t) \/ Release(t) \/ Delete(t)
      PROVE  PlacesOK'
  <2>1. /\ closers[t].pc \in ClosingPcs
        /\ \/ closers' = closers
           \/ \E pc \in {"nativeRemove", "removed", "disconnect", "release", "delete", "released"} :
                Goto(t, pc)
        /\ UNCHANGED <<tasks, ui, run>>
    BY <1>1 DEF Remove, NativeRemove, Removed, Disconnect, Release, Delete, ClosingPcs
  <2>2. QED
    BY <2>1 DEF Goto, PlacesOK, TypeOK, CloserType, Closers, OpeningPcs, ClosingPcs
<1>2. CASE ReleasedMonitor
  <2>1. closers' = closers \/ closers' = [closers EXCEPT !["monitor"] = Rest]
    BY <1>2 DEF ReleasedMonitor
  <2>2. UNCHANGED <<tasks, ui, run>>
    BY <1>2 DEF ReleasedMonitor
  <2>3. QED
    BY <2>1, <2>2 DEF PlacesOK, TypeOK, Closers, Rest, OpeningPcs, ClosingPcs
<1>3. QED
  BY <1>1, <1>2 DEF Closing

LEMMA UiThreadPlaces == ASSUME TypeOK, PlacesOK, UiThread PROVE PlacesOK'
<1> USE DEF linkVars, usbVars
<1>1. (\A i \in DOMAIN tasks' : tasks'[i].kind = "OPEN" => tasks'[i].link \in Links)
  <2>1. CASE DestroyClose
    <3>1. Task("CLOSE", None, listed) \in TaskType
      BY TaskTypes DEF TypeOK
    <3>2. tasks' = tasks \/ QueueEvent(Task("CLOSE", None, listed))
      BY <2>1 DEF DestroyClose
    <3>3. QED
      BY <3>1, <3>2, QueueEventTasks DEF Task, PlacesOK
  <2>2. CASE ~DestroyClose
    <3>1. tasks' = tasks \/ tasks' = <<>>
      BY <2>2 DEF UiThread, Compute, Reset, ResetLink, ResetWritten, FinishApp, Leave,
                  DestroyRelease, DestroyNull, DestroyMonitor, DestroyHandler
    <3>2. DOMAIN <<>> = {}
      OBVIOUS
    <3>3. QED
      BY <3>1, <3>2 DEF PlacesOK
  <2>3. QED
    BY <2>1, <2>2
<1>2. closers' = closers
  BY DEF UiThread, Compute, Reset, ResetLink, ResetWritten, FinishApp, Leave, DestroyClose,
         DestroyRelease, DestroyNull, DestroyMonitor, DestroyHandler
<1>3. run'.pc = "using" => run' = run
  BY DEF UiThread, Compute, Reset, ResetLink, ResetWritten, FinishApp, Leave, DestroyClose,
         DestroyRelease, DestroyNull, DestroyMonitor, DestroyHandler, TypeOK, RunType
<1>4. ui'.pc = "write" => ui'.link \in Links
  <2>1. ui \in UiType
    BY DEF TypeOK
  <2>2. CASE ResetLink
    BY <2>1, <2>2 DEF ResetLink, PlacesOK, Rest, UiType
  <2>3. CASE ~ResetLink
    BY <2>1, <2>3 DEF UiThread, Compute, Reset, ResetWritten, FinishApp, Leave, DestroyClose,
         DestroyRelease, DestroyNull, DestroyMonitor, DestroyHandler, UiGoto, UiType, PlacesOK, Rest
  <2>4. QED
    BY <2>2, <2>3
<1>5. QED
  BY <1>1, <1>2, <1>3, <1>4 DEF PlacesOK

LEMMA ExecutorPlaces == ASSUME TypeOK, PlacesOK, Executor PROVE PlacesOK'
<1>1. run'.pc = "using" => run'.link \in Links
  BY DEF Executor, RunBegin, RunUse, RunUsed, RunEnd, TypeOK, RunType, PlacesOK
<1>2. QED
  BY <1>1 DEF Executor, RunBegin, RunUse, RunUsed, RunEnd, PlacesOK, linkVars, usbVars

LEMMA UsbPlaces == ASSUME PlacesOK, Usb PROVE PlacesOK'
  BY SamePlaces DEF Usb, Choose, Plug, Unplug, Forget, appVars

LEMMA StepType ==
  TypeOK /\ PlacesOK /\ [Next]_vars => (TypeOK /\ PlacesOK)'
<1>1. TypeOK /\ PlacesOK /\ Next => TypeOK'
  BY UsbType, ListenerType, WorkerType, ClosingType, UiThreadType, ExecutorType DEF Next
<1>2. TypeOK /\ PlacesOK /\ Next => PlacesOK'
  BY UsbPlaces, ListenerPlaces, WorkerPlaces, ClosingPlaces, UiThreadPlaces, ExecutorPlaces
  DEF Next
<1>3. PlacesOK /\ UNCHANGED vars => PlacesOK'
  BY SamePlaces DEF vars, appVars
<1>4. QED
  BY <1>1, <1>2, <1>3, UnchangedType

\* The types hold in every reachable state, and a thread that is at a place of
\* the code that needs a data link has one.
THEOREM TypeCorrect == Spec => [](TypeOK /\ PlacesOK)
<1>1. Init => TypeOK /\ PlacesOK
  BY InitType, InitPlaces
<1>2. TypeOK /\ PlacesOK /\ [Next]_vars => (TypeOK /\ PlacesOK)'
  BY StepType
<1>3. QED
  BY <1>1, <1>2, PTL DEF Spec

-----------------------------------------------------------------------------
(* Proof of the one opening.                                                 *)

\* The devices that onConnect constructs a link for, and the links that are
\* being opened or listed.
NewDevices == IF closers["monitor"].pc = "new" THEN closers["monitor"].rest ELSE {}
OpenLinks ==
  {tasks[i].link : i \in {j \in DOMAIN tasks : tasks[j].kind = "OPEN"}}
    \cup {l \in {closers["worker"].link} : closers["worker"].pc \in OpeningPcs}
    \cup listed \cup native

LEMMA OpeningsAre ==
  Openings = {<<"asked", d>> : d \in asked} \cup {x \in {<<"dialog", None>>} : dialog}
               \cup {<<"new", d>> : d \in NewDevices} \cup {<<"link", l>> : l \in OpenLinks}
<1>1. {<<"dialog", None>> : x \in {y \in {1} : dialog}} = {x \in {<<"dialog", None>>} : dialog}
  OBVIOUS
<1>2. {<<"link", l>> : l \in OpenLinks} =
        {<<"link", tasks[i].link>> : i \in {j \in DOMAIN tasks : tasks[j].kind = "OPEN"}}
        \cup {<<"link", closers["worker"].link>> :
            x \in {y \in {1} : closers["worker"].pc \in {"open", "add", "nativeAdd", "listAdd"}}}
        \cup {<<"link", l>> : l \in listed \cup native}
  BY DEF OpenLinks, OpeningPcs
<1>3. QED
  BY <1>1, <1>2 DEF Openings, NewDevices

LEMMA OpeningsAreNext ==
  (Openings = {<<"asked", d>> : d \in asked} \cup {x \in {<<"dialog", None>>} : dialog}
                \cup {<<"new", d>> : d \in NewDevices} \cup {<<"link", l>> : l \in OpenLinks})'
  BY OpeningsAre, PTL

\* Nothing is being opened.
LEMMA NoOpening ==
  Openings = {} <=> asked = {} /\ ~dialog /\ NewDevices = {} /\ OpenLinks = {}
  BY OpeningsAre

\* The only opening is a request.
LEMMA OnlyAsked ==
  ASSUME NEW d, \A x \in Openings : x = <<"asked", d>>
  PROVE  asked \subseteq {d} /\ ~dialog /\ NewDevices = {} /\ OpenLinks = {}
<1>1. \A e \in asked : <<"asked", e>> \in Openings
  BY OpeningsAre
<1>2. dialog => <<"dialog", None>> \in Openings
  BY OpeningsAre
<1>3. \A e \in NewDevices : <<"new", e>> \in Openings
  BY OpeningsAre
<1>4. \A l \in OpenLinks : <<"link", l>> \in Openings
  BY OpeningsAre
<1>5. \A e : <<"asked", e>> = <<"asked", d>> => e = d
  OBVIOUS
<1>6. \A e : /\ <<"dialog", e>> # <<"asked", d>> /\ <<"new", e>> # <<"asked", d>>
             /\ <<"link", e>> # <<"asked", d>>
  OBVIOUS
<1>7. QED
  BY <1>1, <1>2, <1>3, <1>4, <1>5, <1>6

\* A step that adds nothing that could become a link keeps the invariant, if the
\* camera state only leaves CAMERA_NON.
LEMMA OpeningsShrink ==
  ASSUME OneOpen, Live' => Live, state' = "NON" => state = "NON",
         asked' \subseteq asked, dialog' => dialog,
         NewDevices' \subseteq NewDevices, OpenLinks' \subseteq OpenLinks
  PROVE  OneOpen'
<1>1. Openings' \subseteq Openings
  BY OpeningsAre, OpeningsAreNext
<1>2. QED
  BY <1>1 DEF OneOpen

LEMMA NewDevicesSame ==
  closers'["monitor"] = closers["monitor"] => NewDevices' = NewDevices
  BY DEF NewDevices

LEMMA OpenLinksSame ==
  UNCHANGED <<tasks, closers, listed, native>> => OpenLinks' = OpenLinks
  BY DEF OpenLinks

\* A task that does not open and a task that is taken add no link.
LEMMA OpenLinksTasks ==
  ASSUME TypeOK, UNCHANGED <<listed, native>>, closers'["worker"] = closers["worker"],
         \/ tasks' = tasks
         \/ tasks' = <<>>
         \/ \E task \in TaskType : task.kind # "OPEN" /\ QueueEvent(task)
         \/ \E kind : Take(kind)
  PROVE  OpenLinks' \subseteq OpenLinks
<1>1. \A i \in DOMAIN tasks' : tasks'[i].kind = "OPEN" =>
        \E j \in DOMAIN tasks : tasks[j].kind = "OPEN" /\ tasks[j].link = tasks'[i].link
  <2>1. CASE tasks' = tasks
    BY <2>1
  <2>2. CASE tasks' = <<>>
    BY <2>2
  <2>3. ASSUME NEW task \in TaskType, task.kind # "OPEN", QueueEvent(task)
        PROVE  \A i \in DOMAIN tasks' : tasks'[i].kind = "OPEN" =>
                 \E j \in DOMAIN tasks : tasks[j].kind = "OPEN" /\ tasks[j].link = tasks'[i].link
    BY <2>3, QueueEventTasks
  <2>4. ASSUME NEW kind, Take(kind)
        PROVE  \A i \in DOMAIN tasks' : tasks'[i].kind = "OPEN" =>
                 \E j \in DOMAIN tasks : tasks[j].kind = "OPEN" /\ tasks[j].link = tasks'[i].link
    BY <2>4, TakeTasks
  <2>5. QED
    BY <2>1, <2>2, <2>3, <2>4
<1>2. QED
  BY <1>1 DEF OpenLinks

LEMMA InitOneOpen == Init => OneOpen
<1> SUFFICES ASSUME Init PROVE Openings = {}
  BY DEF OneOpen
<1>1. NewDevices = {} /\ OpenLinks = {}
  BY DEF Init, NewDevices, OpenLinks, Rest, Closers, OpeningPcs
<1>2. QED
  BY <1>1, NoOpening DEF Init

LEMMA UsbOneOpen == ASSUME OneOpen, Usb PROVE OneOpen'
<1> USE DEF appVars, linkVars
<1>1. UNCHANGED <<state, tasks, closers, ui, listed, native>>
  BY DEF Usb, Choose, Plug, Unplug, Forget
<1>2. NewDevices' = NewDevices /\ OpenLinks' = OpenLinks
  BY <1>1, NewDevicesSame, OpenLinksSame
<1>3. CASE Choose
  <2>1. CASE asked' = asked
    BY <1>1, <1>2, <1>3, <2>1, OpeningsShrink DEF Choose, Live
  <2>2. CASE Live' /\ asked' # asked
    <3>1. dialog /\ ~dialog' /\ (\E d \in Present : asked' = asked \cup {d})
      BY <1>3, <2>2 DEF Choose
    <3>2. state # "NON" /\ \A x \in Openings : x = <<"dialog", None>>
      BY <1>1, <2>2, <3>1, OpeningsAre DEF OneOpen, Live
    <3>3. asked = {} /\ NewDevices = {} /\ OpenLinks = {}
      BY <3>2, OpeningsAre
    <3>4. \E d \in Present : Openings' = {<<"asked", d>>}
      BY <1>2, <3>1, <3>3, OpeningsAreNext
    <3>5. QED
      BY <1>1, <3>2, <3>4 DEF OneOpen
  <2>3. QED
    BY <2>1, <2>2 DEF OneOpen
<1>4. CASE ~Choose
  BY <1>1, <1>2, <1>4, OpeningsShrink DEF Usb, Plug, Unplug, Forget, Live
<1>5. QED
  BY <1>3, <1>4

LEMMA ListenerOneOpen == ASSUME TypeOK, PlacesOK, OneOpen, Listener PROVE OneOpen'
<1> USE DEF appVars, linkVars, usbVars
<1>1. UNCHANGED <<ui, listed, native>> /\ (Live' <=> Live)
  BY DEF Listener, OnAttach, OnConnect, OnDisconnect, DisconnectHeld, OnDettach, OnCancel,
         OnConnectQueue, OnConnectFailed, Live
<1>2. ASSUME NEW d \in Devices, OnAttach(d) PROVE OneOpen'
  <2>1. OpenLinks' \subseteq OpenLinks
    <3>1. Task("TRYOPEN", None, {}) \in TaskType /\ Task("TRYOPEN", None, {}).kind # "OPEN"
      BY TaskTypes DEF Task
    <3>2. tasks' = tasks \/ QueueEvent(Task("TRYOPEN", None, {}))
      BY <1>2 DEF OnAttach
    <3>3. QED
      BY <1>2, <3>1, <3>2, OpenLinksTasks DEF OnAttach
  <2>2. QED
    BY <1>1, <1>2, <2>1, NewDevicesSame, OpeningsShrink DEF OnAttach
<1>3. ASSUME NEW d \in Devices, OnConnect(d) PROVE OneOpen'
  <2>1. OpenLinks' \subseteq OpenLinks
    BY <1>1, <1>3 DEF OnConnect, OpenLinks, TypeOK, Closers
  <2>2. CASE state # "TRYOPEN"
    BY <1>1, <1>3, <2>1, <2>2, NewDevicesSame, OpeningsShrink DEF OnConnect
  <2>3. CASE state = "TRYOPEN" /\ Live
    <3>1. \A x \in Openings : x = <<"asked", d>>
      BY <1>3, <2>3, OpeningsAre DEF OnConnect, OneOpen
    <3>2. asked = {d} /\ ~dialog /\ OpenLinks = {}
      BY <1>3, <3>1, OnlyAsked DEF OnConnect
    <3>3. asked' = {} /\ ~dialog' /\ OpenLinks' = {}
      BY <1>3, <2>1, <3>2 DEF OnConnect
    <3>4. NewDevices' \subseteq {d}
      <4>1. closers'["monitor"] = [Rest EXCEPT !.pc = "new", !.rest = {d}]
        BY <1>3, <2>3 DEF OnConnect, TypeOK, Closers
      <4>2. closers'["monitor"].rest = {d}
        BY <4>1 DEF Rest
      <4>3. QED
        BY <4>2 DEF NewDevices
    <3>5. Openings' \subseteq {<<"new", d>>}
      BY <3>3, <3>4, OpeningsAreNext
    <3>6. state' # "NON"
      BY <1>3, <2>3 DEF OnConnect
    <3>7. QED
      BY <3>5, <3>6 DEF OneOpen
  <2>4. QED
    BY <1>1, <2>2, <2>3 DEF OneOpen
<1>4. ASSUME NEW d \in Devices, OnDisconnect(d) PROVE OneOpen'
  <2>1. closers'["worker"] = closers["worker"] /\ NewDevices' \subseteq NewDevices
    <3>1. closers' = closers \/ \E l \in listed :
            closers' = [closers EXCEPT !["monitor"] = [Rest EXCEPT !.pc = "remove", !.link = l]]
      BY <1>4 DEF OnDisconnect, DisconnectHeld
    <3>2. \A l : [Rest EXCEPT !.pc = "remove", !.link = l].pc # "new"
      BY DEF Rest
    <3>3. QED
      BY <3>1, <3>2, ZenonT(30) DEF TypeOK, Closers, NewDevices
  <2>2. UNCHANGED <<state, asked, dialog, tasks>>
    BY <1>4 DEF OnDisconnect, DisconnectHeld
  <2>3. OpenLinks' \subseteq OpenLinks
    BY <1>1, <2>1, <2>2 DEF OpenLinks
  <2>4. QED
    BY <1>1, <2>1, <2>2, <2>3, OpeningsShrink
<1>5. ASSUME NEW d \in Devices, OnDettach(d) PROVE OneOpen'
  BY <1>1, <1>5, NewDevicesSame, OpenLinksSame, OpeningsShrink DEF OnDettach
<1>6. ASSUME NEW d \in Devices, OnCancel(d) PROVE OneOpen'
  <2>1. NewDevices' = NewDevices /\ OpenLinks' = OpenLinks
    BY <1>1, <1>6, NewDevicesSame, OpenLinksSame DEF OnCancel
  <2>2. Live => \A x \in Openings : x = <<"asked", d>>
    BY <1>6, OpeningsAre DEF OnCancel, OneOpen
  <2>3. Live => asked = {d} /\ ~dialog /\ NewDevices = {} /\ OpenLinks = {}
    BY <1>6, <2>2, OnlyAsked DEF OnCancel
  <2>4. Live => Openings' = {}
    BY <1>6, <2>1, <2>3, OpeningsAreNext DEF OnCancel
  <2>5. QED
    BY <1>1, <2>4 DEF OneOpen
<1>7. ASSUME NEW l \in Links, OnConnectQueue(l) PROVE OneOpen'
  <2>1. PICK d \in Devices : closers["monitor"].rest = {d} /\ NewDevices = {d}
    BY <1>7 DEF OnConnectQueue, PlacesOK, NewDevices
  <2>2. NewDevices' = {} /\ closers'["worker"] = closers["worker"]
    BY <1>7 DEF OnConnectQueue, NewDevices, TypeOK, Closers, Rest
  <2>3. UNCHANGED <<asked, dialog, state>>
    BY <1>7 DEF OnConnectQueue
  <2>4. CASE Live
    <3>1. <<"new", d>> \in Openings
      BY <2>1, OpeningsAre
    <3>2. state # "NON" /\ \A x \in Openings : x = <<"new", d>>
      BY <2>4, <3>1 DEF OneOpen
    <3>3. asked = {} /\ ~dialog /\ OpenLinks = {}
      BY <3>2, OpeningsAre
    <3>4. OpenLinks' \subseteq {l}
      <4>1. \A i \in DOMAIN tasks' : tasks'[i].kind = "OPEN" =>
              (i \in DOMAIN tasks /\ tasks'[i] = tasks[i]) \/ tasks'[i].link = l
        BY <1>7, TaskTypes, QueueEventTasks DEF OnConnectQueue, Task
      <4>2. QED
        BY <1>1, <2>2, <3>3, <4>1 DEF OpenLinks
    <3>5. Openings' \subseteq {<<"link", l>>}
      BY <2>2, <2>3, <3>3, <3>4, OpeningsAreNext
    <3>6. QED
      BY <2>3, <3>2, <3>5 DEF OneOpen
  <2>5. QED
    BY <1>1, <2>4 DEF OneOpen
<1>8. CASE OnConnectFailed
  <2>1. PICK d \in Devices : closers["monitor"].rest = {d} /\ NewDevices = {d}
    BY <1>8 DEF OnConnectFailed, PlacesOK, NewDevices
  <2>2. NewDevices' = {} /\ closers'["worker"] = closers["worker"]
    BY <1>8 DEF OnConnectFailed, NewDevices, TypeOK, Closers, Rest
  <2>3. UNCHANGED <<asked, dialog, tasks>>
    BY <1>8 DEF OnConnectFailed
  <2>4. OpenLinks' = OpenLinks
    BY <1>1, <2>2, <2>3 DEF OpenLinks
  <2>5. Live => \A x \in Openings : x = <<"new", d>>
    BY <2>1, OpeningsAre DEF OneOpen
  <2>6. Live => asked = {} /\ ~dialog /\ OpenLinks = {}
    BY <2>5, OpeningsAre
  <2>7. Live => Openings' = {}
    BY <2>2, <2>3, <2>4, <2>6, OpeningsAreNext
  <2>8. QED
    BY <1>1, <2>7 DEF OneOpen
<1>9. QED
  BY <1>2, <1>3, <1>4, <1>5, <1>6, <1>7, <1>8 DEF Listener

LEMMA HandleTryOpenOneOpen ==
  ASSUME TypeOK, OneOpen, HandleTryOpen
  PROVE  OneOpen'
<1> USE DEF appVars, linkVars
<1>1. UNCHANGED <<closers, ui, listed, native>>
  BY DEF HandleTryOpen
<1>2. NewDevices' = NewDevices /\ OpenLinks' \subseteq OpenLinks
  BY <1>1, NewDevicesSame, OpenLinksTasks DEF HandleTryOpen
<1>3. CASE UNCHANGED <<state, asked, dialog>>
  BY <1>1, <1>2, <1>3, OpeningsShrink DEF Live
<1>4. CASE ~UNCHANGED <<state, asked, dialog>> /\ Live
  <2>1. state = "NON" /\ Ask
    BY <1>4 DEF HandleTryOpen
  <2>2. asked = {} /\ ~dialog /\ NewDevices = {} /\ OpenLinks = {}
    BY <1>4, <2>1, NoOpening DEF OneOpen
  <2>3. state' = "TRYOPEN"
    BY <1>4, <2>1 DEF Ask
  <2>4. \E x : Openings' \subseteq {x}
    <3>1. CASE Cardinality(Present) = 1
      <4>1. PICK d : Present = {d}
        <5>1. IsFiniteSet(Present)
          BY CameraAssumption, FS_Subset DEF Present
        <5>2. QED
          BY <3>1, <5>1, FS_Singleton
      <4>2. asked' \subseteq {d} /\ ~dialog'
        BY <2>1, <2>2, <3>1, <4>1 DEF Ask
      <4>3. Openings' \subseteq {<<"asked", d>>}
        BY <1>2, <2>2, <4>2, OpeningsAreNext
      <4>4. QED
        BY <4>3
    <3>2. CASE Cardinality(Present) # 1
      <4>1. asked' = {}
        BY <1>4, <2>1, <2>2, <3>2 DEF Ask
      <4>2. Openings' \subseteq {<<"dialog", None>>}
        BY <1>2, <2>2, <4>1, OpeningsAreNext
      <4>3. QED
        BY <4>2
    <3>3. QED
      BY <3>1, <3>2
  <2>5. QED
    BY <2>3, <2>4 DEF OneOpen
<1>5. QED
  BY <1>1, <1>3, <1>4 DEF OneOpen, Live

LEMMA WorkerOneOpen == ASSUME TypeOK, OneOpen, Worker PROVE OneOpen'
<1> USE DEF appVars, linkVars, usbVars
<1>1. CASE HandleTryOpen
  BY <1>1, HandleTryOpenOneOpen
<1>2. CASE ~HandleTryOpen
  <2>1. UNCHANGED <<state, asked, dialog, ui>> /\ closers'["monitor"] = closers["monitor"]
    BY <1>2 DEF Worker, TakeOpen, Open, Add, NativeAdd, ListAdd, TakeClose, CloseNext,
                ReleasedWorker, Goto, Crash, TypeOK, Closers
  <2>2. OpenLinks' \subseteq OpenLinks
    <3>1. CASE TakeOpen
      <4>1. 1 \in DOMAIN tasks /\ tasks[1].kind = "OPEN" /\ tasks[1].link = Head(tasks).link
        BY <3>1, TakeTasks DEF TakeOpen
      <4>2. \A l \in {closers'["worker"].link} : l = tasks[1].link
        <5>1. closers'["worker"] = [Rest EXCEPT !.pc = "open", !.link = Head(tasks).link]
          BY <3>1 DEF TakeOpen, TypeOK, Closers
        <5>2. QED
          BY <4>1, <5>1 DEF Rest
      <4>3. \A i \in DOMAIN tasks' : tasks'[i].kind = "OPEN" =>
              \E j \in DOMAIN tasks : tasks[j].kind = "OPEN" /\ tasks[j].link = tasks'[i].link
        BY <3>1, TakeTasks DEF TakeOpen
      <4>4. UNCHANGED <<listed, native>>
        BY <3>1 DEF TakeOpen
      <4>5. QED
        BY <4>1, <4>2, <4>3, <4>4 DEF OpenLinks
    <3>2. CASE Open \/ Add \/ ReleasedWorker
      <4>1. /\ closers["worker"].pc \in OpeningPcs \/ closers'["worker"].pc \notin OpeningPcs
            /\ closers'["worker"].link = closers["worker"].link
        <5>1. closers["worker"] \in CloserType /\ closers \in [Closers -> CloserType]
          BY DEF TypeOK, Closers
        <5>2. closers["worker"].pc \in {"open", "add", "released"}
          BY <3>2 DEF Open, Add, ReleasedWorker
        <5>3. \E pc : Goto("worker", pc) /\ (closers["worker"].pc = "released" => pc = "next")
          BY <3>2 DEF Open, Add, ReleasedWorker
        <5>4. QED
          BY <5>1, <5>2, <5>3 DEF Goto, Closers, CloserType, OpeningPcs
      <4>2. QED
        BY <3>2, <4>1 DEF Open, Add, ReleasedWorker, OpenLinks
    <3>3. CASE NativeAdd
      <4>1. closers["worker"].pc \in OpeningPcs /\ closers'["worker"].link = closers["worker"].link
        <5>1. closers["worker"] \in CloserType /\ closers \in [Closers -> CloserType]
          BY DEF TypeOK, Closers
        <5>2. closers' = closers \/ Goto("worker", "listAdd")
          BY <3>3 DEF NativeAdd
        <5>3. closers["worker"].pc = "nativeAdd"
          BY <3>3 DEF NativeAdd
        <5>4. QED
          BY <5>1, <5>2, <5>3 DEF Goto, Closers, CloserType, OpeningPcs
      <4>2. UNCHANGED <<tasks, listed>> /\ native' \subseteq native \cup {closers["worker"].link}
        BY <3>3 DEF NativeAdd
      <4>3. QED
        BY <4>1, <4>2 DEF OpenLinks
    <3>4. CASE ListAdd
      <4>1. closers["worker"].pc \in OpeningPcs /\ closers'["worker"].pc \notin OpeningPcs
        BY <3>4 DEF ListAdd, TypeOK, Closers, Rest, OpeningPcs
      <4>2. UNCHANGED <<tasks, native>> /\ listed' = listed \cup {closers["worker"].link}
        BY <3>4 DEF ListAdd
      <4>3. QED
        BY <4>1, <4>2 DEF OpenLinks
    <3>5. CASE TakeClose
      <4>1. closers'["worker"].pc \notin OpeningPcs
        BY <3>5 DEF TakeClose, TypeOK, Closers, Rest, OpeningPcs
      <4>2. \A i \in DOMAIN tasks' : tasks'[i].kind = "OPEN" =>
              \E j \in DOMAIN tasks : tasks[j].kind = "OPEN" /\ tasks[j].link = tasks'[i].link
        BY <3>5, TakeTasks DEF TakeClose
      <4>3. UNCHANGED <<listed, native>>
        BY <3>5 DEF TakeClose
      <4>4. QED
        BY <4>1, <4>2, <4>3 DEF OpenLinks
    <3>6. CASE CloseNext
      <4>1. closers'["worker"].pc \notin OpeningPcs
        <5>1. closers["worker"] \in CloserType /\ closers \in [Closers -> CloserType]
          BY DEF TypeOK, Closers
        <5>2. CASE closers["worker"].rest = {}
          <6>1. closers' = [closers EXCEPT !["worker"] = Rest]
            BY <3>6, <5>2 DEF CloseNext
          <6>2. QED
            BY <5>1, <6>1 DEF Closers, Rest, OpeningPcs
        <5>3. CASE closers["worker"].rest # {}
          <6>1. PICK l \in closers["worker"].rest, pc \in {"disconnect", "remove"} :
                  closers' = [closers EXCEPT !["worker"].link = l,
                                !["worker"].rest = @ \ {l}, !["worker"].pc = pc]
            BY <3>6, <5>3 DEF CloseNext
          <6>2. closers'["worker"].pc = pc
            BY <5>1, <6>1 DEF Closers, CloserType
          <6>3. QED
            BY <6>2 DEF OpeningPcs
        <5>4. QED
          BY <5>2, <5>3
      <4>2. UNCHANGED <<tasks, listed, native>>
        BY <3>6 DEF CloseNext
      <4>3. QED
        BY <4>1, <4>2 DEF OpenLinks
    <3>7. QED
      BY <1>2, <3>1, <3>2, <3>3, <3>4, <3>5, <3>6 DEF Worker
  <2>3. QED
    BY <2>1, <2>2, NewDevicesSame, OpeningsShrink DEF Live
<1>3. QED
  BY <1>1, <1>2

LEMMA ClosingOneOpen == ASSUME TypeOK, OneOpen, Closing PROVE OneOpen'
<1> USE DEF appVars, linkVars, usbVars
<1>1. UNCHANGED <<state, asked, dialog, tasks, ui>> /\ listed' \subseteq listed /\ native' \subseteq native
  BY DEF Closing, Remove, NativeRemove, Removed, Disconnect, Release, Delete, ReleasedMonitor
<1>2. \A t \in Closers : closers'[t] = closers[t] \/ closers'[t].pc \notin OpeningPcs \cup {"new"}
  BY DEF Closing, Remove, NativeRemove, Removed, Disconnect, Release, Delete, ReleasedMonitor,
         Goto, TypeOK, Closers, CloserType, Rest, OpeningPcs
<1>3. NewDevices' \subseteq NewDevices
  BY <1>2 DEF NewDevices, Closers
<1>4. OpenLinks' \subseteq OpenLinks
  BY <1>1, <1>2 DEF OpenLinks, Closers
<1>5. QED
  BY <1>1, <1>3, <1>4, OpeningsShrink DEF Live

LEMMA UiThreadOneOpen == ASSUME TypeOK, OneOpen, UiThread PROVE OneOpen'
<1> USE DEF linkVars, usbVars
<1>1. Live' => Live /\ UNCHANGED <<state, tasks, listed, native>>
  BY DEF UiThread, Compute, Reset, ResetLink, ResetWritten, FinishApp, Leave, DestroyClose,
         DestroyRelease, DestroyNull, DestroyMonitor, DestroyHandler, UiGoto, Live, Using,
         TypeOK, UiType
<1>2. UNCHANGED <<asked, dialog, closers>>
  BY DEF UiThread, Compute, Reset, ResetLink, ResetWritten, FinishApp, Leave, DestroyClose,
         DestroyRelease, DestroyNull, DestroyMonitor, DestroyHandler
<1>3. Live' => NewDevices' = NewDevices /\ OpenLinks' = OpenLinks
  BY <1>1, <1>2, NewDevicesSame, OpenLinksSame
<1>4. QED
  BY <1>1, <1>2, <1>3, OpeningsShrink DEF OneOpen

LEMMA ExecutorOneOpen ==
  ASSUME OneOpen, Executor \/ UNCHANGED vars
  PROVE  OneOpen'
<1>1. UNCHANGED <<asked, dialog, state, tasks, closers, ui, listed, native>>
  BY DEF Executor, RunBegin, RunUse, RunUsed, RunEnd, vars, usbVars, appVars, linkVars
<1>2. QED
  BY <1>1, NewDevicesSame, OpenLinksSame, OpeningsShrink DEF Live

LEMMA StepOneOpen ==
  TypeOK /\ PlacesOK /\ OneOpen /\ [Next]_vars => OneOpen'
  BY UsbOneOpen, ListenerOneOpen, WorkerOneOpen, ClosingOneOpen, UiThreadOneOpen,
     ExecutorOneOpen DEF Next

\* As long as the activity lives there is at most one stick on the way to an open
\* data link or open, whatever the order of attaching, permissions, the dialog's
\* answers and the queued tasks, and in CAMERA_NON there is none: the re-check of
\* handleTryOpen and the resets of onCancel and of the failed constructor are
\* enough (OneOpening).
THEOREM OpensOneStick == Spec => []OneOpening
<1>1. Init => OneOpen
  BY InitOneOpen
<1>2. TypeOK /\ PlacesOK /\ OneOpen /\ [Next]_vars => OneOpen'
  BY StepOneOpen
<1>3. OneOpen => OneOpening
  <2> SUFFICES ASSUME OneOpen, ui.pc \in Using
               PROVE  Cardinality(Openings) <= (IF state = "NON" THEN 0 ELSE 1)
    BY DEF OneOpening, Using
  <2>1. CASE Openings = {}
    BY <2>1, FS_EmptySet
  <2>2. CASE Openings # {}
    <3>1. PICK x : x \in Openings
      BY <2>2
    <3>2. Openings = {x} /\ state # "NON"
      BY <3>1 DEF OneOpen, Live
    <3>3. Cardinality(Openings) = 1
      BY <3>2, FS_Singleton
    <3>4. QED
      BY <3>2, <3>3
  <2>3. QED
    BY <2>1, <2>2
<1>4. QED
  BY <1>1, <1>2, <1>3, TypeCorrect, PTL DEF Spec

-----------------------------------------------------------------------------
(* Proof of the links: what a step does to the hands.                        *)

\* A closer is afterwards at pc with a link and the rest of its list.
Moves(t, pc, l, rest) ==
  /\ closers'[t].pc = pc /\ closers'[t].link = l /\ closers'[t].rest = rest
  /\ \A u \in Closers \ {t} : closers'[u] = closers[u]

LEMMA GotoMoves ==
  ASSUME TypeOK, NEW t \in Closers, NEW pc, Goto(t, pc)
  PROVE  Moves(t, pc, closers[t].link, closers[t].rest)
<1>1. closers \in [Closers -> CloserType] /\ closers[t] \in CloserType
  BY DEF TypeOK
<1>2. QED
  BY <1>1 DEF Goto, Moves, CloserType

LEMMA RestMoves ==
  ASSUME TypeOK, NEW t \in Closers, closers' = [closers EXCEPT ![t] = Rest]
  PROVE  Moves(t, "idle", None, {})
  BY DEF TypeOK, Rest, Moves

LEMMA CloseNextMoves ==
  ASSUME TypeOK, CloseNext
  PROVE  \/ Moves("worker", "idle", None, {}) /\ sync' = sync
         \/ \E l \in closers["worker"].rest :
              \/ /\ api = "null" /\ sync' = None
                 /\ Moves("worker", "disconnect", l, closers["worker"].rest \ {l})
              \/ /\ api # "null" /\ sync' = "worker"
                 /\ Moves("worker", "remove", l, closers["worker"].rest \ {l})
<1>1. closers["worker"] \in CloserType /\ closers \in [Closers -> CloserType]
  BY DEF TypeOK, Closers
<1>2. CASE closers["worker"].rest = {}
  <2>1. closers' = [closers EXCEPT !["worker"] = Rest] /\ sync' = sync
    BY <1>2 DEF CloseNext
  <2>2. QED
    BY <2>1, RestMoves DEF Closers
<1>3. CASE closers["worker"].rest # {}
  <2>1. PICK l \in closers["worker"].rest, pc \in {"disconnect", "remove"} :
          /\ closers' = [closers EXCEPT !["worker"].link = l, !["worker"].rest = @ \ {l},
                           !["worker"].pc = pc]
          /\ pc = IF api = "null" THEN "disconnect" ELSE "remove"
          /\ sync' = IF api = "null" THEN None ELSE "worker"
    BY <1>3 DEF CloseNext
  <2>2. Moves("worker", pc, l, closers["worker"].rest \ {l})
    BY <1>1, <2>1 DEF Moves, Closers, CloserType
  <2>3. QED
    BY <2>1, <2>2
<1>4. QED
  BY <1>2, <1>3

\* The tasks of a kind after one is posted, and after one is taken.
LEMMA QueueEventOf ==
  ASSUME TypeOK, NEW task \in TaskType, QueueEvent(task), NEW kind
  PROVE  /\ DOMAIN tasks \subseteq Nat
         /\ \A i \in TasksOf(kind)' :
              \/ i \in TasksOf(kind) /\ tasks'[i] = tasks[i]
              \/ /\ kind = task.kind /\ tasks'[i] = task
                 /\ \A j \in DOMAIN tasks' : j # i => j \in DOMAIN tasks /\ j < i
  BY QueueEventTasks DEF TasksOf

LEMMA TakeOf ==
  ASSUME TypeOK, NEW taken, Take(taken), NEW kind
  PROVE  /\ 1 \in TasksOf(taken) /\ tasks[1] = Head(tasks)
         /\ \A i \in TasksOf(kind)' : i \in Nat \ {0} /\ i + 1 \in TasksOf(kind) /\ tasks'[i] = tasks[i + 1]
         /\ TasksOf(kind) \subseteq Nat
         /\ \A i \in TasksOf(kind) : 1 <= i
  BY TakeTasks DEF TasksOf

LEMMA HandsAreLinks ==
  ASSUME TypeOK, PlacesOK
  PROVE  ToList \cup ToClose \cup InHand("worker") \cup InHand("monitor") \subseteq Links
<1>1. \A i \in DOMAIN tasks : tasks[i].links \subseteq Links
  <2>1. tasks \in Seq(TaskType)
    BY DEF TypeOK
  <2>2. \A i \in DOMAIN tasks : tasks[i] \in TaskType
    BY <2>1
  <2>3. QED
    BY <2>2 DEF TaskType
<1>2. ToList \subseteq Links
  BY DEF ToList, TasksOf, PlacesOK
<1>3. ToClose \subseteq Links
  BY <1>1 DEF ToClose, TasksOf, PlacesOK, ListPcs
<1>4. InHand("worker") \cup InHand("monitor") \subseteq Links
  BY DEF InHand, PlacesOK, Closers
<1>5. QED
  BY <1>2, <1>3, <1>4

\* The steps that touch neither the hands nor the lists.
LEMMA SameLinks ==
  ASSUME LinkInv, UNCHANGED <<tasks, closers, listed, native, api, sync>>,
         \A l \in Links : link'[l].native = link[l].native,
         TypeOK, PlacesOK,
         Live' => Live, ApiAt(ui'.pc) = ApiAt(ui.pc), state' = state \/ state' = "NON"
  PROVE  LinkInv'
<1> USE DEF LinkInv, TasksOf, InHand, ToList, ToClose
<1>1. UNCHANGED <<TasksOf("OPEN"), TasksOf("CLOSE"), TasksOf("TRYOPEN"), ToList, ToClose,
                  InHand("worker"), InHand("monitor")>>
  OBVIOUS
<1>2. Stages' /\ Queue' /\ SyncHeld' /\ OneTask'
  <2>1. Stages'
    BY <1>1 DEF Stages
  <2>2. Queue'
    <3> HIDE DEF TasksOf, InHand, ToList, ToClose
    <3>1. QED
      BY <1>1 DEF Queue
  <2>3. SyncHeld' /\ OneTask'
    BY <1>1 DEF SyncHeld, OneTask
  <2>4. QED
    BY <2>1, <2>2, <2>3
<1>3. OneHand'
  BY <1>1 DEF OneHand
<1>4. ToList \cup ToClose \cup InHand("worker") \cup InHand("monitor") \subseteq Links
  BY HandsAreLinks
<1>5. Owned'
  BY <1>1, <1>4 DEF Owned
<1>6. Listed' /\ NativeListed'
  BY <1>1 DEF Listed, NativeListed, TypeOK
<1>7. QED
  BY <1>2, <1>3, <1>5, <1>6

LEMMA InitLinks == Init => LinkInv
<1> SUFFICES ASSUME Init PROVE LinkInv
  OBVIOUS
<1>1. /\ \A kind : TasksOf(kind) = {}
      /\ \A t \in Closers : closers[t].pc = "idle" /\ InHand(t) = {}
  BY DEF Init, TasksOf, InHand, Rest, ClosingPcs
<1>2. ToList = {} /\ ToClose = {} /\ InHand("worker") = {} /\ InHand("monitor") = {}
  BY <1>1 DEF ToList, ToClose, Closers, OpeningPcs, ListPcs, ClosingPcs
<1>3. Stages
  BY <1>1 DEF Init, Stages, ApiAt, ListPcs, ClosingPcs, Closers, Rest
<1>4. Queue /\ SyncHeld /\ OneTask
  BY <1>1 DEF Queue, SyncHeld, OneTask, Closers, OpeningPcs, ClosingPcs
<1>5. Owned /\ OneHand
  BY <1>2 DEF Owned, OneHand
<1>6. Listed /\ NativeListed
  BY <1>1 DEF Init, Listed, NativeListed
<1>7. QED
  BY <1>3, <1>4, <1>5, <1>6 DEF LinkInv

\* onAttach queues handleTryOpen only when nothing is being opened.
LEMMA OnAttachLinks ==
  ASSUME TypeOK, PlacesOK, OneOpen, LinkInv, NEW d \in Devices, OnAttach(d)
  PROVE  LinkInv'
<1> USE DEF appVars, linkVars
<1>1. UNCHANGED <<closers, link, listed, native, api, sync, state, ui>>
  BY DEF OnAttach
<1>2. CASE tasks' = tasks
  BY <1>1, <1>2, SameLinks DEF Live
<1>3. CASE tasks' # tasks
  <2> DEFINE task == Task("TRYOPEN", None, {})
  <2>1. state = "NON" /\ QueueEvent(task) /\ task \in TaskType /\ task.kind = "TRYOPEN"
    BY <1>3, TaskTypes DEF OnAttach, Task
  <2>2. /\ \A i \in TasksOf("OPEN")' : i \in TasksOf("OPEN") /\ tasks'[i] = tasks[i]
        /\ \A i \in TasksOf("CLOSE")' : i \in TasksOf("CLOSE") /\ tasks'[i] = tasks[i]
        /\ \A i \in TasksOf("TRYOPEN")' : \/ i \in TasksOf("TRYOPEN") /\ tasks'[i] = tasks[i]
             \/ \A j \in DOMAIN tasks' : j # i => j < i
    <3> HIDE DEF task
    <3>1. QED
      BY <2>1, QueueEventOf
  <2>3. Live => OpenLinks = {}
    BY <2>1, NoOpening DEF OneOpen
  <2>4. Live => TasksOf("OPEN") = {} /\ closers["worker"].pc \notin OpeningPcs /\ listed = {}
    BY <2>3 DEF OpenLinks, TasksOf
  <2>5. ToList' \subseteq ToList /\ ToClose' \subseteq ToClose
    BY <1>1, <2>2 DEF ToList, ToClose
  <2>6. InHand("worker")' = InHand("worker") /\ InHand("monitor")' = InHand("monitor")
    BY <1>1 DEF InHand
  <2>7. Stages'
    BY <1>1, <2>2 DEF LinkInv, Stages, Live
  <2>8. Queue'
    <3>1. \A i \in TasksOf("TRYOPEN")', j \in TasksOf("CLOSE")' : j < i
      <4>1. \A i \in TasksOf("TRYOPEN")', j \in TasksOf("CLOSE")' : j # i /\ j \in DOMAIN tasks'
        BY DEF TasksOf
      <4>2. QED
        BY <2>2, <4>1 DEF LinkInv, Queue
    <3>2. QED
      BY <1>1, <2>2, <2>4, <3>1 DEF LinkInv, Queue, Live
  <2>9. SyncHeld' /\ OneTask'
    BY <1>1, <2>2 DEF LinkInv, SyncHeld, OneTask
  <2>10. Owned' /\ OneHand' /\ Listed' /\ NativeListed'
    BY <1>1, <2>5, <2>6 DEF LinkInv, Owned, OneHand, Listed, NativeListed
  <2>11. QED
    BY <2>7, <2>8, <2>9, <2>10 DEF LinkInv
<1>4. QED
  BY <1>2, <1>3

\* The monitor thread moves outside of a closing.
LEMMA MonitorLinks ==
  ASSUME TypeOK, PlacesOK, LinkInv, UNCHANGED <<tasks, link, listed, native, api, ui>>,
         NEW pc \in {"idle", "new"}, NEW rest, Moves("monitor", pc, None, rest),
         sync' = sync, closers["monitor"].pc # "idle" => sync # "monitor" \/ closers["monitor"].pc = "new",
         state' = state \/ state' = "NON" \/ state # "NON"
  PROVE  LinkInv'
<1>1. closers'["worker"] = closers["worker"] /\ closers'["monitor"].pc \notin ClosingPcs \cup {"released"}
  BY DEF Moves, Closers, ClosingPcs
<1>2. UNCHANGED <<TasksOf("OPEN"), TasksOf("CLOSE"), TasksOf("TRYOPEN"), ToList, ToClose,
                  InHand("worker")>> /\ InHand("monitor")' = {}
  BY <1>1 DEF TasksOf, ToList, ToClose, InHand
<1>3. Stages' /\ SyncHeld' /\ OneTask'
  BY <1>1, <1>2 DEF LinkInv, Stages, SyncHeld, OneTask, Live
<1>4. Queue'
  BY <1>1, <1>2 DEF LinkInv, Queue, Live
<1>5. Owned' /\ OneHand'
  BY <1>2 DEF LinkInv, Owned, OneHand
<1>6. Listed' /\ NativeListed'
  BY <1>1, <1>2 DEF LinkInv, Listed, NativeListed, Closers, ClosingPcs
<1>7. QED
  BY <1>3, <1>4, <1>5, <1>6 DEF LinkInv

LEMMA OnConnectLinks ==
  ASSUME TypeOK, PlacesOK, LinkInv, NEW d \in Devices, OnConnect(d)
  PROVE  LinkInv'
<1> USE DEF appVars, linkVars
<1>1. CASE state = "TRYOPEN"
  <2>1. Moves("monitor", "new", None, {d})
    <3>1. closers' = [closers EXCEPT !["monitor"] = [Rest EXCEPT !.pc = "new", !.rest = {d}]]
      BY <1>1 DEF OnConnect
    <3> DEFINE c == [Rest EXCEPT !.pc = "new", !.rest = {d}]
    <3>2. c.pc = "new" /\ c.link = None /\ c.rest = {d}
      BY DEF Rest
    <3> HIDE DEF c
    <3>3. QED
      BY <3>1, <3>2 DEF c, Moves, TypeOK, Closers
  <2>2. /\ UNCHANGED <<tasks, link, listed, native, api, ui, sync>>
        /\ closers["monitor"].pc = "idle" /\ state # "NON"
    BY <1>1 DEF OnConnect, Callback
  <2>3. QED
    BY <2>1, <2>2, MonitorLinks
<1>2. CASE state # "TRYOPEN"
  BY <1>2, SameLinks DEF OnConnect, Live
<1>3. QED
  BY <1>1, <1>2

LEMMA OnConnectFailedLinks ==
  ASSUME TypeOK, PlacesOK, LinkInv, OnConnectFailed
  PROVE  LinkInv'
<1>1. Moves("monitor", "idle", None, {})
  BY RestMoves DEF OnConnectFailed, Closers
<1>2. /\ UNCHANGED <<tasks, link, listed, native, api, ui, sync>>
      /\ closers["monitor"].pc = "new" /\ state' = "NON"
  BY DEF OnConnectFailed, appVars, linkVars
<1>3. QED
  BY <1>1, <1>2, MonitorLinks

\* onDisconnect takes a link that is listed and in nobody's hands.
LEMMA OnDisconnectLinks ==
  ASSUME TypeOK, PlacesOK, LinkInv, NEW d \in Devices, OnDisconnect(d)
  PROVE  LinkInv'
<1> USE DEF appVars, linkVars
<1>1. UNCHANGED <<tasks, link, listed, native, api, state, ui>>
  BY DEF OnDisconnect, DisconnectHeld
<1>2. CASE UNCHANGED <<closers, sync>>
  BY <1>1, <1>2, SameLinks DEF Live
<1>3. CASE ~UNCHANGED <<closers, sync>>
  <2>1. /\ state # "NON" /\ api # "null" /\ sync = None /\ sync' = "monitor"
        /\ closers["monitor"].pc = "idle"
    BY <1>3 DEF OnDisconnect, DisconnectHeld, Callback
  <2>2. PICK l \in listed :
          closers' = [closers EXCEPT !["monitor"] = [Rest EXCEPT !.pc = "remove", !.link = l]]
    BY <1>3 DEF OnDisconnect, DisconnectHeld
  <2>3. Moves("monitor", "remove", l, {})
    <3> DEFINE c == [Rest EXCEPT !.pc = "remove", !.link = l]
    <3>1. c.pc = "remove" /\ c.link = l /\ c.rest = {}
      BY DEF Rest
    <3> HIDE DEF c
    <3>2. QED
      BY <2>2, <3>1 DEF c, Moves, TypeOK, Closers
  <2>4. /\ closers'["worker"] = closers["worker"]
        /\ closers'["monitor"].pc = "remove" /\ closers'["monitor"].link = l
    BY <2>3 DEF Moves, Closers
  <2>5. UNCHANGED <<TasksOf("OPEN"), TasksOf("CLOSE"), TasksOf("TRYOPEN"), ToList, ToClose,
                    InHand("worker")>>
    BY <1>1, <2>4 DEF TasksOf, ToList, ToClose, InHand
  <2>6. InHand("monitor")' = {l} /\ InHand("monitor") = {}
    BY <2>1, <2>4 DEF InHand, ClosingPcs
  <2>7. Stages' /\ OneTask'
    BY <1>1, <2>4, <2>5 DEF LinkInv, Stages, OneTask, Live
  <2>8. SyncHeld'
    BY <2>1, <2>4, CameraAssumption DEF LinkInv, SyncHeld
  <2>9. Queue'
    BY <1>1, <2>4, <2>5 DEF LinkInv, Queue, Live
  <2>10. Owned' /\ OneHand'
    BY <1>1, <2>1, <2>5, <2>6 DEF LinkInv, Owned, OneHand, Listed
  <2>11. Listed' /\ NativeListed'
    BY <1>1, <2>4, <2>5 DEF LinkInv, Listed, NativeListed, Closers
  <2>12. QED
    BY <2>7, <2>8, <2>9, <2>10, <2>11 DEF LinkInv
<1>4. QED
  BY <1>2, <1>3

\* A link is constructed: it was in nobody's hands.
LEMMA OnConnectQueueLinks ==
  ASSUME TypeOK, PlacesOK, LinkInv, NEW l \in Links, OnConnectQueue(l)
  PROVE  LinkInv'
<1> USE DEF appVars, linkVars
<1>1. UNCHANGED <<listed, native, api, sync, state, ui>>
  BY DEF OnConnectQueue
<1>2. /\ link[l].native = "none" /\ link'[l].native = "there"
      /\ \A k \in Links \ {l} : link'[k] = link[k]
  BY DEF OnConnectQueue, TypeOK
<1>3. /\ closers'["worker"] = closers["worker"] /\ closers'["monitor"].pc = "idle"
      /\ InHand("worker")' = InHand("worker") /\ InHand("monitor")' = {}
  BY DEF OnConnectQueue, TypeOK, Closers, Rest, InHand, ClosingPcs
<1> DEFINE task == Task("OPEN", l, {})
<1>4. task \in TaskType /\ QueueEvent(task) /\ task.kind = "OPEN" /\ task.link = l
  BY TaskTypes DEF OnConnectQueue, Task
<1> HIDE DEF task
<1>5. /\ \A i \in TasksOf("CLOSE")' : i \in TasksOf("CLOSE") /\ tasks'[i] = tasks[i]
      /\ \A i \in TasksOf("TRYOPEN")' : i \in TasksOf("TRYOPEN") /\ tasks'[i] = tasks[i]
      /\ \A i \in TasksOf("OPEN")' : \/ i \in TasksOf("OPEN") /\ tasks'[i] = tasks[i]
           \/ /\ tasks'[i].link = l
              /\ \A j \in DOMAIN tasks' : j # i => j \in DOMAIN tasks /\ tasks'[j] = tasks[j] /\ j < i
  BY <1>4, QueueEventOf, QueueEventTasks
<1>6. ToList' \subseteq ToList \cup {l} /\ ToClose' \subseteq ToClose
  BY <1>3, <1>5 DEF ToList, ToClose
<1>7. /\ l \notin ToList \cup ToClose \cup InHand("worker") \cup InHand("monitor")
      /\ l \notin listed /\ l \notin native
  BY <1>2 DEF LinkInv, Owned, Listed, NativeListed
<1>8. Stages' /\ SyncHeld'
  BY <1>1, <1>3, <1>5 DEF LinkInv, Stages, SyncHeld, Live, ClosingPcs
<1>9. Queue'
  <2>1. \A i \in TasksOf("TRYOPEN")', j \in TasksOf("OPEN")' : j # i /\ i \in DOMAIN tasks'
    BY DEF TasksOf
  <2>2. QED
    BY <1>1, <1>3, <1>5, <2>1 DEF LinkInv, Queue, Live
<1>10. OneTask'
  <2>1. \A i \in TasksOf("OPEN") : tasks[i].link # l
    BY <1>7 DEF ToList
  <2>2. closers["worker"].pc \in OpeningPcs => closers["worker"].link # l
    BY <1>7 DEF ToList
  <2>3. \A i, j \in TasksOf("OPEN")' : tasks'[i].link = tasks'[j].link => i = j
    <3>1. \A i \in TasksOf("OPEN")' : i \in DOMAIN tasks' /\ tasks'[i].kind = "OPEN"
      BY DEF TasksOf
    <3>2. \A i \in DOMAIN tasks : tasks[i].kind = "OPEN" => i \in TasksOf("OPEN")
      BY DEF TasksOf
    <3>3. QED
      BY <1>5, <2>1, <3>1, <3>2 DEF LinkInv, OneTask
  <2>4. QED
    BY <1>3, <1>5, <2>1, <2>2, <2>3 DEF LinkInv, OneTask
<1>11. Owned' /\ OneHand'
  BY <1>1, <1>2, <1>3, <1>6, <1>7, HandsAreLinks DEF LinkInv, Owned, OneHand
<1>12. Listed' /\ NativeListed'
  BY <1>1, <1>2, <1>3, <1>6, <1>7 DEF LinkInv, Listed, NativeListed, Closers, TypeOK
<1>13. QED
  BY <1>8, <1>9, <1>10, <1>11, <1>12 DEF LinkInv

LEMMA ListenerLinks ==
  ASSUME TypeOK, PlacesOK, OneOpen, LinkInv, Listener
  PROVE  LinkInv'
<1>1. ASSUME NEW d \in Devices, OnDettach(d) \/ OnCancel(d) PROVE LinkInv'
  BY <1>1, SameLinks DEF OnDettach, OnCancel, Live, appVars, linkVars
<1>2. QED
  BY <1>1, OnAttachLinks, OnConnectLinks, OnDisconnectLinks, OnConnectQueueLinks,
     OnConnectFailedLinks DEF Listener

\* The worker is idle when it takes a task, and holds nothing.
LEMMA IdleWorker ==
  ASSUME TypeOK, NEW kind, Take(kind)
  PROVE  /\ closers["worker"].pc = "idle" /\ InHand("worker") = {}
         /\ ToList = {tasks[i].link : i \in TasksOf("OPEN")}
         /\ ToClose = UNION {tasks[i].links : i \in TasksOf("CLOSE")}
  BY DEF Take, InHand, ToList, ToClose, OpeningPcs, ListPcs, ClosingPcs

\* handleTryOpen leaves CAMERA_NON only when no task that closes is left.
LEMMA HandleTryOpenLinks ==
  ASSUME TypeOK, PlacesOK, LinkInv, HandleTryOpen
  PROVE  LinkInv'
<1> USE DEF appVars, linkVars
<1>1. UNCHANGED <<closers, link, listed, native, api, sync, ui>> /\ Take("TRYOPEN")
  BY DEF HandleTryOpen
<1>2. \A kind : \A i \in TasksOf(kind)' :
        i \in Nat \ {0} /\ i + 1 \in TasksOf(kind) /\ tasks'[i] = tasks[i + 1]
  BY <1>1, TakeOf
<1>3. TasksOf("CLOSE") = {}
  <2>1. 1 \in TasksOf("TRYOPEN") /\ \A i \in TasksOf("CLOSE") : i \in Nat /\ 1 <= i
    BY <1>1, TakeOf
  <2>2. QED
    BY <2>1 DEF LinkInv, Queue
<1>4. TasksOf("CLOSE")' = {}
  BY <1>2, <1>3
<1>5. ToList' \subseteq ToList /\ InHand("worker")' = {} /\ InHand("monitor")' = InHand("monitor")
  BY <1>1, <1>2, IdleWorker DEF ToList, InHand, OpeningPcs, ClosingPcs
<1>6. ToClose' = {}
  BY <1>1, <1>4, IdleWorker DEF ToClose, ListPcs, ClosingPcs
<1>7. Stages' /\ SyncHeld'
  BY <1>1, <1>4 DEF LinkInv, Stages, SyncHeld, Live
<1>8. Queue'
  BY <1>1, <1>2, <1>4 DEF LinkInv, Queue, Live
<1>9. OneTask'
  BY <1>1, <1>2 DEF LinkInv, OneTask
<1>10. Owned' /\ OneHand'
  BY <1>1, <1>5, <1>6 DEF LinkInv, Owned, OneHand
<1>11. Listed' /\ NativeListed'
  BY <1>1, <1>5, <1>6 DEF LinkInv, Listed, NativeListed
<1>12. QED
  BY <1>7, <1>8, <1>9, <1>10, <1>11 DEF LinkInv

LEMMA TakeOpenLinks ==
  ASSUME TypeOK, PlacesOK, LinkInv, TakeOpen
  PROVE  LinkInv'
<1> USE DEF appVars, linkVars
<1>1. UNCHANGED <<link, listed, native, api, sync, state, ui>> /\ Take("OPEN")
  BY DEF TakeOpen
<1>2. \A kind : \A i \in TasksOf(kind)' :
        i \in Nat \ {0} /\ i + 1 \in TasksOf(kind) /\ tasks'[i] = tasks[i + 1]
  BY <1>1, TakeOf
<1>3. 1 \in TasksOf("OPEN") /\ tasks[1] = Head(tasks)
  BY <1>1, TakeOf
<1>4. Moves("worker", "open", tasks[1].link, {})
  <2> DEFINE c == [Rest EXCEPT !.pc = "open", !.link = Head(tasks).link]
  <2>1. c.pc = "open" /\ c.link = tasks[1].link /\ c.rest = {}
    BY <1>3 DEF Rest
  <2>2. closers' = [closers EXCEPT !["worker"] = c]
    BY DEF TakeOpen
  <2> HIDE DEF c
  <2>3. QED
    BY <2>1, <2>2 DEF Moves, TypeOK, Closers
<1>5. /\ closers'["worker"].pc = "open" /\ closers'["worker"].link = tasks[1].link
      /\ closers'["monitor"] = closers["monitor"] /\ closers["worker"].pc = "idle"
  BY <1>1, <1>4, IdleWorker DEF Moves, Closers
<1>6. ToList' \subseteq ToList /\ InHand("worker")' = {} /\ InHand("monitor")' = InHand("monitor")
  BY <1>2, <1>3, <1>5 DEF ToList, InHand, ClosingPcs
<1>7. ToClose' \subseteq ToClose
  <2>1. closers'["worker"].pc \notin ListPcs
    BY <1>5 DEF ListPcs, ClosingPcs
  <2>2. \A i \in TasksOf("CLOSE")' : \E j \in TasksOf("CLOSE") : tasks'[i].links = tasks[j].links
    BY <1>2
  <2>3. QED
    BY <2>1, <2>2 DEF ToClose
<1>8. Stages' /\ SyncHeld'
  BY <1>1, <1>2, <1>5 DEF LinkInv, Stages, SyncHeld, Live, ListPcs, ClosingPcs
<1>9. Queue'
  <2>1. \A i \in TasksOf("TRYOPEN") : i \in Nat /\ 1 <= i
    BY <1>1, TakeOf
  <2>2. Live => TasksOf("TRYOPEN") = {}
    BY <1>3, <2>1 DEF LinkInv, Queue
  <2>3. QED
    BY <1>1, <1>2, <1>5, <2>2 DEF LinkInv, Queue, Live, ListPcs, ClosingPcs
<1>10. OneTask'
  BY <1>2, <1>3, <1>5 DEF LinkInv, OneTask
<1>11. Owned' /\ OneHand'
  BY <1>1, <1>6, <1>7 DEF LinkInv, Owned, OneHand
<1>12. Listed' /\ NativeListed'
  BY <1>1, <1>5, <1>6, <1>7 DEF LinkInv, Listed, NativeListed, Closers
<1>13. QED
  BY <1>8, <1>9, <1>10, <1>11, <1>12 DEF LinkInv

LEMMA TakeCloseLinks ==
  ASSUME TypeOK, PlacesOK, LinkInv, TakeClose
  PROVE  LinkInv'
<1> USE DEF appVars, linkVars
<1>1. UNCHANGED <<link, listed, native, api, sync, state, ui>> /\ Take("CLOSE")
  BY DEF TakeClose
<1>2. \A kind : \A i \in TasksOf(kind)' :
        i \in Nat \ {0} /\ i + 1 \in TasksOf(kind) /\ tasks'[i] = tasks[i + 1]
  BY <1>1, TakeOf
<1>3. 1 \in TasksOf("CLOSE") /\ tasks[1] = Head(tasks)
  BY <1>1, TakeOf
<1>4. Moves("worker", "next", None, tasks[1].links)
  <2> DEFINE c == [Rest EXCEPT !.pc = "next", !.rest = Head(tasks).links]
  <2>1. c.pc = "next" /\ c.link = None /\ c.rest = tasks[1].links
    BY <1>3 DEF Rest
  <2>2. closers' = [closers EXCEPT !["worker"] = c]
    BY DEF TakeClose
  <2> HIDE DEF c
  <2>3. QED
    BY <2>1, <2>2 DEF Moves, TypeOK, Closers
<1>5. /\ closers'["worker"].pc = "next" /\ closers'["worker"].rest = tasks[1].links
      /\ closers'["monitor"] = closers["monitor"]
  BY <1>4 DEF Moves, Closers
<1>6. TasksOf("CLOSE")' = {}
  BY <1>2, <1>3 DEF LinkInv, Queue
<1>7. ToList' \subseteq ToList /\ InHand("worker")' = {} /\ InHand("monitor")' = InHand("monitor")
  <2>1. closers'["worker"].pc \notin OpeningPcs \cup ClosingPcs
    BY <1>5 DEF OpeningPcs, ClosingPcs
  <2>2. \A i \in TasksOf("OPEN")' : \E j \in TasksOf("OPEN") : tasks'[i].link = tasks[j].link
    BY <1>2
  <2>3. QED
    BY <1>5, <2>1, <2>2 DEF ToList, InHand
<1>8. ToClose' \subseteq ToClose
  BY <1>3, <1>5, <1>6 DEF ToClose
<1>9. Stages' /\ SyncHeld' /\ OneTask'
  BY <1>1, <1>2, <1>3, <1>5, <1>6 DEF LinkInv, Stages, SyncHeld, OneTask, Live, OpeningPcs
<1>10. Queue'
  <2>1. ~Live
    BY <1>3 DEF LinkInv, Stages
  <2>2. QED
    BY <1>1, <1>6, <2>1 DEF LinkInv, Queue, Live
<1>11. Owned' /\ OneHand'
  BY <1>1, <1>7, <1>8 DEF LinkInv, Owned, OneHand
<1>12. Listed' /\ NativeListed'
  BY <1>1, <1>5, <1>7, <1>8 DEF LinkInv, Listed, NativeListed, Closers
<1>13. QED
  BY <1>9, <1>10, <1>11, <1>12 DEF LinkInv

\* The steps of handleOpen: the worker keeps its link, lists it or gives it up.
LEMMA OpeningLinks ==
  ASSUME TypeOK, PlacesOK, LinkInv, Open \/ Add \/ NativeAdd \/ ListAdd
  PROVE  LinkInv'
<1> USE DEF appVars, linkVars
<1> DEFINE l == closers["worker"].link
<1>1. /\ UNCHANGED <<tasks, api, sync, state, ui>>
      /\ closers["worker"].pc \in OpeningPcs
      /\ \A k \in Links : link'[k].native = link[k].native
  <2>1. UNCHANGED <<tasks, api, sync, state, ui>> /\ closers["worker"].pc \in OpeningPcs
    BY DEF Open, Add, NativeAdd, ListAdd, OpeningPcs
  <2>2. link' = link \/ \E b : link' = [link EXCEPT ![l].connected = b]
    BY DEF Open, Add, NativeAdd, ListAdd
  <2>3. \A k \in Links : link'[k].native = link[k].native
    <3>1. link \in [Links -> LinkType]
      BY DEF TypeOK
    <3>2. ASSUME NEW k \in Links, NEW b, link' = [link EXCEPT ![l].connected = b]
          PROVE  link'[k].native = link[k].native
      <4>1. link[k] = [dev |-> link[k].dev, native |-> link[k].native,
                       connected |-> link[k].connected]
        BY <3>1 DEF LinkType
      <4>2. CASE k = l
        BY <3>1, <3>2, <4>1, <4>2
      <4>3. CASE k # l
        BY <3>1, <3>2, <4>3
      <4>4. QED
        BY <4>2, <4>3
    <3>3. QED
      BY <2>2, <3>2
  <2>4. QED
    BY <2>1, <2>3
<1>2. /\ closers'["monitor"] = closers["monitor"]
      /\ \/ closers'["worker"].pc = "idle"
         \/ closers'["worker"].pc \in OpeningPcs /\ closers'["worker"].link = l
  <2>1. CASE ListAdd
    BY <2>1, RestMoves DEF ListAdd, Moves, Closers
  <2>2. CASE closers' = closers
    BY <1>1, <2>2
  <2>3. CASE ~ListAdd /\ closers' # closers
    <3>1. \E pc \in {"idle", "add", "nativeAdd", "listAdd"} : Goto("worker", pc)
      BY <2>3 DEF Open, Add, NativeAdd
    <3>2. QED
      BY <3>1, GotoMoves DEF Moves, Closers, OpeningPcs
  <2>4. QED
    BY <2>1, <2>2, <2>3
<1>3. /\ l \in Links /\ l \in ToList /\ link[l].native = "there" /\ l \notin listed
      /\ l \notin ToClose /\ l \notin InHand("worker") /\ l \notin InHand("monitor")
  BY <1>1 DEF PlacesOK, LinkInv, ToList, Owned, OneHand
<1>4. /\ native' = native \/ (api = "up" /\ native' = native \cup {l})
      /\ \/ listed' = listed
         \/ closers'["worker"].pc = "idle" /\ listed' = listed \cup {l}
  <2>1. CASE ListAdd
    BY <2>1, RestMoves DEF ListAdd, Moves, Closers
  <2>2. CASE ~ListAdd
    BY <2>2 DEF Open, Add, NativeAdd
  <2>3. QED
    BY <2>1, <2>2
<1> HIDE DEF l
<1>5. closers'["worker"].pc \notin ListPcs \cup ClosingPcs \cup {"remove", "nativeRemove", "removed"}
  BY <1>2 DEF ListPcs, ClosingPcs, OpeningPcs
<1>6. /\ UNCHANGED <<TasksOf("OPEN"), TasksOf("CLOSE"), TasksOf("TRYOPEN")>>
      /\ InHand("worker")' = {} /\ InHand("monitor")' = InHand("monitor")
      /\ ToClose' \subseteq ToClose /\ ToList' \subseteq ToList
  <2>1. UNCHANGED <<TasksOf("OPEN"), TasksOf("CLOSE"), TasksOf("TRYOPEN")>>
    BY <1>1 DEF TasksOf
  <2>2. InHand("worker")' = {} /\ InHand("monitor")' = InHand("monitor")
    BY <1>2, <1>5 DEF InHand
  <2>3. ToClose' \subseteq ToClose
    BY <1>1, <1>5, <2>1 DEF ToClose
  <2>4. ToList' \subseteq ToList
    BY <1>1, <1>2, <2>1 DEF ToList, l, OpeningPcs
  <2>5. QED
    BY <2>1, <2>2, <2>3, <2>4
<1>7. closers'["worker"].pc = "idle" => l \notin ToList'
  BY <1>1, <1>6 DEF ToList, l, LinkInv, OneTask, OpeningPcs
<1>8. Stages'
  BY <1>1, <1>4, <1>5, <1>6 DEF LinkInv, Stages, Live
<1>9. SyncHeld' /\ OneTask'
  BY <1>1, <1>2, <1>5, <1>6 DEF LinkInv, SyncHeld, OneTask, l, OpeningPcs
<1>10. Queue'
  BY <1>1, <1>2, <1>4, <1>5, <1>6 DEF LinkInv, Queue, Live
<1>11. Owned' /\ OneHand'
  BY <1>1, <1>3, <1>4, <1>6, <1>7, HandsAreLinks DEF LinkInv, Owned, OneHand
<1>12. Listed'
  <2>1. listed' \subseteq Links /\ listed \subseteq Links
    BY <1>3, <1>4 DEF TypeOK
  <2>2. \A t \in Closers :
          closers'[t].pc \in {"nativeRemove", "removed", "disconnect", "release", "delete"} =>
            /\ closers'[t] = closers[t] /\ closers[t].link \in InHand("monitor")
    BY <1>2, <1>5 DEF Closers, ClosingPcs, InHand
  <2>3. QED
    BY <1>1, <1>3, <1>4, <1>6, <2>1, <2>2 DEF LinkInv, Listed
<1>13. NativeListed'
  <2>1. native \subseteq Links
    BY DEF TypeOK
  <2>2. \A t \in Closers :
          closers'[t].pc \in {"removed", "disconnect", "release", "delete"} =>
            /\ closers'[t] = closers[t] /\ closers[t].link \in InHand("monitor")
    BY <1>2, <1>5 DEF Closers, ClosingPcs, InHand
  <2>3. QED
    BY <1>1, <1>3, <1>4, <2>1, <2>2 DEF LinkInv, NativeListed
<1>14. QED
  BY <1>8, <1>9, <1>10, <1>11, <1>12, <1>13 DEF LinkInv

\* The worker goes on with its list.
LEMMA CloseNextLinks ==
  ASSUME TypeOK, PlacesOK, LinkInv, CloseNext \/ ReleasedWorker
  PROVE  LinkInv'
<1> USE DEF appVars, linkVars
<1> DEFINE w == closers["worker"]
<1>1. /\ UNCHANGED <<tasks, link, listed, native, api, state, ui>>
      /\ w.pc \in {"next", "released"} /\ InHand("worker") = {}
      /\ w.pc = "next" => sync = None
  BY DEF CloseNext, ReleasedWorker, InHand, ClosingPcs
<1>2. /\ closers'["monitor"] = closers["monitor"]
      /\ \/ closers'["worker"].pc = "idle" /\ sync' = sync
         \/ closers'["worker"].pc = "next" /\ closers'["worker"].rest = w.rest /\ sync' = sync
         \/ /\ closers'["worker"].link \in w.rest
            /\ closers'["worker"].rest = w.rest \ {closers'["worker"].link}
            /\ w.pc = "next"
            /\ \/ closers'["worker"].pc = "disconnect" /\ api = "null" /\ sync' = None
               \/ closers'["worker"].pc = "remove" /\ api # "null" /\ sync' = "worker"
  <2>1. CASE CloseNext
    <3>1. w.pc = "next" /\ sync = None
      BY <2>1 DEF CloseNext
    <3>2. QED
      BY <2>1, <3>1, CloseNextMoves DEF Moves, Closers
  <2>2. CASE ReleasedWorker
    BY <2>2, GotoMoves DEF ReleasedWorker, Moves, Closers
  <2>3. QED
    BY <2>1, <2>2
<1> HIDE DEF w
<1>3. /\ w.pc \in ListPcs /\ closers'["worker"].pc \notin OpeningPcs
      /\ closers'["worker"].pc \in ListPcs \cup {"idle"}
  BY <1>1, <1>2 DEF ListPcs, OpeningPcs, ClosingPcs
<1>4. UNCHANGED <<TasksOf("OPEN"), TasksOf("CLOSE"), TasksOf("TRYOPEN"), InHand("monitor")>>
  BY <1>1, <1>2 DEF TasksOf, InHand
<1>5. ToList' \subseteq ToList
  BY <1>1, <1>3, <1>4 DEF ToList
<1>6. /\ w.rest \subseteq ToClose
      /\ closers'["worker"].rest \subseteq w.rest \/ closers'["worker"].pc = "idle"
      /\ InHand("worker")' \subseteq w.rest
  <2>1. w.rest \subseteq ToClose
    BY <1>3 DEF ToClose, w
  <2>2. closers'["worker"].rest \subseteq w.rest \/ closers'["worker"].pc = "idle"
    BY <1>2
  <2>3. InHand("worker")' \subseteq w.rest
    BY <1>2 DEF InHand, ClosingPcs
  <2>4. QED
    BY <2>1, <2>2, <2>3
<1>7. ToClose' \subseteq ToClose
  <2>1. closers'["worker"].pc = "idle" => closers'["worker"].pc \notin ListPcs
    BY DEF ListPcs, ClosingPcs
  <2>2. QED
    BY <1>1, <1>4, <1>6, <2>1 DEF ToClose
<1>8. ToClose' \cap InHand("worker")' = {}
  <2>1. TasksOf("CLOSE") = {}
    BY <1>3 DEF LinkInv, Queue, w
  <2>2. ToClose' \subseteq closers'["worker"].rest
    BY <1>4, <2>1 DEF ToClose
  <2>3. QED
    BY <1>2, <2>2 DEF InHand, ClosingPcs
<1>9. Stages' /\ OneTask'
  BY <1>1, <1>3, <1>4 DEF LinkInv, Stages, OneTask, Live, w
<1>10. Queue'
  <2>1. TasksOf("CLOSE") = {} /\ ~Live
    BY <1>3 DEF LinkInv, Queue, Stages, w
  <2>2. QED
    BY <1>1, <1>4, <2>1 DEF LinkInv, Queue, Live
<1>11. SyncHeld'
  BY <1>1, <1>2, CameraAssumption DEF LinkInv, SyncHeld, ClosingPcs
<1>12. Owned' /\ OneHand'
  BY <1>1, <1>4, <1>5, <1>6, <1>7, <1>8 DEF LinkInv, Owned, OneHand
<1>13. Listed'
  <2>1. listed' \cap (ToClose' \cup InHand("worker")') \subseteq listed \cap ToClose
    BY <1>1, <1>6, <1>7
  <2>2. QED
    BY <1>1, <1>2, <2>1 DEF LinkInv, Listed, Closers
<1>14. NativeListed'
  BY <1>1, <1>2 DEF LinkInv, NativeListed, Stages, Closers
<1>15. QED
  BY <1>9, <1>10, <1>11, <1>12, <1>13, <1>14 DEF LinkInv

LEMMA WorkerLinks ==
  ASSUME TypeOK, PlacesOK, LinkInv, Worker
  PROVE  LinkInv'
  BY HandleTryOpenLinks, TakeOpenLinks, TakeCloseLinks, OpeningLinks, CloseNextLinks DEF Worker

-----------------------------------------------------------------------------
(* Proof of the links: the closing of one, and onDestroy.                    *)

\* A closer goes on with the link in its hands. What is common to its steps.
LEMMA ClosingMoves ==
  ASSUME TypeOK, PlacesOK, LinkInv, NEW t \in Closers, NEW pc \in ClosingPcs \cup {"released"},
         Goto(t, pc), closers[t].pc \in ClosingPcs, UNCHANGED <<tasks, state, ui, api>>
  PROVE  /\ closers'[t].pc = pc /\ closers'[t].link = closers[t].link
         /\ \A u \in Closers \ {t} : closers'[u] = closers[u]
         /\ closers[t].link \in InHand(t) /\ closers[t].link \in Links
         /\ InHand(t)' = (IF pc = "released" THEN {} ELSE InHand(t))
         /\ \A u \in Closers \ {t} : InHand(u)' = InHand(u) /\ closers[t].link \notin InHand(u)
         /\ closers[t].link \notin ToList \cup ToClose
         /\ ToList' = ToList /\ ToClose' = ToClose
         /\ OneTask'
         /\ native' \subseteq native => Stages'
         /\ listed' \subseteq listed => Queue'
<1>1. Moves(t, pc, closers[t].link, closers[t].rest)
  BY GotoMoves
<1>2. /\ closers'[t].pc = pc /\ closers'[t].link = closers[t].link /\ closers'[t].rest = closers[t].rest
      /\ \A u \in Closers \ {t} : closers'[u] = closers[u]
  BY <1>1 DEF Moves
<1>3. closers[t].link \in InHand(t) /\ closers[t].link \in Links
  BY DEF InHand, PlacesOK
<1>4. InHand(t)' = IF pc = "released" THEN {} ELSE InHand(t)
  BY <1>2 DEF InHand, ClosingPcs
<1>5. \A u \in Closers \ {t} : InHand(u)' = InHand(u) /\ closers[t].link \notin InHand(u)
  BY <1>2, <1>3 DEF InHand, LinkInv, OneHand, Closers
<1>6. closers[t].link \notin ToList \cup ToClose
  BY <1>3 DEF LinkInv, OneHand, Closers
<1>7. /\ closers["worker"].pc \in OpeningPcs <=> closers'["worker"].pc \in OpeningPcs
      /\ closers["worker"].pc \in ListPcs <=> closers'["worker"].pc \in ListPcs
      /\ closers'["worker"].rest = closers["worker"].rest
      /\ closers'["worker"].link = closers["worker"].link
  BY <1>2 DEF Closers, OpeningPcs, ListPcs, ClosingPcs
<1>8. UNCHANGED <<TasksOf("OPEN"), TasksOf("CLOSE"), TasksOf("TRYOPEN")>>
  BY DEF TasksOf
<1>9. ToList' = ToList /\ ToClose' = ToClose
  BY <1>7, <1>8 DEF ToList, ToClose
<1>10. OneTask'
  BY <1>7, <1>8 DEF LinkInv, OneTask
<1>11. listed' \subseteq listed => Queue'
  BY <1>7, <1>8 DEF LinkInv, Queue, Live
<1>12. native' \subseteq native => Stages'
  BY <1>7, <1>8 DEF LinkInv, Stages, Live
<1>13. QED
  BY <1>2, <1>3, <1>4, <1>5, <1>6, <1>9, <1>10, <1>11, <1>12

LEMMA RemoveLinks ==
  ASSUME TypeOK, PlacesOK, LinkInv, NEW t \in Closers, Remove(t) \/ NativeRemove(t) \/ Removed(t)
  PROVE  LinkInv'
<1> USE DEF appVars, linkVars
<1> DEFINE l == closers[t].link
<1>1. CASE closers' = closers
  <2>1. UNCHANGED <<tasks, native, api, sync, state, ui, link>> /\ listed' = listed
    <3>1. \A pc : Goto(t, pc) => pc = closers[t].pc
      BY <1>1, GotoMoves DEF Moves
    <3>2. ~Goto(t, "nativeRemove") \/ closers[t].pc # "remove"
      BY <3>1
    <3>3. ~Goto(t, "removed") \/ closers[t].pc = "removed"
      BY <3>1
    <3>4. CASE Remove(t)
      BY <3>2, <3>3, <3>4 DEF Remove
    <3>5. CASE NativeRemove(t)
      BY <3>3, <3>5 DEF NativeRemove
    <3>6. ~Removed(t)
      BY <3>1 DEF Removed
    <3>7. QED
      BY <3>4, <3>5, <3>6
  <2>2. QED
    BY <1>1, <2>1, SameLinks DEF Live
<1>2. CASE closers' # closers
  <2>1. PICK pc \in {"nativeRemove", "removed", "disconnect"} :
          /\ Goto(t, pc)
          /\ pc = "nativeRemove" => Remove(t)
          /\ pc = "disconnect" => Removed(t)
          /\ pc = "removed" =>
               \/ NativeRemove(t) /\ native' = native \ {l}
               \/ Remove(t) /\ ~(api = "up" /\ link[l].native = "there")
    BY <1>2 DEF Remove, NativeRemove, Removed
  <2>2. /\ UNCHANGED <<tasks, state, ui, api, link>> /\ closers[t].pc \in ClosingPcs
        /\ listed' \subseteq listed /\ native' \subseteq native
        /\ pc = "nativeRemove" => closers[t].pc = "remove" /\ listed' = listed \ {l}
        /\ pc = "removed" => l \notin listed' \/ closers[t].pc = "nativeRemove"
        /\ pc = "disconnect" => closers[t].pc = "removed"
    <3>1. Remove(t) => /\ closers[t].pc = "remove" /\ listed' = listed \ {l}
                       /\ UNCHANGED <<tasks, state, ui, api, link, native>>
      BY <1>2 DEF Remove
    <3>2. NativeRemove(t) => /\ closers[t].pc = "nativeRemove" /\ native' \subseteq native
                             /\ UNCHANGED <<tasks, state, ui, api, link, listed>>
      BY DEF NativeRemove
    <3>3. Removed(t) => /\ closers[t].pc = "removed"
                        /\ UNCHANGED <<tasks, state, ui, api, link, native, listed>>
      BY DEF Removed
    <3>4. QED
      BY <2>1, <3>1, <3>2, <3>3 DEF ClosingPcs
  <2>3. pc \in ClosingPcs \cup {"released"} /\ pc # "released"
    BY <2>1 DEF ClosingPcs
  <2>4. /\ closers'[t].pc = pc /\ closers'[t].link = l
        /\ \A u \in Closers \ {t} : closers'[u] = closers[u]
        /\ l \in InHand(t) /\ \A u \in Closers : InHand(u)' = InHand(u)
        /\ ToList' = ToList /\ ToClose' = ToClose
        /\ Stages' /\ OneTask' /\ Queue'
    BY <2>1, <2>2, <2>3, ClosingMoves
  <2>5. SyncHeld'
    <3>1. sync' = sync \/ (t = "worker" /\ pc = "disconnect" /\ closers[t].pc = "removed" /\ sync' = None)
      BY <2>1 DEF Remove, NativeRemove, Removed
    <3>2. pc # "disconnect" => closers[t].pc \in {"remove", "nativeRemove"}
      BY <2>1 DEF Remove, NativeRemove
    <3>3. CASE t = "worker"
      BY <2>1, <2>2, <2>4, <3>1, <3>2, <3>3, CameraAssumption DEF LinkInv, SyncHeld, Closers, ClosingPcs
    <3>4. CASE t = "monitor"
      BY <2>1, <2>2, <2>4, <3>1, <3>4, CameraAssumption DEF LinkInv, SyncHeld, Closers, ClosingPcs
    <3>5. QED
      BY <3>3, <3>4 DEF Closers
  <2>6. link[l].native = "there"
    BY <2>4 DEF LinkInv, Owned, Closers
  <2>7. Owned' /\ OneHand'
    BY <2>2, <2>4 DEF LinkInv, Owned, OneHand, Closers
  <2>8. Listed'
    <3>1. api = "null" \/ l \notin listed'
      BY <2>1, <2>2 DEF LinkInv, Listed
    <3>2. \A u \in Closers : InHand(u)' = InHand(u)
      BY <2>4
    <3>3. QED
      BY <2>2, <2>4, <3>1 DEF LinkInv, Listed, Closers
  <2>9. NativeListed'
    <3>1. pc = "removed" => l \notin native'
      BY <2>1, <2>2, <2>6 DEF LinkInv, Stages
    <3>2. QED
      BY <2>1, <2>2, <2>4, <3>1 DEF LinkInv, NativeListed
  <2>10. QED
    BY <2>4, <2>5, <2>7, <2>8, <2>9 DEF LinkInv
<1>3. QED
  BY <1>1, <1>2

\* UsbDataLink.close, and the reading of the pointer.
LEMMA DisconnectLinks ==
  ASSUME TypeOK, PlacesOK, LinkInv, NEW t \in Closers, Disconnect(t) \/ Release(t)
  PROVE  LinkInv'
<1> USE DEF appVars, linkVars
<1> DEFINE l == closers[t].link
<1>1. /\ UNCHANGED <<tasks, state, ui, api, sync, listed, native>>
      /\ closers[t].pc \in {"disconnect", "release"} /\ closers[t].pc \in ClosingPcs
  BY DEF Disconnect, Release, ClosingPcs
<1>2. link[l].native = "there" /\ l \in Links
  BY <1>1 DEF LinkInv, Owned, InHand, PlacesOK, Closers
<1>3. PICK pc \in {"release", "delete"} : Goto(t, pc) /\ pc \in ClosingPcs
  BY <1>2 DEF Disconnect, Release, ClosingPcs
<1>4. /\ closers'[t].pc = pc /\ closers'[t].link = l
      /\ \A u \in Closers \ {t} : closers'[u] = closers[u]
      /\ \A u \in Closers : InHand(u)' = InHand(u)
      /\ ToList' = ToList /\ ToClose' = ToClose
      /\ Stages' /\ OneTask' /\ Queue'
  BY <1>1, <1>3, ClosingMoves
<1>5. \A k \in Links : link'[k].native = link[k].native
  <2>1. link \in [Links -> LinkType]
    BY DEF TypeOK
  <2>2. link' = [link EXCEPT ![l].connected = FALSE] \/ link' = link
    BY DEF Disconnect, Release
  <2>3. \A k \in Links : link[k] = [dev |-> link[k].dev, native |-> link[k].native,
                                    connected |-> link[k].connected]
    BY <2>1 DEF LinkType
  <2> HIDE DEF l
  <2>4. QED
    BY <1>2, <2>1, <2>2, <2>3
<1>6. SyncHeld'
  BY <1>1, <1>4 DEF LinkInv, SyncHeld, Closers, ClosingPcs
<1>7. Owned' /\ OneHand'
  BY <1>4, <1>5, <1>1, HandsAreLinks DEF LinkInv, Owned, OneHand, Closers
<1>8. Listed' /\ NativeListed'
  <2>1. listed \subseteq Links /\ native \subseteq Links
    BY DEF TypeOK
  <2>2. (ToClose \cup InHand("worker"))' = ToClose \cup InHand("worker")
    BY <1>4 DEF Closers
  <2>3. QED
    BY <1>1, <1>4, <1>5, <2>1, <2>2 DEF LinkInv, Listed, NativeListed
<1>9. QED
  BY <1>4, <1>6, <1>7, <1>8 DEF LinkInv

\* NativeObject.release: nobody else has the link.
LEMMA DeleteLinks ==
  ASSUME TypeOK, PlacesOK, LinkInv, NEW t \in Closers, Delete(t)
  PROVE  LinkInv'
<1> USE DEF appVars, linkVars
<1> DEFINE l == closers[t].link
<1>1. /\ UNCHANGED <<tasks, state, ui, api, sync, listed, native>>
      /\ closers[t].pc = "delete" /\ closers[t].pc \in ClosingPcs
  BY DEF Delete, ClosingPcs
<1>2. link[l].native = "there" /\ l \in Links /\ l \in InHand(t)
  BY <1>1 DEF LinkInv, Owned, InHand, PlacesOK, Closers
<1>3. Goto(t, "released") /\ link' = [link EXCEPT ![l].native = "deleted"]
  BY <1>2 DEF Delete
<1>4. /\ closers'[t].pc = "released" /\ closers'[t].link = l
      /\ \A u \in Closers \ {t} : closers'[u] = closers[u]
      /\ InHand(t)' = {}
      /\ \A u \in Closers \ {t} : InHand(u)' = InHand(u) /\ l \notin InHand(u)
      /\ l \notin ToList \cup ToClose
      /\ ToList' = ToList /\ ToClose' = ToClose
      /\ Stages' /\ OneTask' /\ Queue'
  BY <1>1, <1>3, ClosingMoves
<1>5. \A k \in Links : link'[k].native = IF k = l THEN "deleted" ELSE link[k].native
  BY <1>2, <1>3 DEF TypeOK, LinkType
<1>6. \A u \in Closers : InHand(u)' \subseteq InHand(u) /\ l \notin InHand(u)'
  BY <1>4
<1>7. l \notin native /\ (api = "null" \/ l \notin listed)
  BY <1>1 DEF LinkInv, Listed, NativeListed
<1> HIDE DEF l
<1>8. SyncHeld'
  BY <1>1, <1>4 DEF LinkInv, SyncHeld, Closers, ClosingPcs
<1>9. OneHand'
  BY <1>1, <1>4, <1>6 DEF LinkInv, OneHand, Closers
<1>10. Owned'
  BY <1>4, <1>5, <1>6, HandsAreLinks DEF LinkInv, Owned, Closers
<1>11. Listed'
  <2>1. listed \subseteq Links
    BY DEF TypeOK
  <2>2. InHand("worker")' \subseteq InHand("worker")
    BY <1>6 DEF Closers
  <2>3. QED
    BY <1>1, <1>4, <1>5, <1>7, <2>1, <2>2 DEF LinkInv, Listed
<1>12. NativeListed'
  <2>1. native \subseteq Links
    BY DEF TypeOK
  <2>2. QED
    BY <1>1, <1>4, <1>5, <1>7, <2>1 DEF LinkInv, NativeListed
<1>13. QED
  BY <1>4, <1>8, <1>9, <1>10, <1>11, <1>12 DEF LinkInv

\* The monitor thread gives mSync up.
LEMMA ReleasedMonitorLinks ==
  ASSUME TypeOK, PlacesOK, LinkInv, ReleasedMonitor
  PROVE  LinkInv'
<1> USE DEF appVars, linkVars
<1>1. UNCHANGED <<tasks, link, listed, native, api, state, ui>> /\ closers["monitor"].pc = "released"
  BY DEF ReleasedMonitor
<1>2. CASE UNCHANGED <<closers, sync>>
  BY <1>1, <1>2, SameLinks DEF Live
<1>3. CASE ~UNCHANGED <<closers, sync>>
  <2>1. Moves("monitor", "idle", None, {}) /\ sync' = None
    BY <1>3, RestMoves DEF ReleasedMonitor, Closers
  <2>2. closers'["worker"] = closers["worker"] /\ closers'["monitor"].pc = "idle"
    BY <2>1 DEF Moves, Closers
  <2>3. UNCHANGED <<TasksOf("OPEN"), TasksOf("CLOSE"), TasksOf("TRYOPEN"), ToList, ToClose,
                    InHand("worker")>> /\ InHand("monitor")' = {}
    BY <1>1, <2>2 DEF TasksOf, ToList, ToClose, InHand, ClosingPcs
  <2>4. SyncHeld'
    BY <1>1, <2>2, CameraAssumption DEF LinkInv, SyncHeld, ClosingPcs
  <2>5. Stages' /\ OneTask'
    BY <1>1, <2>2, <2>3 DEF LinkInv, Stages, OneTask, Live
  <2>6. Queue'
    BY <1>1, <2>2, <2>3 DEF LinkInv, Queue, Live
  <2>7. Owned' /\ OneHand'
    BY <1>1, <2>3 DEF LinkInv, Owned, OneHand
  <2>8. Listed' /\ NativeListed'
    BY <1>1, <2>2, <2>3 DEF LinkInv, Listed, NativeListed, Closers
  <2>9. QED
    BY <2>4, <2>5, <2>6, <2>7, <2>8 DEF LinkInv
<1>4. QED
  BY <1>2, <1>3

LEMMA ClosingLinks ==
  ASSUME TypeOK, PlacesOK, LinkInv, Closing
  PROVE  LinkInv'
  BY RemoveLinks, DisconnectLinks, DeleteLinks, ReleasedMonitorLinks DEF Closing

\* close(false): every link that is listed goes to the worker.
LEMMA DestroyCloseLinks ==
  ASSUME TypeOK, PlacesOK, LinkInv, DestroyClose
  PROVE  LinkInv'
<1> USE DEF linkVars
<1>1. /\ UNCHANGED <<closers, link, listed, native, api, sync>>
      /\ sync = None /\ ui.pc = "close" /\ ui'.pc = "release" /\ Live /\ ~Live'
  BY DEF DestroyClose, UiGoto, TypeOK, UiType, Live, Using
<1>2. ApiAt(ui'.pc) = "up" /\ api = "up"
  BY <1>1 DEF ApiAt, LinkInv, Stages
<1>3. CASE listed = {}
  <2>1. UNCHANGED <<tasks, state>>
    BY <1>3 DEF DestroyClose
  <2>2. ApiAt(ui.pc) = "up"
    BY <1>1 DEF ApiAt
  <2>3. QED
    BY <1>1, <1>2, <2>1, <2>2, SameLinks
<1>4. CASE listed # {}
  <2> DEFINE task == Task("CLOSE", None, listed)
  <2>1. /\ state' = "NON" /\ QueueEvent(task) /\ task \in TaskType
        /\ task.kind = "CLOSE" /\ task.links = listed
    BY <1>4, TaskTypes DEF DestroyClose, Task, TypeOK
  <2> HIDE DEF task
  <2>2. /\ TasksOf("CLOSE") = {} /\ closers["worker"].pc \notin ListPcs /\ TasksOf("TRYOPEN") = {}
    BY <1>1, <1>4 DEF LinkInv, Stages, Queue
  <2>3. /\ \A i \in TasksOf("OPEN")' : i \in TasksOf("OPEN") /\ tasks'[i] = tasks[i]
        /\ TasksOf("TRYOPEN")' = {}
        /\ \A i \in TasksOf("CLOSE")' :
             tasks'[i].links = listed /\ \A j \in DOMAIN tasks' : j # i => j \in DOMAIN tasks
    BY <2>1, <2>2, QueueEventOf
  <2>4. \A i, j \in TasksOf("CLOSE")' : i = j
    <3>1. \A i \in TasksOf("CLOSE")' : i \in DOMAIN tasks' /\ tasks'[i].kind = "CLOSE"
      BY DEF TasksOf
    <3>2. \A i \in DOMAIN tasks : tasks'[i] = tasks[i] /\ tasks[i].kind # "CLOSE"
      BY <2>1, <2>2, QueueEventTasks DEF TasksOf
    <3>3. QED
      BY <2>3, <3>1, <3>2
  <2>5. /\ ToList' \subseteq ToList /\ ToClose' \subseteq listed
        /\ InHand("worker")' = InHand("worker") /\ InHand("worker") = {}
        /\ InHand("monitor")' = InHand("monitor") /\ InHand("monitor") = {}
    <3>1. ToList' \subseteq ToList
      BY <1>1, <2>3 DEF ToList
    <3>2. ToClose' \subseteq listed
      BY <1>1, <2>2, <2>3 DEF ToClose
    <3>3. InHand("worker") = {}
      BY <2>2 DEF InHand, ListPcs
    <3>4. InHand("monitor") = {}
      BY <1>1, CameraAssumption DEF InHand, LinkInv, SyncHeld
    <3>5. InHand("worker")' = InHand("worker") /\ InHand("monitor")' = InHand("monitor")
      BY <1>1 DEF InHand
    <3>6. QED
      BY <3>1, <3>2, <3>3, <3>4, <3>5
  <2>6. Stages'
    BY <1>1, <1>2 DEF Stages
  <2>7. Queue'
    BY <1>1, <2>2, <2>3, <2>4 DEF Queue
  <2>8. SyncHeld' /\ OneTask'
    BY <1>1, <2>3 DEF LinkInv, SyncHeld, OneTask
  <2>9. Owned' /\ OneHand'
    BY <1>1, <1>2, <2>5 DEF LinkInv, Owned, OneHand, Listed
  <2>10. Listed' /\ NativeListed'
    BY <1>1, <2>1 DEF LinkInv, Listed, NativeListed
  <2>11. QED
    BY <2>6, <2>7, <2>8, <2>9, <2>10 DEF LinkInv
<1>5. QED
  BY <1>3, <1>4

\* The rest of onDestroy: the API goes, then the tasks.
LEMMA DestroyLinks ==
  ASSUME TypeOK, PlacesOK, LinkInv,
         DestroyRelease \/ DestroyNull \/ DestroyMonitor \/ DestroyHandler
  PROVE  LinkInv'
<1> USE DEF linkVars
<1>1. /\ UNCHANGED <<closers, link, listed, sync, state>> /\ native' \subseteq native
      /\ ~Live /\ ~Live' /\ api' = ApiAt(ui'.pc) /\ (api' # "up" => native' = {})
      /\ api = "null" => api' = "null"
      /\ tasks' = tasks \/ tasks' = <<>>
  <2>1. UNCHANGED <<closers, link, listed, sync, state>> /\ (tasks' = tasks \/ tasks' = <<>>)
    BY DEF DestroyRelease, DestroyNull, DestroyMonitor, DestroyHandler
  <2>2. api = ApiAt(ui.pc) /\ (api # "up" => native = {})
    BY DEF LinkInv, Stages
  <2>3. /\ DestroyRelease => ui.pc = "release" /\ ui'.pc = "null" /\ api' = "destroyed" /\ native' = {}
        /\ DestroyNull => ui.pc = "null" /\ ui'.pc = "monitor" /\ api' = "null" /\ native' = native
        /\ DestroyMonitor => ui.pc = "monitor" /\ ui'.pc = "quit" /\ api' = api /\ native' = native
        /\ DestroyHandler => ui.pc = "quit" /\ ui'.pc = "gone" /\ api' = api /\ native' = native
    BY DEF DestroyRelease, DestroyNull, DestroyMonitor, DestroyHandler, UiGoto, TypeOK, UiType
  <2>4. QED
    BY <2>1, <2>2, <2>3 DEF ApiAt, Live, Using
<1>2. \A kind : \A i \in TasksOf(kind)' : i \in TasksOf(kind) /\ tasks'[i] = tasks[i]
  BY <1>1 DEF TasksOf
<1>3. /\ ToList' \subseteq ToList /\ ToClose' \subseteq ToClose
      /\ InHand("worker")' = InHand("worker") /\ InHand("monitor")' = InHand("monitor")
  BY <1>1, <1>2 DEF ToList, ToClose, InHand
<1>4. Stages' /\ SyncHeld' /\ OneTask'
  BY <1>1, <1>2 DEF LinkInv, Stages, SyncHeld, OneTask
<1>5. Queue'
  BY <1>1, <1>2 DEF LinkInv, Queue
<1>6. Owned' /\ OneHand'
  BY <1>1, <1>3 DEF LinkInv, Owned, OneHand
<1>7. Listed' /\ NativeListed'
  BY <1>1, <1>3 DEF LinkInv, Listed, NativeListed
<1>8. QED
  BY <1>4, <1>5, <1>6, <1>7 DEF LinkInv

LEMMA UiThreadLinks ==
  ASSUME TypeOK, PlacesOK, LinkInv, UiThread
  PROVE  LinkInv'
<1>1. CASE Compute \/ Reset \/ ResetLink \/ ResetWritten \/ FinishApp \/ Leave
  <2>1. UNCHANGED <<tasks, closers, link, listed, native, api, sync, state>>
    BY <1>1 DEF Compute, Reset, ResetLink, ResetWritten, FinishApp, Leave, linkVars
  <2>2. ui.pc \in Using
    BY <1>1 DEF Compute, Reset, ResetLink, ResetWritten, FinishApp, Leave, Using
  <2>3. ui'.pc \in Using \cup {"close"}
    BY <1>1, <2>2 DEF Compute, Reset, ResetLink, ResetWritten, FinishApp, Leave, UiGoto, Crash,
         Using, Rest, TypeOK, UiType
  <2>4. ApiAt(ui'.pc) = ApiAt(ui.pc) /\ Live
    BY <2>2, <2>3 DEF ApiAt, Using, Live
  <2>5. QED
    BY <2>1, <2>4, SameLinks
<1>2. QED
  BY <1>1, DestroyCloseLinks, DestroyLinks DEF UiThread

LEMMA ElsewhereLinks ==
  ASSUME TypeOK, PlacesOK, LinkInv, Usb \/ Executor \/ UNCHANGED vars
  PROVE  LinkInv'
<1>1. UNCHANGED <<tasks, closers, link, listed, native, api, sync, state, ui>>
  BY DEF Usb, Choose, Plug, Unplug, Forget, Executor, RunBegin, RunUse, RunUsed, RunEnd, vars,
         usbVars, appVars, linkVars
<1>2. QED
  BY <1>1, SameLinks DEF Live

\* Every data link is released in order and once, also while the activity is
\* destroyed: NativeObject.release, which has no lock, never deletes a link twice,
\* and MvNcApi lists none that is deleted (LinkReleased). The argument is who has
\* a link in hand: mSync keeps onDisconnect and the task of onDestroy apart
\* until the list is handed over, and CAMERA_NON afterwards.
THEOREM LinksReleasedOnce == Spec => []LinkReleased
<1>1. Init => IInv
  BY InitType, InitPlaces, InitOneOpen, InitLinks DEF IInv
<1>2. IInv /\ [Next]_vars => IInv'
  <2>1. TypeOK /\ PlacesOK /\ [Next]_vars => (TypeOK /\ PlacesOK)'
    BY StepType
  <2>2. TypeOK /\ PlacesOK /\ OneOpen /\ [Next]_vars => OneOpen'
    BY StepOneOpen
  <2>3. TypeOK /\ PlacesOK /\ OneOpen /\ LinkInv /\ [Next]_vars => LinkInv'
    BY ListenerLinks, WorkerLinks, ClosingLinks, UiThreadLinks, ElsewhereLinks DEF Next
  <2>4. QED
    BY <2>1, <2>2, <2>3 DEF IInv
<1>3. IInv => LinkReleased
  BY DEF IInv, LinkInv, LinkReleased, ListedIsThere, DeletedOnce, NativeListed, Owned, InHand,
         ClosingPcs, Closers
<1>4. QED
  BY <1>1, <1>2, <1>3, PTL DEF Spec
=============================================================================
