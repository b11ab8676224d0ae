------------------------------- MODULE CameraApp -------------------------------
(***************************************************************************)
(* The application (MainActivity.java) with the Java objects and the JNI   *)
(* functions below it (MvNcAPI, NativeObject, UsbDataLink and their native *)
(* halves): the threads of the USB monitor, of the worker's Handler, of    *)
(* the user interface and of the executor, the camera state under mSync,   *)
(* the data links from onConnect to their release, and onDestroy.          *)
(*                                                                         *)
(* A use of a deleted native object and an exception nobody catches end    *)
(* the process. What a run does with the sticks is in MvNcApi.             *)
(***************************************************************************)
EXTENDS Naturals, Sequences, FiniteSets

CONSTANTS
  Devices,    \* USB devices as they are enumerated
  Booted,     \* those with the product id of a booted stick
  Links,      \* UsbDataLink objects: the bound on the links that are created
  MaxPlugs,   \* bound on the times that a device is plugged in
  None

ASSUME CameraAssumption ==
  /\ IsFiniteSet(Devices) /\ Booted \subseteq Devices /\ MaxPlugs \in Nat
  /\ None \notin Devices /\ None \notin Links /\ None \notin {"monitor", "worker"}

VARIABLES
  usb,       \* a device: out, arrived (not yet told), in, left (not yet told)
  plugs,     \* the times that a device was plugged in
  asked,     \* the devices whose permission is requested
  dialog,    \* the camera dialog is shown
  opened,    \* the devices with a control block at the USB monitor
  sync,      \* mSync: the thread that holds it across its steps
  state,     \* mCameraState: NON, TRYOPEN, INITIALIZING
  tasks,     \* the messages of mAsyncHandler
  closers,   \* the monitor thread and the worker: [pc, link, rest]
  ui,        \* the UI thread: [pc, link, rest]
  finish,    \* mFinishAppTask is posted
  run,       \* the executor: [pc, link]
  link,      \* a data link: [dev, native, connected]
  listed,    \* MvNcAPI.mDataLinks
  native,    \* MvNcApi::devices
  api,       \* mMvNcAPI: up, destroyed (mNativePtr is 0), null
  handler,   \* mAsyncHandler is there
  monitor,   \* mUSBMonitor is there
  alive      \* the process has not ended

usbVars == <<usb, plugs, asked, dialog, opened>>
linkVars == <<link, listed, native, api>>
appVars == <<ui, finish, run, handler, monitor>>
vars == <<usbVars, sync, state, tasks, closers, appVars, linkVars, alive>>

Closers == {"monitor", "worker"}
Rest == [pc |-> "idle", link |-> None, rest |-> {}]

Goto(t, pc) == closers' = [closers EXCEPT ![t].pc = pc]
Crash == alive' = FALSE

\* The devices that getDeviceList returns.
Present == {d \in Devices : usb[d] \in {"arrived", "in"}}

\* queueEvent: nothing is posted when the handler is gone; every caller makes a
\* new Runnable, so that none replaces an earlier one.
QueueEvent(task) == tasks' = IF handler THEN Append(tasks, task) ELSE tasks

Task(kind, l, ls) == [kind |-> kind, link |-> l, links |-> ls]

-----------------------------------------------------------------------------
(* The sticks, the user and the USB monitor, which are not part of the       *)
(* program. The monitor calls back on a thread of its own, one call at a     *)
(* time, and no more once it is destroyed.                                   *)

Plug(d) ==
  /\ alive /\ usb[d] = "out" /\ plugs < MaxPlugs
  /\ usb' = [usb EXCEPT ![d] = "arrived"] /\ plugs' = plugs + 1
  /\ UNCHANGED <<asked, dialog, opened, sync, state, tasks, closers, appVars, linkVars, alive>>

Unplug(d) ==
  /\ alive /\ usb[d] = "in"
  /\ usb' = [usb EXCEPT ![d] = "left"]
  /\ UNCHANGED <<plugs, asked, dialog, opened, sync, state, tasks, closers, appVars,
                 linkVars, alive>>

\* A device is chosen in the dialog, or none.
Choose ==
  /\ alive /\ dialog
  /\ dialog' = FALSE
  /\ asked' \in {asked} \cup {asked \cup {d} : d \in Present}
  /\ UNCHANGED <<usb, plugs, opened, sync, state, tasks, closers, appVars, linkVars, alive>>

\* The device of a request is gone, and its answer with it.
Forget(d) ==
  /\ alive /\ d \in asked /\ d \notin Present
  /\ asked' = asked \ {d}
  /\ UNCHANGED <<usb, plugs, dialog, opened, sync, state, tasks, closers, appVars, linkVars,
                 alive>>

\* The monitor is free to call back.
Callback == alive /\ monitor /\ closers["monitor"].pc = "idle"

-----------------------------------------------------------------------------
(* mOnDeviceConnectListener.                                                 *)

\* onAttach; tryOpenDevice asks whether the monitor is registered, which it is
\* when it calls back.
OnAttach(d) ==
  /\ Callback /\ usb[d] = "arrived" /\ sync = None
  /\ usb' = [usb EXCEPT ![d] = "in"]
  /\ IF ~dialog /\ state = "NON" THEN QueueEvent(Task("TRYOPEN", None, {}))
     ELSE UNCHANGED tasks
  /\ UNCHANGED <<plugs, asked, dialog, opened, sync, state, closers, appVars, linkVars, alive>>

\* onConnect: the section under mSync.
OnConnect(d) ==
  /\ Callback /\ d \in asked /\ usb[d] = "in" /\ sync = None
  /\ asked' = asked \ {d} /\ opened' = opened \cup {d}
  /\ IF state = "TRYOPEN"
     THEN /\ state' = "INITIALIZING"
          /\ closers' = [closers EXCEPT !["monitor"] = [Rest EXCEPT !.pc = "new", !.rest = {d}]]
     ELSE UNCHANGED <<state, closers>>
  /\ UNCHANGED <<usb, plugs, dialog, sync, tasks, appVars, linkVars, alive>>

\* The link is constructed and its opening is queued.
OnConnectQueue(l) ==
  /\ alive /\ closers["monitor"].pc = "new" /\ link[l].native = "none"
  /\ \E d \in closers["monitor"].rest :
       link' = [link EXCEPT ![l] = [dev |-> d, native |-> "there", connected |-> FALSE]]
  /\ QueueEvent(Task("OPEN", l, {}))
  /\ closers' = [closers EXCEPT !["monitor"] = Rest]
  /\ UNCHANGED <<usbVars, sync, state, appVars, listed, native, api, alive>>

\* The constructor throws.
OnConnectFailed ==
  /\ alive /\ closers["monitor"].pc = "new" /\ sync = None
  /\ state' = "NON"
  /\ closers' = [closers EXCEPT !["monitor"] = Rest]
  /\ UNCHANGED <<usbVars, sync, tasks, appVars, linkVars, alive>>

\* getDatalink under mSync, which is left to a holder while the link is closed.
DisconnectHeld(d, holder) ==
  /\ Callback /\ usb[d] = "left" /\ d \in opened /\ sync = None
  /\ opened' = opened \ {d}
  /\ LET found == {l \in listed : link[l].dev = d} IN
       IF state = "NON" THEN UNCHANGED <<sync, closers, alive>>
       ELSE IF api = "null" THEN Crash /\ UNCHANGED <<sync, closers>>
       ELSE IF found = {} THEN UNCHANGED <<sync, closers, alive>>
       ELSE /\ \E l \in found :
                 closers' = [closers EXCEPT !["monitor"] =
                               [Rest EXCEPT !.pc = "remove", !.link = l]]
            /\ sync' = holder
            /\ UNCHANGED alive
  /\ UNCHANGED <<usb, plugs, asked, dialog, state, tasks, appVars, linkVars>>

\* Mutant of OnDisconnect: mSync is given up before the link is closed.
OnDisconnectReleased(d) == DisconnectHeld(d, None)

\* onDisconnect: mSync is kept until the link is closed.
OnDisconnect(d) == DisconnectHeld(d, "monitor")

\* onDettach: messages only.
OnDettach(d) ==
  /\ Callback /\ usb[d] = "left" /\ d \notin opened
  /\ usb' = [usb EXCEPT ![d] = "out"]
  /\ UNCHANGED <<plugs, asked, dialog, opened, sync, state, tasks, closers, appVars, linkVars,
                 alive>>

\* onCancel: the permission is refused.
OnCancel(d) ==
  /\ Callback /\ d \in asked /\ sync = None
  /\ asked' = asked \ {d}
  /\ state' = "NON"
  /\ UNCHANGED <<usb, plugs, dialog, opened, sync, tasks, closers, appVars, linkVars, alive>>

-----------------------------------------------------------------------------
(* The worker's tasks.                                                       *)

\* The worker begins its next task.
Take(kind) ==
  /\ alive /\ handler /\ closers["worker"].pc = "idle"
  /\ tasks # <<>> /\ Head(tasks).kind = kind
  /\ tasks' = Tail(tasks)

\* One device is asked for at once (the request fails when there is no USB
\* host), several are shown in the dialog.
Ask ==
  CASE Cardinality(Present) = 1 ->
         /\ state' = "TRYOPEN"
         /\ asked' \in {asked, asked \cup Present}
         /\ UNCHANGED dialog
    [] Cardinality(Present) > 1 ->
         /\ state' = "TRYOPEN" /\ dialog' = TRUE
         /\ UNCHANGED asked
    [] OTHER -> UNCHANGED <<state, asked, dialog>>

\* Mutant of HandleTryOpen: onAttach has seen that nothing is open.
HandleTryOpenUnchecked ==
  /\ Take("TRYOPEN") /\ sync = None /\ monitor /\ Ask
  /\ UNCHANGED <<usb, plugs, opened, sync, closers, appVars, linkVars, alive>>

\* handleTryOpen.
HandleTryOpen ==
  /\ Take("TRYOPEN") /\ sync = None
  /\ IF state # "NON" THEN UNCHANGED <<state, asked, dialog, alive>>
     ELSE IF ~monitor THEN Crash /\ UNCHANGED <<state, asked, dialog>>
     ELSE Ask /\ UNCHANGED alive
  /\ UNCHANGED <<usb, plugs, opened, sync, closers, appVars, linkVars>>

TakeOpen ==
  /\ Take("OPEN")
  /\ closers' = [closers EXCEPT !["worker"] =
                   [Rest EXCEPT !.pc = "open", !.link = Head(tasks).link]]
  /\ UNCHANGED <<usbVars, sync, state, appVars, linkVars, alive>>

\* UsbDataLink.open: a booted stick is connected; to another the firmware is
\* written, after which the link counts as open. An exception ends the task.
Open ==
  LET l == closers["worker"].link
      d == link[l].dev IN
  /\ alive /\ closers["worker"].pc = "open"
  /\ \/ link' = [link EXCEPT ![l].connected = d \in Booted] /\ Goto("worker", "add")
     \/ Goto("worker", "idle") /\ UNCHANGED link
  /\ UNCHANGED <<usbVars, sync, state, tasks, appVars, listed, native, api, alive>>

\* MvNcAPI.add: the pointers are there; it throws otherwise.
Add ==
  /\ alive /\ closers["worker"].pc = "add"
  /\ Goto("worker", IF api = "up" /\ link[closers["worker"].link].native = "there"
                    THEN "nativeAdd" ELSE "idle")
  /\ UNCHANGED <<usbVars, sync, state, tasks, appVars, linkVars, alive>>

NativeAdd ==
  /\ alive /\ closers["worker"].pc = "nativeAdd"
  /\ IF api = "up"
     THEN /\ native' = native \cup {closers["worker"].link}
          /\ Goto("worker", "listAdd") /\ UNCHANGED alive
     ELSE Crash /\ UNCHANGED <<native, closers>>
  /\ UNCHANGED <<usbVars, sync, state, tasks, appVars, link, listed, api>>

ListAdd ==
  /\ alive /\ closers["worker"].pc = "listAdd"
  /\ listed' = listed \cup {closers["worker"].link}
  /\ closers' = [closers EXCEPT !["worker"] = Rest]
  /\ UNCHANGED <<usbVars, sync, state, tasks, appVars, link, native, api, alive>>

TakeClose ==
  /\ Take("CLOSE")
  /\ closers' = [closers EXCEPT !["worker"] =
                   [Rest EXCEPT !.pc = "next", !.rest = Head(tasks).links]]
  /\ UNCHANGED <<usbVars, sync, state, appVars, linkVars, alive>>

\* The next link of the list, removed under mSync unless the API is gone.
CloseNext ==
  /\ alive /\ closers["worker"].pc = "next" /\ sync = None
  /\ IF closers["worker"].rest = {}
     THEN closers' = [closers EXCEPT !["worker"] = Rest] /\ UNCHANGED sync
     ELSE /\ \E l \in closers["worker"].rest :
               closers' = [closers EXCEPT !["worker"].link = l, !["worker"].rest = @ \ {l},
                             !["worker"].pc = IF api = "null" THEN "disconnect" ELSE "remove"]
          /\ sync' = IF api = "null" THEN None ELSE "worker"
  /\ UNCHANGED <<usbVars, state, tasks, appVars, linkVars, alive>>

-----------------------------------------------------------------------------
(* The closing of a link by the monitor thread or by the worker:             *)
(* MvNcAPI.remove, then UsbDataLink.release.                                 *)

\* mMvNcAPI is read again; mDataLinks.remove, and the pointers are read.
Remove(t) ==
  /\ alive /\ closers[t].pc = "remove"
  /\ IF api = "null" THEN Crash /\ UNCHANGED <<listed, closers>>
     ELSE /\ listed' = listed \ {closers[t].link}
          /\ Goto(t, IF api = "up" /\ link[closers[t].link].native = "there"
                     THEN "nativeRemove" ELSE "removed")
          /\ UNCHANGED alive
  /\ UNCHANGED <<usbVars, sync, state, tasks, appVars, link, native, api>>

\* Mutant of NativeRemove: the native list keeps the link.
NativeRemoveKept(t) ==
  /\ alive /\ closers[t].pc = "nativeRemove"
  /\ Goto(t, "removed")
  /\ UNCHANGED <<usbVars, sync, state, tasks, appVars, linkVars, alive>>

\* MvNcApi::remove.
NativeRemove(t) ==
  /\ alive /\ closers[t].pc = "nativeRemove"
  /\ IF api = "up"
     THEN native' = native \ {closers[t].link} /\ Goto(t, "removed") /\ UNCHANGED alive
     ELSE Crash /\ UNCHANGED <<native, closers>>
  /\ UNCHANGED <<usbVars, sync, state, tasks, appVars, link, listed, api>>

\* The worker gives mSync up before the release; onDisconnect keeps it.
Removed(t) ==
  /\ alive /\ closers[t].pc = "removed"
  /\ sync' = IF t = "worker" THEN None ELSE sync
  /\ Goto(t, "disconnect")
  /\ UNCHANGED <<usbVars, state, tasks, appVars, linkVars, alive>>

\* UsbDataLink.close, which like reset is synchronized.
Disconnect(t) ==
  /\ alive /\ closers[t].pc = "disconnect"
  /\ ~(ui.pc = "write" /\ ui.link = closers[t].link)
  /\ link' = [link EXCEPT ![closers[t].link].connected = FALSE]
  /\ Goto(t, "release")
  /\ UNCHANGED <<usbVars, sync, state, tasks, appVars, listed, native, api, alive>>

\* NativeObject.release reads the pointer ...
Release(t) ==
  /\ alive /\ closers[t].pc = "release"
  /\ Goto(t, IF link[closers[t].link].native = "there" THEN "delete" ELSE "released")
  /\ UNCHANGED <<usbVars, sync, state, tasks, appVars, linkVars, alive>>

\* ... and deletes the object, without a lock.
Delete(t) ==
  /\ alive /\ closers[t].pc = "delete"
  /\ IF link[closers[t].link].native = "there"
     THEN /\ link' = [link EXCEPT ![closers[t].link].native = "deleted"]
          /\ Goto(t, "released") /\ UNCHANGED alive
     ELSE Crash /\ UNCHANGED <<link, closers>>
  /\ UNCHANGED <<usbVars, sync, state, tasks, appVars, listed, native, api>>

\* The worker goes on with its list.
ReleasedWorker ==
  /\ alive /\ closers["worker"].pc = "released"
  /\ Goto("worker", "next")
  /\ UNCHANGED <<usbVars, sync, state, tasks, appVars, linkVars, alive>>

\* The end of close(dataLink): finishApp when no link is left.
ReleasedMonitor ==
  /\ alive /\ closers["monitor"].pc = "released"
  /\ IF api = "null" THEN Crash /\ UNCHANGED <<finish, closers, sync>>
     ELSE /\ finish' = (finish \/ listed = {})
          /\ closers' = [closers EXCEPT !["monitor"] = Rest]
          /\ sync' = None /\ UNCHANGED alive
  /\ UNCHANGED <<usbVars, state, tasks, ui, run, handler, monitor, linkVars>>

-----------------------------------------------------------------------------
(* The UI thread: the buttons, the finish task and onDestroy.                *)

UiGoto(pc) == ui' = [ui EXCEPT !.pc = pc]

\* compute: one task at a time runs, on the executor's core thread.
Compute ==
  /\ alive /\ ui.pc = "up" /\ run.pc = "idle"
  /\ run' = [run EXCEPT !.pc = "queued"]
  /\ UNCHANGED <<usbVars, sync, state, tasks, closers, ui, finish, handler, monitor, linkVars,
                 alive>>

\* reset: resetAll over the links that are listed now.
Reset ==
  /\ alive /\ ui.pc = "up" /\ listed # {}
  /\ ui' = [Rest EXCEPT !.pc = "reset", !.rest = listed]
  /\ UNCHANGED <<usbVars, sync, state, tasks, closers, finish, run, handler, monitor, linkVars,
                 alive>>

\* UsbDataLink.reset throws when the link is released or not connected, and
\* nobody catches it.
ResetLink ==
  /\ alive /\ ui.pc = "reset"
  /\ IF ui.rest = {} THEN ui' = [Rest EXCEPT !.pc = "up"] /\ UNCHANGED alive
     ELSE \E l \in ui.rest :
            IF link[l].native = "there" /\ link[l].connected
            THEN /\ ui' = [ui EXCEPT !.pc = "write", !.link = l, !.rest = @ \ {l}]
                 /\ UNCHANGED alive
            ELSE Crash /\ UNCHANGED ui
  /\ UNCHANGED <<usbVars, sync, state, tasks, closers, finish, run, handler, monitor, linkVars>>

\* The write of the reset request ends.
ResetWritten ==
  /\ alive /\ ui.pc = "write"
  /\ IF link[ui.link].native = "there" /\ link[ui.link].dev \in Present
     THEN UiGoto("reset") /\ UNCHANGED alive
     ELSE Crash /\ UNCHANGED ui
  /\ UNCHANGED <<usbVars, sync, state, tasks, closers, finish, run, handler, monitor, linkVars>>

\* mFinishAppTask.
FinishApp ==
  /\ alive /\ ui.pc = "up" /\ finish
  /\ finish' = FALSE
  /\ IF listed = {} THEN UiGoto("close") ELSE UNCHANGED ui
  /\ UNCHANGED <<usbVars, sync, state, tasks, closers, run, handler, monitor, linkVars, alive>>

\* The user leaves.
Leave ==
  /\ alive /\ ui.pc = "up"
  /\ UiGoto("close")
  /\ UNCHANGED <<usbVars, sync, state, tasks, closers, finish, run, handler, monitor, linkVars,
                 alive>>

\* onDestroy: close(false).
DestroyClose ==
  /\ alive /\ ui.pc = "close" /\ sync = None
  /\ IF listed # {}
     THEN state' = "NON" /\ QueueEvent(Task("CLOSE", None, listed))
     ELSE UNCHANGED <<state, tasks>>
  /\ UiGoto("release")
  /\ UNCHANGED <<usbVars, sync, closers, finish, run, handler, monitor, linkVars, alive>>

\* mMvNcAPI.release: the native object goes with its list.
DestroyRelease ==
  /\ alive /\ ui.pc = "release"
  /\ api' = "destroyed" /\ native' = {}
  /\ UiGoto("null")
  /\ UNCHANGED <<usbVars, sync, state, tasks, closers, finish, run, handler, monitor, link,
                 listed, alive>>

DestroyNull ==
  /\ alive /\ ui.pc = "null"
  /\ api' = "null"
  /\ UiGoto("monitor")
  /\ UNCHANGED <<usbVars, sync, state, tasks, closers, finish, run, handler, monitor, link,
                 listed, native, alive>>

DestroyMonitor ==
  /\ alive /\ ui.pc = "monitor"
  /\ monitor' = FALSE
  /\ UiGoto("quit")
  /\ UNCHANGED <<usbVars, sync, state, tasks, closers, finish, run, handler, linkVars, alive>>

\* removeCallbacksAndMessages and quit: the tasks not begun are not run.
DestroyHandler ==
  /\ alive /\ ui.pc = "quit"
  /\ handler' = FALSE /\ tasks' = <<>>
  /\ UiGoto("gone")
  /\ UNCHANGED <<usbVars, sync, state, closers, finish, run, monitor, linkVars, alive>>

-----------------------------------------------------------------------------
(* The executor: MvNcAPI.run.                                                *)

\* Nothing to run on: an exception, which is logged.
RunBegin ==
  /\ alive /\ run.pc = "queued"
  /\ run' = [run EXCEPT !.pc = IF api = "up" /\ native # {} THEN "running" ELSE "idle"]
  /\ UNCHANGED <<usbVars, sync, state, tasks, closers, ui, finish, handler, monitor, linkVars,
                 alive>>

\* The run takes a device of the native list.
RunUse ==
  /\ alive /\ run.pc = "running"
  /\ IF api # "up" THEN Crash /\ UNCHANGED run
     ELSE /\ \E l \in native : run' = [pc |-> "using", link |-> l]
          /\ UNCHANGED alive
  /\ UNCHANGED <<usbVars, sync, state, tasks, closers, ui, finish, handler, monitor, linkVars>>

\* Its exchange with the stick ends.
RunUsed ==
  /\ alive /\ run.pc = "using"
  /\ IF link[run.link].native = "there" THEN run' = [run EXCEPT !.pc = "running"] /\ UNCHANGED alive
     ELSE Crash /\ UNCHANGED run
  /\ UNCHANGED <<usbVars, sync, state, tasks, closers, ui, finish, handler, monitor, linkVars>>

RunEnd ==
  /\ alive /\ run.pc = "running"
  /\ run' = [pc |-> "idle", link |-> None]
  /\ UNCHANGED <<usbVars, sync, state, tasks, closers, ui, finish, handler, monitor, linkVars,
                 alive>>

-----------------------------------------------------------------------------
Init ==
  /\ usb = [d \in Devices |-> "out"] /\ plugs = 0
  /\ asked = {} /\ dialog = FALSE /\ opened = {}
  /\ sync = None /\ state = "NON" /\ tasks = <<>>
  /\ closers = [t \in Closers |-> Rest]
  /\ ui = [Rest EXCEPT !.pc = "up"] /\ finish = FALSE
  /\ run = [pc |-> "idle", link |-> None]
  /\ link = [l \in Links |-> [dev |-> None, native |-> "none", connected |-> FALSE]]
  /\ listed = {} /\ native = {} /\ api = "up"
  /\ handler = TRUE /\ monitor = TRUE /\ alive = TRUE

Usb == \/ Choose
       \/ \E d \in Devices : Plug(d) \/ Unplug(d) \/ Forget(d)
Listener == \/ \E d \in Devices : \/ OnAttach(d) \/ OnConnect(d) \/ OnDisconnect(d)
                                  \/ OnDettach(d) \/ OnCancel(d)
            \/ \E l \in Links : OnConnectQueue(l)
            \/ OnConnectFailed
Worker == \/ HandleTryOpen \/ TakeOpen \/ Open \/ Add \/ NativeAdd \/ ListAdd
          \/ TakeClose \/ CloseNext \/ ReleasedWorker
Closing == \/ \E t \in Closers : \/ Remove(t) \/ NativeRemove(t) \/ Removed(t)
                                 \/ Disconnect(t) \/ Release(t) \/ Delete(t)
           \/ ReleasedMonitor
UiThread == \/ Compute \/ Reset \/ ResetLink \/ ResetWritten \/ FinishApp \/ Leave
            \/ DestroyClose \/ DestroyRelease \/ DestroyNull \/ DestroyMonitor \/ DestroyHandler
Executor == RunBegin \/ RunUse \/ RunUsed \/ RunEnd

Next == Usb \/ Listener \/ Worker \/ Closing \/ UiThread \/ Executor

Spec == Init /\ [][Next]_vars

-----------------------------------------------------------------------------
(* Properties.                                                               *)

\* What is on the way to a link or has become one: requests, the dialog, a link
\* that onConnect constructs, an opening, and the links that are listed.
Openings ==
  {<<"asked", d>> : d \in asked}
    \cup {<<"dialog", None>> : x \in {y \in {1} : dialog}}
    \cup {<<"new", d>> : d \in IF closers["monitor"].pc = "new" THEN closers["monitor"].rest ELSE {}}
    \cup {<<"link", tasks[i].link>> : i \in {j \in DOMAIN tasks : tasks[j].kind = "OPEN"}}
    \cup {<<"link", closers["worker"].link>> :
            x \in {y \in {1} : closers["worker"].pc \in {"open", "add", "nativeAdd", "listAdd"}}}
    \cup {<<"link", l>> : l \in listed \cup native}

\* As long as the activity lives, the application opens one stick at a time, and
\* none is being opened or listed when the camera state is CAMERA_NON: the test
\* of onAttach, which is out of date when the queued handleTryOpen runs, is
\* repeated there, and onCancel resets the state only of a request.
OneOpening ==
  ui.pc \in {"up", "reset", "write"} =>
    Cardinality(Openings) <= (IF state = "NON" THEN 0 ELSE 1)

\* A data link that the native API lists has a native object: it leaves the list
\* before it is deleted, in onDisconnect and in the task of onDestroy alike.
ListedIsThere == \A l \in native : link[l].native = "there"

\* NativeObject.release, which has no lock, deletes an object that is there:
\* onDisconnect and the task of onDestroy never close the same link, because the
\* one holds mSync until it is done and the other sets the state that makes the
\* first return.
DeletedOnce ==
  \A t \in Closers : closers[t].pc = "delete" => link[closers[t].link].native = "there"

\* A data link is released in order and once, also while the activity is destroyed.
LinkReleased == ListedIsThere /\ DeletedOnce
================================================================================
