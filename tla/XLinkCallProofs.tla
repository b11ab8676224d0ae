---------------------------- MODULE XLinkCallProofs ----------------------------
(***************************************************************************)
(* Theorems about the calls that wait for their event: that they return    *)
(* only after it was served, that the next call finds a slot, and that     *)
(* each response of the peer finds the request it answers. For every       *)
(* number of threads, slots and semaphores, whatever the peer requests and *)
(* whether or not the link fails.                                          *)
(***************************************************************************)
EXTENDS XLinkDispatcherProofs

-----------------------------------------------------------------------------
(* The life of the link during the first connection.                         *)

\* Until XLinkConnect has returned only its thread is inside a call, and its
\* ping, which a handler never blocks, is the only event. The link is gone
\* only after a reset, and the reader completes an event only of a link that
\* has failed: while the link serves, the scheduler alone completes events.
LinkAlive ==
  /\ \A t \in Threads : thr[t].type = "CONNECT" =>
       /\ thr[t].pc # "idle" /\ link \in {"NONE", "GONE"}
       /\ \A u \in Threads : thr[u].type = "CONNECT" => u = t
  /\ link = "GONE" => resetX
  /\ sched.pc \in {"join", "drain"} => resetX
  /\ link = "NONE" =>
       /\ \A t \in Threads : thr[t].pc # "idle" => thr[t].type = "CONNECT"
       /\ \A i \in Slots : lq[i].type = "PING" /\ lq[i].st \notin {"BLOCKED", "READY"}
  /\ Serving => reader.pc # "mark"

LinkInv == session <= 1 => LinkAlive

LEMMA ConnectIsNoRequest == "CONNECT" \notin LocalTypes
BY DispatcherAssumption DEF DispatcherAssumption, Outcomes

LEMMA LinkThread ==
  ASSUME TypeOK, BeforeFirst, LinkInv, NEW t \in Threads, Thread(t),
         session' <= 1
  PROVE  LinkAlive'
<1>1. CASE Connect(t)
  <2>1. /\ session = 0 /\ link = "NONE" /\ link' = link /\ resetX' = FALSE
        /\ \A i \in Slots : lq'[i].type = lq[i].type /\ lq'[i].st = "SERVED"
        /\ \A u \in Threads : thr[u].pc = "idle"
        /\ thr' = [thr EXCEPT ![t] = [IdleThread EXCEPT !.pc = "lock",
                                                        !.type = "CONNECT"]]
        /\ sched' = ToFetch("fetch") /\ reader' = [pc |-> "read", ev |-> None]
    BY <1>1, ConnectMoves
  <2>2. LinkAlive
    BY <2>1 DEF LinkInv
  <2>3. /\ thr'[t].pc = "lock" /\ thr'[t].type = "CONNECT"
        /\ \A u \in Threads : u # t => thr'[u] = thr[u]
    BY <2>1 DEF IdleThread, TypeOK, ThreadsOK
  <2>4. \A u \in Threads : u # t => thr'[u].type # "CONNECT" /\ thr'[u].pc = "idle"
    BY <2>1, <2>2, <2>3 DEF LinkAlive
  <2>5. sched'.pc = "fetch" /\ reader'.pc = "read"
    BY <2>1 DEF ToFetch
  <2>6. QED
    BY <2>1, <2>2, <2>3, <2>4, <2>5 DEF LinkAlive, Serving
<1>2. CASE AddEvent(t)
  <2>1. PICK i \in Slots :
          /\ lq'[i].st = "SERVED"
          /\ \A j \in Slots : j # i => lq'[j] = lq[j]
          /\ lq'[i].type = IF thr[t].type = "CONNECT" THEN "PING"
                           ELSE thr[t].type
          /\ thr' = [thr EXCEPT ![t].pc = "post", ![t].ev = i,
                                ![t].id = nextId + 1]
          /\ thr[t].pc = "lock"
          /\ UNCHANGED <<resetX, sched, reader, link, session>>
    BY <1>2, AddMoves
  <2>2. LinkAlive
    BY <2>1 DEF LinkInv
  <2>3. /\ \A u \in Threads : thr'[u].type = thr[u].type
                              /\ (thr'[u].pc = "idle" <=> thr[u].pc = "idle")
    BY <2>1 DEF TypeOK, ThreadsOK
  <2>4. link = "NONE" => lq'[i].type = "PING"
    BY <2>1, <2>2 DEF LinkAlive
  <2>5. link = "NONE" => \A j \in Slots : lq'[j].type = "PING" /\
                                          lq'[j].st \notin {"BLOCKED", "READY"}
    BY <2>1, <2>2, <2>4 DEF LinkAlive
  <2>6. UNCHANGED <<resetX, sched, reader, link>>
    BY <2>1
  <2>7. QED
    BY <2>2, <2>3, <2>5, <2>6 DEF LinkAlive, Serving
<1>3. CASE ~Connect(t) /\ ~AddEvent(t)
  <2>1. /\ UNCHANGED <<lq, sched, reader, session, resetX>>
        /\ \A u \in Threads : u # t => thr'[u] = thr[u]
        /\ \/ Starts(t) \/ Refused(t) \/ Posts(t) \/ Looks(t) \/ Wakes(t)
           \/ Returns(t) \/ Stays
    BY <1>3, ThreadMoves, ThreadKinds DEF ringVars
  <2>2. LinkAlive
    BY <2>1 DEF LinkInv
  <2>3. CASE Starts(t)
    BY <2>1, <2>2, <2>3, ConnectIsNoRequest DEF Starts, LinkAlive, Serving
  <2>4. CASE Refused(t) \/ Posts(t) \/ Looks(t) \/ Wakes(t)
    <3>1. /\ link' = link /\ \A u \in Threads : thr'[u].type = thr[u].type
          /\ \A u \in Threads : thr'[u].pc = "idle" <=> thr[u].pc = "idle"
      BY <2>1, <2>4 DEF Refused, Posts, Looks, Wakes, Same
    <3>2. QED
      BY <2>1, <2>2, <3>1 DEF LinkAlive, Serving
  <2>5. CASE Returns(t)
    <3>1. CASE thr[t].type = "CONNECT"
      BY <2>1, <2>2, <2>5, <3>1 DEF Returns, LinkAlive, Serving
    <3>2. CASE thr[t].type # "CONNECT"
      BY <2>1, <2>2, <2>5, <3>2 DEF Returns, LinkAlive, Serving
    <3>3. QED
      BY <3>1, <3>2
  <2>6. CASE Stays
    BY <2>1, <2>2, <2>6 DEF Stays, LinkAlive, Serving
  <2>7. QED
    BY <2>1, <2>3, <2>4, <2>5, <2>6
<1>4. QED
  BY <1>1, <1>2, <1>3

LEMMA LinkStep ==
  TypeOK /\ BeforeFirst /\ DrainInv /\ LinkInv /\ [Next]_vars => LinkInv'
<1> SUFFICES ASSUME TypeOK, BeforeFirst, DrainInv, LinkInv, [Next]_vars,
                    session' <= 1
             PROVE  LinkAlive'
  BY DEF LinkInv
<1>1. CASE \E t \in Threads : Thread(t)
  BY <1>1, LinkThread
<1>2. CASE Scheduler
  <2>1. SameEvents /\ UNCHANGED <<session, thr, reader>>
    BY <1>2, SchedulerMoves
  <2>2. LinkAlive
    BY <2>1 DEF LinkInv
  <2>3. CASE \E from \in {"fetch", "drain"} : FetchNext(from)
    BY <2>1, <2>2, <2>3, FetchMoves
    DEF LinkAlive, TakesLocal, TakesRemote, TakesNone, Fetched, ToFetch, Serving
  <2>4. CASE \E i \in Slots : Blocks(i) \/ Pends(i) \/ Serves(i)
    BY <2>1, <2>2, <2>4 DEF LinkAlive, SameEvents, SameStates, Blocks, Pends,
       Serves, ServesFor, Becomes, Quiet, ToFetch, Serving
  <2>5. CASE TakesReady \/ Aborts
    BY <2>1, <2>2, <2>5 DEF LinkAlive, SameEvents, TakesReady, Aborts,
       HandlingRemote, Quiet, Serving
  <2>6. CASE Unblocks
    BY <2>1, <2>2, <2>6 DEF LinkAlive, SameEvents, Unblocks,
       HandlingRemote, ToFetch, Serving
  <2>7. CASE Marks
    BY <2>1, <2>2, <2>7 DEF LinkAlive, SameEvents, Marks, Becomes, Quiet,
       ToFetch, Serving, DrainInv
  <2>8. CASE Resets
    BY <2>1, <2>2, <2>8 DEF LinkAlive, SameEvents, Resets, ToFetch, Serving
  <2>9. QED
    BY <1>2, <2>3, <2>4, <2>5, <2>6, <2>7, <2>8, SchedulerMoves
<1>3. CASE Reader
  <2>1. /\ SameEvents /\ UNCHANGED <<session, thr, resetX, sched>>
        /\ Listens \/ (\E i \in Slots : GivesUp(i)) \/ ReaderMarks
    BY <1>3, ReaderMoves
  <2>2. LinkAlive
    BY <2>1 DEF LinkInv
  <2>3. CASE Listens
    BY <2>1, <2>2, <2>3 DEF LinkAlive, SameEvents, Listens, Serving
  <2>4. CASE \E i \in Slots : GivesUp(i)
    BY <2>1, <2>2, <2>4 DEF LinkAlive, SameEvents, SameStates, GivesUp, Serving,
       TypeOK, WireOK
  <2>5. CASE ReaderMarks
    BY <2>1, <2>2, <2>5 DEF LinkAlive, SameEvents, ReaderMarks, Becomes, Serving
  <2>6. QED
    BY <2>1, <2>3, <2>4, <2>5
<1>4. CASE UNCHANGED <<ringVars, sched, reader, session, thr, resetX, link>>
  <2>1. LinkAlive
    BY <1>4 DEF LinkInv
  <2>2. QED
    BY <1>4, <2>1 DEF LinkAlive, ringVars, Serving
<1>5. CASE Peer \/ LinkFails
  BY <1>4, <1>5, PeerMoves
<1>6. CASE UNCHANGED vars
  BY <1>4, <1>6 DEF vars, envVars
<1>7. QED
  BY <1>1, <1>2, <1>3, <1>5, <1>6 DEF Next

LEMMA LinkHolds == Spec => []LinkInv
<1>1. Init => LinkInv
  BY DEF Init, LinkInv, LinkAlive, IdleThread, NewSlot, ToFetch
<1>2. QED
  BY <1>1, LinkStep, TypeCorrect, BeforeFirstHolds, DrainHolds, PTL DEF Spec

-----------------------------------------------------------------------------
(* Every event that is not served has its caller, and every semaphore that   *)
(* is posted its event.                                                      *)

\* The event of slot i has not been completed yet.
Open(i) == i \in fresh \/ Handling(i) \/ (lq[i].st # "SERVED" /\ ~Marking(i))

InCall == {"post", "lookup", "wait"}

\* The thread's event has been completed and the thread has not noticed.
Answer(t) == thr[t].pc \in InCall /\ thr[t].ev # None /\ ~Open(thr[t].ev)

Waits(t) ==
  /\ \A s \in Sems : refs[s] > 0 /\ owner[s] = t =>
       posted[s] = IF Answer(t) THEN 1 ELSE 0
  /\ thr[t].pc = "lock" => thr[t].sem = None
  /\ thr[t].pc = "return" /\ thr[t].ev # None => ~Open(thr[t].ev)
  /\ thr[t].ev = None /\ thr[t].pc \notin {"idle", "lock"} =>
       /\ thr[t].pc \in {"lookup", "return"} /\ thr[t].sem = None
       /\ \A s \in Sems : ~(refs[s] > 0 /\ owner[s] = t)

Attended ==
  \A i \in Slots : Open(i) => \E t \in Threads : thr[t].pc \in InCall /\ thr[t].ev = i

WaitShape == Attended /\ \A t \in Threads : Waits(t)
WaitInv == Orderly /\ Serving => WaitShape

\* A step of the scheduler completes one event, or none.
LEMMA OpenScheduler ==
  ASSUME TypeOK, RingInv, RingShape, Scheduler, sched.pc # "drain"
  PROVE  \/ posted' = posted /\ \A i \in Slots : Open(i)' <=> Open(i)
         \/ \E i \in Slots : /\ PostSem(i) /\ Open(i) /\ ~Open(i)'
                             /\ \A j \in Slots : j # i => (Open(j)' <=> Open(j))
<1> USE DEF Open, Handling, Marking
<1>1. CASE \E from \in {"fetch", "drain"} : FetchNext(from)
  <2>1. PICK from \in {"fetch", "drain"} : FetchNext(from)
    BY <1>1
  <2>2. /\ UNCHANGED <<lq, posted>> /\ sched.pc = "fetch" /\ from = "fetch"
        /\ TakesLocal(from) \/ TakesRemote(from) \/ TakesNone(from)
    BY <2>1, FetchMoves
  <2>3. CASE TakesLocal(from)
    <3>1. fresh' = fresh \ {lproc} /\ lproc \in fresh /\ Fetched(from, "l", lproc)
      BY <2>3, TakeIsFirst DEF TakesLocal
    <3>2. QED
      BY <2>2, <3>1 DEF Fetched
  <2>4. CASE TakesRemote(from) \/ TakesNone(from)
    BY <2>2, <2>4 DEF TakesRemote, TakesNone, Fetched
  <2>5. QED
    BY <2>2, <2>3, <2>4
<1>2. ASSUME NEW i \in Slots, Blocks(i) \/ Pends(i)
      PROVE  posted' = posted /\ \A j \in Slots : Open(j)' <=> Open(j)
  BY <1>2 DEF Blocks, Pends, Becomes, Quiet, ToFetch
<1>3. ASSUME NEW i \in Slots, Serves(i)
      PROVE  /\ PostSem(i) /\ Open(i) /\ ~Open(i)'
             /\ \A j \in Slots : j # i => (Open(j)' <=> Open(j))
  <2>1. i \notin fresh
    BY <1>3 DEF RingShape, Untouched, Serves, ServesFor
  <2>2. QED
    BY <1>3, <2>1 DEF Serves, ServesFor, HandlingRemote, SameStates, Quiet
<1>4. CASE TakesReady \/ Unblocks \/ Marks \/ Aborts \/ Resets
  <2>1. CASE TakesReady \/ Aborts
    BY <2>1 DEF TakesReady, Aborts, HandlingRemote, Quiet
  <2>2. CASE Unblocks
    BY <2>2 DEF Unblocks, HandlingRemote, ToFetch
  <2>3. CASE Marks
    <3>1. sched'.ev = None
      BY <2>3 DEF Marks, ToFetch
    <3>2. QED
      BY <2>3, <3>1, NoneOutside DEF Marks, Becomes, Quiet
  <2>4. CASE Resets
    BY <2>4 DEF Resets, ToFetch
  <2>5. QED
    BY <1>4, <2>1, <2>2, <2>3, <2>4
<1> HIDE DEF Open, Handling, Marking
<1>5. CASE \E i \in Slots : Blocks(i) \/ Pends(i)
  BY <1>2, <1>5
<1>6. CASE \E i \in Slots : Serves(i)
  BY <1>3, <1>6
<1>7. QED
  BY <1>1, <1>4, <1>5, <1>6, SchedulerMoves

\* A step that completes no event and leaves the semaphores alone.
LEMMA WaitKept ==
  ASSUME TypeOK, WaitShape, UNCHANGED <<thr, refs, owner, posted>>,
         \A i \in Slots : Open(i)' <=> Open(i)
  PROVE  WaitShape'
<1>1. \A t \in Threads : thr[t].ev \in Slots \cup {None}
  BY DEF TypeOK, ThreadsOK
<1>2. Attended'
  BY DEF WaitShape, Attended
<1>3. \A t \in Threads : Answer(t)' <=> Answer(t)
  BY <1>1 DEF Answer
<1>4. \A t \in Threads : Waits(t)'
  BY <1>1, <1>3 DEF WaitShape, Waits
<1>5. QED
  BY <1>2, <1>4 DEF WaitShape

\* The completion of an event posts the semaphore of the thread that waits.
LEMMA WaitServed ==
  ASSUME TypeOK, SemRefsMatch, session <= 1, OneSem,
         \A t \in Threads : Own(t), WaitShape, UNCHANGED <<thr, refs, owner>>,
         NEW i \in Slots, PostSem(i), Open(i), ~Open(i)',
         \A j \in Slots : j # i => (Open(j)' <=> Open(j))
  PROVE  WaitShape'
<1>1. \A t \in Threads : thr[t].ev \in Slots \cup {None}
  BY DEF TypeOK, ThreadsOK
<1>2. PICK t \in Threads : thr[t].pc \in InCall /\ thr[t].ev = i
  BY DEF WaitShape, Attended
<1> DEFINE r == lq[i].sem
<1>3. r \in Sems /\ owner[r] = t
  BY <1>2, NoneOutside DEF Own
<1>4. refs[r] > 0 /\ posted' = [posted EXCEPT ![r] = @ + 1]
  BY <1>3, ReferredIsLive, NoneOutside DEF PostSem
<1> HIDE DEF r
<1>5. ~Answer(t) /\ Answer(t)'
  BY <1>2, NoneOutside DEF Answer
<1>6. \A u \in Threads : u # t => thr[u].ev # i
  BY <1>3, NoneOutside DEF Own, r
<1>7. \A u \in Threads : u # t => (Answer(u)' <=> Answer(u))
  BY <1>1, <1>6 DEF Answer
<1>8. posted[r] = 0 /\ posted'[r] = 1
  BY <1>2, <1>3, <1>4, <1>5 DEF WaitShape, Waits, TypeOK, SemsOK
<1>9. Waits(t)'
  <2>1. \A s \in Sems : refs[s] > 0 /\ owner[s] = t => s = r
    BY <1>3, <1>4 DEF OneSem
  <2>2. thr[t].ev # None /\ thr[t].pc \notin {"return", "lock"}
    BY <1>2, NoneOutside DEF InCall
  <2>3. QED
    BY <1>5, <1>8, <2>1, <2>2 DEF Waits
<1>10. ASSUME NEW u \in Threads, u # t PROVE Waits(u)'
  <2>1. \A s \in Sems : owner[s] = u => posted'[s] = posted[s]
    BY <1>3, <1>4, <1>10 DEF TypeOK, SemsOK
  <2>2. thr[u].ev # None => (Open(thr[u].ev)' <=> Open(thr[u].ev))
    BY <1>1, <1>6, <1>10
  <2>3. QED
    BY <1>7, <1>10, <2>1, <2>2 DEF WaitShape, Waits
<1>11. Attended'
  BY DEF WaitShape, Attended
<1>12. QED
  BY <1>9, <1>10, <1>11 DEF WaitShape

LEMMA WaitAdd ==
  ASSUME TypeOK, SemRefsMatch, RingInv, OwnInv, WaitShape, NEW t \in Threads,
         AddEvent(t), Orderly'
  PROVE  WaitShape'
<1> DEFINE s == SemFor(t)
<1>1. PICK i \in Slots :
        /\ \A j \in Slots : j # i => lq'[j] = lq[j]
        /\ lq'[i].st = "SERVED"
        /\ fresh' = fresh \cup {i} /\ s \in Sems
        /\ owner' = [owner EXCEPT ![s] = t]
        /\ thr' = [thr EXCEPT ![t].pc = "post", ![t].ev = i,
                              ![t].id = nextId + 1]
        /\ thr[t].pc = "lock" /\ UNCHANGED <<session, sched>>
        /\ lapped => lapped'
        /\ ~lapped' => ~InUse(i)
  BY AddMoves
<1>2. Orderly /\ ~InUse(i) /\ session <= 1
  BY <1>1 DEF Orderly
<1>3. OneSem /\ \A u \in Threads : Own(u)
  BY <1>2 DEF OwnInv
<1>4. OneSem'
  BY OwnAdd
<1>5. owner \in [Sems -> Threads \cup {None}] /\ posted \in [Sems -> Nat]
  BY DEF TypeOK, SemsOK
<1>6. \/ CurrentSem(t) = s /\ refs[s] > 0 /\ owner[s] = t
      \/ /\ CurrentSem(t) = None /\ refs[s] < 0
         /\ \A r \in Sems : ~(owner[r] = t /\ refs[r] > 0)
  BY <1>1, SemForOwn
<1>7. refs[s] < 0 => refs[s] = -1
  <2>1. Cardinality(Refs(s)) \in Nat
    BY RefsFinite, FS_CardinalityType
  <2>2. QED
    BY <1>1, <1>2, <2>1 DEF SemRefsMatch, RefCounts
<1>8. \A r \in Sems : r # s /\ refs'[r] > 0 => refs[r] > 0
  BY <1>1, AddKeepsDead
<1>9. posted'[s] = 0 /\ \A r \in Sems : r # s => posted'[r] = posted[r]
  <2>1. posted' = [posted EXCEPT ![s] = IF CurrentSem(t) = None /\ refs[s] = -1
                                        THEN 0 ELSE @]
    BY DEF AddEvent
  <2>2. CASE CurrentSem(t) = None
    BY <1>1, <1>5, <1>6, <1>7, <2>1, <2>2, NoneOutside
  <2>3. CASE CurrentSem(t) # None
    <3>1. posted[s] = 0
      BY <1>1, <1>6, <2>3 DEF WaitShape, Waits, Answer, InCall
    <3>2. QED
      BY <1>1, <1>5, <2>1, <2>3, <3>1
  <2>4. QED
    BY <2>2, <2>3
<1> HIDE DEF s
<1>10. Open(i)' /\ \A j \in Slots : j # i => (Open(j)' <=> Open(j))
  BY <1>1 DEF Open, Handling, Marking
<1>11. /\ thr'[t].pc = "post" /\ thr'[t].ev = i
       /\ \A u \in Threads : u # t => thr'[u] = thr[u]
  BY <1>1 DEF TypeOK, ThreadsOK
<1>12. ASSUME NEW u \in Threads, u # t PROVE Waits(u)'
  <2>1. Own(u) /\ Waits(u) /\ thr'[u] = thr[u] /\ thr[u].ev \in Slots \cup {None}
    BY <1>3, <1>11, <1>12 DEF WaitShape, TypeOK, ThreadsOK
  <2>2. thr[u].ev # None => (Open(thr[u].ev)' <=> Open(thr[u].ev))
    <3>1. CASE thr[u].ev = i
      <4>1. thr[u].pc = "idle"
        BY <1>2, <3>1 DEF InUse
      <4>2. QED
        BY <2>1, <4>1 DEF Own
    <3>2. QED
      BY <1>10, <2>1, <3>1
  <2>3. Answer(u)' <=> Answer(u)
    BY <2>1, <2>2 DEF Answer
  <2>4. \A r \in Sems : refs'[r] > 0 /\ owner'[r] = u =>
                          refs[r] > 0 /\ owner[r] = u /\ posted'[r] = posted[r]
    BY <1>1, <1>5, <1>8, <1>9, <1>12
  <2>5. QED
    BY <2>1, <2>2, <2>3, <2>4 DEF Waits
<1>13. Waits(t)'
  <2>1. /\ ~Answer(t)' /\ thr'[t].ev # None
        /\ thr'[t].pc \notin {"return", "lock"}
    BY <1>10, <1>11, NoneOutside DEF Answer
  <2>2. \A r \in Sems : refs'[r] > 0 /\ owner'[r] = t => r = s
    BY <1>1, <1>5, <1>6, <1>8, <1>3 DEF OneSem
  <2>3. QED
    BY <1>9, <2>1, <2>2 DEF Waits
<1>14. Attended'
  <2> SUFFICES ASSUME NEW j \in Slots, Open(j)'
               PROVE  \E u \in Threads : thr'[u].pc \in InCall /\ thr'[u].ev = j
    BY DEF Attended
  <2>1. CASE j = i
    BY <1>11, <2>1 DEF InCall
  <2>2. CASE j # i
    <3>1. PICK u \in Threads : thr[u].pc \in InCall /\ thr[u].ev = j
      BY <1>10, <2>2 DEF WaitShape, Attended
    <3>2. u # t
      BY <1>1, <3>1 DEF InCall
    <3>3. QED
      BY <1>11, <3>1, <3>2
  <2>3. QED
    BY <2>1, <2>2
<1>15. QED
  BY <1>12, <1>13, <1>14 DEF WaitShape

LEMMA WaitThread ==
  ASSUME TypeOK, SemRefsMatch, RingInv, OwnInv, LinkInv, WaitShape,
         NEW t \in Threads, Thread(t), ~AddEvent(t), ~Connect(t), Orderly,
         Serving
  PROVE  WaitShape'
<1>1. /\ UNCHANGED <<ringVars, sched, refs, owner>>
      /\ \A u \in Threads : u # t => thr'[u] = thr[u]
      /\ \/ Starts(t) \/ Refused(t) \/ Posts(t) \/ Looks(t) \/ Wakes(t)
         \/ Returns(t) \/ Stays
  BY ThreadMoves, ThreadKinds
<1>2. OneSem /\ (\A u \in Threads : Own(u)) /\ session <= 1
  BY DEF OwnInv, Orderly
<1>3. \A j \in Slots : Open(j)' <=> Open(j)
  BY <1>1 DEF Open, Handling, Marking, ringVars, cursors
<1>4. \A u \in Threads : thr[u].ev \in Slots \cup {None}
  BY DEF TypeOK, ThreadsOK
<1>5. Waits(t) /\ Own(t)
  BY <1>2 DEF WaitShape
<1>6. ASSUME \A s \in Sems : owner[s] # t => posted'[s] = posted[s]
      PROVE  \A u \in Threads : u # t => Waits(u)'
  <2> SUFFICES ASSUME NEW u \in Threads, u # t PROVE Waits(u)'
    OBVIOUS
  <2>1. Answer(u)' <=> Answer(u)
    BY <1>1, <1>3, <1>4 DEF Answer
  <2>2. \A s \in Sems : owner'[s] = u => posted'[s] = posted[s]
    BY <1>1, <1>6
  <2>3. QED
    BY <1>1, <1>3, <1>4, <2>1, <2>2 DEF WaitShape, Waits
<1>7. ASSUME NEW j \in Slots, Open(j)
      PROVE  \E u \in Threads : thr[u].pc \in InCall /\ thr[u].ev = j
  BY <1>7 DEF WaitShape, Attended
<1>8. ASSUME Waits(t)',
             \A s \in Sems : owner[s] # t => posted'[s] = posted[s],
             \A j \in Slots : Open(j) /\ thr[t].pc \in InCall /\ thr[t].ev = j
                              => thr'[t].pc \in InCall /\ thr'[t].ev = j
      PROVE  WaitShape'
  <2>1. Attended'
    <3> SUFFICES ASSUME NEW j \in Slots, Open(j)'
                 PROVE  \E u \in Threads : thr'[u].pc \in InCall /\ thr'[u].ev = j
      BY DEF Attended
    <3>1. PICK u \in Threads : thr[u].pc \in InCall /\ thr[u].ev = j
      BY <1>3, <1>7
    <3>2. CASE u = t
      BY <1>3, <1>8, <3>1, <3>2
    <3>3. CASE u # t
      BY <1>1, <3>1, <3>3
    <3>4. QED
      BY <3>2, <3>3
  <2>2. \A u \in Threads : Waits(u)'
    BY <1>6, <1>8
  <2>3. QED
    BY <2>1, <2>2 DEF WaitShape
<1>9. CASE Starts(t)
  <2>1. thr'[t].pc = "lock" /\ thr'[t].sem = None /\ posted' = posted
    BY <1>9 DEF Starts, Serving
  <2>2. ~Answer(t) /\ ~Answer(t)'
    BY <1>9, <2>1 DEF Starts, Answer, InCall
  <2>3. Waits(t)'
    BY <1>1, <1>5, <2>1, <2>2 DEF Waits
  <2>4. QED
    BY <1>8, <1>9, <2>1, <2>3 DEF Starts, InCall
<1>10. CASE Refused(t)
  <2>1. thr'[t].pc = "lookup" /\ thr'[t].ev = None /\ posted' = posted
        /\ thr[t].pc = "lock" /\ thr'[t].sem = thr[t].sem
    BY <1>5, <1>10 DEF Refused, Same, Own
  <2>2. CurrentSem(t) = None
    BY <1>10 DEF Refused, SemFor
  <2>3. \A s \in Sems : ~(owner[s] = t /\ refs[s] > 0)
    BY <2>2, OwnerFinds
  <2>4. thr[t].sem = None
    BY <1>5, <2>1 DEF Waits
  <2>5. Waits(t)'
    BY <1>1, <2>1, <2>3, <2>4 DEF Waits
  <2>6. QED
    BY <1>8, <2>1, <2>5 DEF InCall
<1>11. CASE Posts(t)
  <2>1. thr'[t].pc = "lookup" /\ thr[t].pc = "post" /\ posted' = posted
        /\ thr'[t].ev = thr[t].ev /\ thr[t].ev # None
    BY <1>5, <1>11 DEF Posts, Same, Waits
  <2>2. Answer(t)' <=> Answer(t)
    BY <1>3, <1>4, <2>1 DEF Answer, InCall
  <2>3. Waits(t)'
    BY <1>1, <1>5, <2>1, <2>2 DEF Waits
  <2>4. QED
    BY <1>8, <2>1, <2>3 DEF InCall
<1>12. CASE Looks(t)
  <2>1. /\ thr[t].pc = "lookup" /\ posted' = posted /\ thr'[t].ev = thr[t].ev
        /\ thr'[t].sem = CurrentSem(t)
        /\ thr'[t].pc = IF CurrentSem(t) = None THEN "return" ELSE "wait"
    BY <1>12 DEF Looks, Same
  <2>2. CASE thr[t].ev = None
    <3>1. CurrentSem(t) = None
      BY <1>5, <2>1, <2>2, CurrentSemFinds DEF Waits
    <3>2. ~Answer(t) /\ ~Answer(t)'
      BY <2>1, <2>2 DEF Answer
    <3>3. Waits(t)'
      BY <1>1, <1>5, <2>1, <2>2, <3>1, <3>2 DEF Waits
    <3>4. QED
      BY <1>8, <2>1, <2>2, <3>3, NoneOutside
  <2>3. CASE thr[t].ev # None
    <3>1. lq[thr[t].ev].sem \in Sems /\ owner[lq[thr[t].ev].sem] = t
          /\ refs[lq[thr[t].ev].sem] > 0
      BY <1>2, <1>4, <1>5, <2>3, ReferredIsLive DEF Own
    <3>2. thr'[t].pc = "wait"
      BY <2>1, <3>1, OwnerFinds
    <3>3. Answer(t)' <=> Answer(t)
      BY <1>3, <1>4, <2>1, <3>2 DEF Answer, InCall
    <3>4. Waits(t)'
      BY <1>1, <1>5, <2>1, <2>3, <3>2, <3>3 DEF Waits
    <3>5. QED
      BY <1>8, <2>1, <3>2, <3>4 DEF InCall
  <2>4. QED
    BY <2>2, <2>3
<1>13. CASE Wakes(t)
  <2> DEFINE r == thr[t].sem
  <2>1. /\ thr[t].pc = "wait" /\ thr'[t].pc = "return" /\ r \in Sems
        /\ posted[r] > 0 /\ posted' = [posted EXCEPT ![r] = @ - 1]
        /\ thr'[t].ev = thr[t].ev
    BY <1>13 DEF Wakes, Same
  <2>2. thr[t].ev # None /\ thr[t].ev \in Slots
    BY <1>4, <1>5, <2>1 DEF Waits
  <2>3. owner[r] = t /\ refs[r] > 0
    BY <1>2, <1>5, <2>1, <2>2, ReferredIsLive DEF Own
  <2> HIDE DEF r
  <2>4. Answer(t) /\ posted[r] = 1
    BY <1>5, <2>1, <2>3 DEF Waits
  <2>5. ~Open(thr[t].ev) /\ ~Answer(t)'
    BY <2>1, <2>4 DEF Answer, InCall
  <2>6. \A s \in Sems : refs[s] > 0 /\ owner[s] = t => s = r
    BY <1>2, <2>1, <2>3 DEF OneSem
  <2>7. posted'[r] = 0 /\ \A s \in Sems : s # r => posted'[s] = posted[s]
    BY <2>1, <2>4 DEF TypeOK, SemsOK
  <2>8. Waits(t)'
    BY <1>1, <1>3, <2>1, <2>2, <2>5, <2>6, <2>7 DEF Waits
  <2>9. QED
    BY <1>8, <2>3, <2>5, <2>7, <2>8
<1>14. CASE Returns(t)
  <2>1. /\ thr[t].pc = "return" /\ thr'[t].pc = "idle" /\ thr'[t].ev = None
        /\ posted' = posted
    BY <1>14 DEF Returns
  <2>2. ~Answer(t) /\ ~Answer(t)'
    BY <2>1 DEF Answer, InCall
  <2>3. Waits(t)'
    BY <1>1, <1>5, <2>1, <2>2 DEF Waits
  <2>4. QED
    BY <1>8, <2>1, <2>3 DEF InCall
<1>15. CASE Stays
  BY <1>1, <1>3, <1>15, WaitKept DEF Stays
<1>16. QED
  BY <1>1, <1>9, <1>10, <1>11, <1>12, <1>13, <1>14, <1>15

LEMMA WaitStep ==
  TypeOK /\ BeforeFirst /\ SemRefsMatch /\ RingInv /\ OwnInv /\ LinkInv
    /\ WaitInv /\ [Next]_vars => WaitInv'
<1> SUFFICES ASSUME TypeOK, BeforeFirst, SemRefsMatch, RingInv, OwnInv, LinkInv,
                    WaitInv, [Next]_vars, Orderly', Serving'
             PROVE  WaitShape'
  BY DEF WaitInv
<1>1. CASE \E t \in Threads : Thread(t)
  <2> PICK t \in Threads : Thread(t)
    BY <1>1
  <2>1. CASE AddEvent(t)
    <3>1. UNCHANGED <<session, link, resetX>> /\ (lapped => lapped')
      BY <2>1, AddMoves
    <3>2. WaitShape
      BY <3>1 DEF WaitInv, Orderly, Serving
    <3>3. QED
      BY <2>1, <3>2, WaitAdd
  <2>2. CASE Connect(t)
    <3>1. /\ \A i \in Slots : lq'[i].st = "SERVED"
          /\ fresh' = {} /\ sched' = ToFetch("fetch")
          /\ refs' = [s \in Sems |-> -1]
          /\ thr' = [thr EXCEPT ![t] = [IdleThread EXCEPT !.pc = "lock",
                                                          !.type = "CONNECT"]]
          /\ \A u \in Threads : thr[u].pc = "idle"
      BY <2>2, ConnectMoves DEF Orderly
    <3>2. \A i \in Slots : ~Open(i)'
      BY <3>1 DEF Open, Handling, Marking, ToFetch
    <3>3. \A u \in Threads : thr'[u].pc \in {"idle", "lock"}
                             /\ (thr'[u].pc = "lock" => thr'[u].sem = None)
      BY <3>1 DEF IdleThread, TypeOK, ThreadsOK
    <3>4. \A u \in Threads : Waits(u)'
      BY <3>1, <3>3 DEF Waits
    <3>5. QED
      BY <3>2, <3>4 DEF WaitShape, Attended
  <2>3. CASE ~AddEvent(t) /\ ~Connect(t)
    <3>1. UNCHANGED <<ringVars, session, resetX>>
          /\ \/ Starts(t) \/ Refused(t) \/ Posts(t) \/ Looks(t) \/ Wakes(t)
             \/ Returns(t) \/ Stays
      BY <2>3, ThreadMoves, ThreadKinds
    <3>2. Orderly /\ LinkAlive
      BY <3>1 DEF Orderly, ringVars, cursors, LinkInv
    <3>3. Serving
      BY <3>1, <3>2 DEF Starts, Refused, Posts, Looks, Wakes, Returns, Stays,
         LinkAlive, Serving
    <3>4. QED
      BY <2>3, <3>2, <3>3, WaitThread DEF WaitInv
  <2>4. QED
    BY <2>1, <2>2, <2>3
<1>2. CASE Scheduler
  <2>1. UNCHANGED <<lapped, session, thr, refs, owner>>
    BY <1>2, SchedulerMoves
  <2>2. Orderly /\ LinkAlive
    BY <2>1 DEF Orderly, LinkInv
  <2>3. Serving
    <3>1. CASE \E from \in {"fetch", "drain"} : FetchNext(from)
      BY <3>1, FetchMoves DEF Serving
    <3>2. CASE \E i \in Slots : Blocks(i) \/ Pends(i) \/ Serves(i)
      BY <3>2 DEF Blocks, Pends, Serves, ServesFor, Quiet, Serving
    <3>3. CASE TakesReady \/ Marks \/ Aborts \/ Resets \/ Unblocks
      BY <2>2, <3>3 DEF TakesReady, Marks, Aborts, Resets, Unblocks,
         HandlingRemote, Quiet,
         Serving, LinkAlive
    <3>4. QED
      BY <1>2, <3>1, <3>2, <3>3, SchedulerMoves
  <2>4. /\ WaitShape /\ RingShape /\ OneSem /\ session <= 1
        /\ \A t \in Threads : Own(t)
    BY <2>2, <2>3 DEF WaitInv, RingInv, OwnInv, Orderly
  <2>5. sched.pc # "drain"
    BY <2>2, <2>3 DEF LinkAlive, Serving
  <2>6. CASE posted' = posted /\ \A i \in Slots : Open(i)' <=> Open(i)
    BY <2>1, <2>4, <2>6, WaitKept
  <2>7. CASE \E i \in Slots : /\ PostSem(i) /\ Open(i) /\ ~Open(i)'
                              /\ \A j \in Slots : j # i => (Open(j)' <=> Open(j))
    BY <2>1, <2>4, <2>7, WaitServed
  <2>8. QED
    BY <1>2, <2>4, <2>5, <2>6, <2>7, OpenScheduler
<1>3. CASE Reader
  <2>1. /\ SameEvents /\ UNCHANGED <<session, thr, refs, owner, resetX, sched>>
        /\ lapped => lapped'
        /\ UNCHANGED fresh
        /\ Listens \/ (\E i \in Slots : GivesUp(i)) \/ ReaderMarks
    BY <1>3, ReaderMoves
  <2>2. Orderly /\ LinkAlive
    BY <2>1 DEF Orderly, LinkInv
  <2>3. Serving /\ Listens
    BY <2>1, <2>2 DEF Listens, GivesUp, ReaderMarks, Serving, LinkAlive,
       TypeOK, WireOK
  <2>4. WaitShape /\ UNCHANGED <<lq, posted>>
    BY <2>2, <2>3 DEF WaitInv, Listens
  <2>5. \A i \in Slots : Open(i)' <=> Open(i)
    BY <2>1, <2>4 DEF Open, Handling, Marking
  <2>6. QED
    BY <2>1, <2>4, <2>5, WaitKept
<1>4. CASE UNCHANGED <<ringVars, sched, session, thr, refs, owner, posted, link,
                       resetX>>
  <2>1. WaitShape
    BY <1>4 DEF WaitInv, Orderly, Serving, ringVars, cursors
  <2>2. \A i \in Slots : Open(i)' <=> Open(i)
    BY <1>4 DEF Open, Handling, Marking, ringVars, cursors
  <2>3. QED
    BY <1>4, <2>1, <2>2, WaitKept
<1>5. CASE Peer \/ LinkFails
  BY <1>4, <1>5, PeerMoves DEF semVars
<1>6. CASE UNCHANGED vars
  BY <1>4, <1>6 DEF vars, envVars, semVars
<1>7. QED
  BY <1>1, <1>2, <1>3, <1>5, <1>6 DEF Next

LEMMA WaitHolds == Spec => []WaitInv
<1>1. Init => WaitInv
  <2> SUFFICES ASSUME Init PROVE WaitShape
    BY DEF WaitInv
  <2>1. \A i \in Slots : ~Open(i)
    BY DEF Init, Open, Handling, Marking, ToFetch, NewSlot
  <2>2. \A t \in Threads : Waits(t)
    BY DEF Init, Waits, IdleThread
  <2>3. QED
    BY <2>1, <2>2 DEF WaitShape, Attended
<1>2. QED
  BY <1>1, WaitStep, TypeCorrect, BeforeFirstHolds, SemCounts, RingHolds,
     OwnHolds, LinkHolds, PTL DEF Spec

\* While the link has neither failed nor been reset, a call that waited returns
\* after its own event was served, with the slot still its own: no semaphore is
\* posted twice or for another thread, although threads keep theirs from call
\* to call and the scheduler posts before it marks the slot
\* (dispatcherWaitEventComplete, markEventServed).
THEOREM CallsComplete == Spec => []CompletionSound
<1>1. OwnInv /\ WaitInv => CompletionSound
  <2> SUFFICES ASSUME OwnInv, WaitInv, Orderly, Serving,
                      NEW t \in Threads, thr[t].pc = "return",
                      thr[t].sem # None
               PROVE  /\ thr[t].ev # None /\ lq[thr[t].ev].id = thr[t].id
                      /\ thr[t].ev \notin fresh
                      /\ \/ lq[thr[t].ev].st = "SERVED"
                         \/ sched.pc = "mark" /\ sched.ev = thr[t].ev
    BY DEF CompletionSound
  <2>1. Waits(t) /\ Own(t)
    BY DEF WaitInv, WaitShape, OwnInv
  <2>2. thr[t].ev # None
    BY <2>1 DEF Waits
  <2>3. ~Open(thr[t].ev)
    BY <2>1, <2>2 DEF Waits
  <2>4. QED
    BY <2>1, <2>2, <2>3 DEF Own, Open, Marking
<1>2. QED
  BY <1>1, OwnHolds, WaitHolds, PTL

-----------------------------------------------------------------------------
(* The slots that are in use, and the semaphores of their events.            *)

Live(i) == i \in fresh \/ Handling(i) \/ lq[i].st # "SERVED"

\* Two events of one semaphore are in the ring together only while the
\* scheduler marks one of them, after it has posted the caller; and so it is
\* with the events of a thread that is about to add the next.
SlotShape ==
  /\ \A i \in Slots : Live(i) => lq[i].sem \in Sems
  /\ \A i, j \in Slots :
       Live(i) /\ Live(j) /\ lq[i].sem = lq[j].sem /\ i # j =>
         Marking(i) \/ Marking(j)
  /\ \A t \in Threads : \A i \in Slots :
       thr[t].pc = "lock" /\ Live(i) /\ owner[lq[i].sem] = t => Marking(i)

SlotInv == Orderly => SlotShape

\* A step that puts no slot into use and ends no marking of one in use.
LEMMA SlotKept ==
  ASSUME SlotShape, SameEvents, owner' = owner,
         \A t \in Threads : thr'[t].pc = "lock" => thr[t].pc = "lock",
         \A i \in Slots : Live(i)' => Live(i) /\ (Marking(i) => Marking(i)')
  PROVE  SlotShape'
BY DEF SlotShape, SameEvents

LEMMA LiveScheduler ==
  ASSUME TypeOK, RingInv, RingShape, Scheduler
  PROVE  \A i \in Slots : Live(i)' => Live(i) /\ (Marking(i) => Marking(i)')
<1> USE DEF Live, Handling, Marking
<1>1. CASE \E from \in {"fetch", "drain"} : FetchNext(from)
  <2>1. PICK from \in {"fetch", "drain"} : FetchNext(from)
    BY <1>1
  <2>2. /\ lq' = lq /\ sched.pc = from
        /\ TakesLocal(from) \/ TakesRemote(from) \/ TakesNone(from)
    BY <2>1, FetchMoves
  <2>3. CASE TakesLocal(from)
    <3>1. fresh' = fresh \ {lproc} /\ lproc \in fresh /\ Fetched(from, "l", lproc)
      BY <2>3, TakeIsFirst DEF TakesLocal
    <3>2. QED
      BY <2>2, <3>1 DEF Fetched
  <2>4. CASE TakesRemote(from) \/ TakesNone(from)
    BY <2>2, <2>4 DEF TakesRemote, TakesNone, Fetched, ToFetch
  <2>5. QED
    BY <2>2, <2>3, <2>4
<1>2. CASE \E i \in Slots : Blocks(i) \/ Pends(i)
  BY <1>2 DEF Blocks, Pends, Becomes, Quiet, ToFetch
<1>3. CASE \E i \in Slots : Serves(i)
  BY <1>3 DEF Serves, ServesFor, HandlingRemote, SameStates, Quiet
<1>4. CASE TakesReady \/ Aborts
  BY <1>4 DEF TakesReady, Aborts, HandlingRemote, Quiet
<1>5. CASE Unblocks
  BY <1>5 DEF Unblocks, HandlingRemote, ToFetch
<1>6. CASE Marks
  <2>1. sched'.ev = None
    BY <1>6 DEF Marks, ToFetch
  <2>2. sched.ev \notin fresh
    BY <1>6 DEF RingShape, Untouched, Marks
  <2>3. QED
    BY <1>6, <2>1, <2>2, NoneOutside DEF Marks, Becomes, Quiet
<1>7. CASE Resets
  BY <1>7 DEF Resets, ToFetch
<1> HIDE DEF Live, Handling, Marking
<1>8. QED
  BY <1>1, <1>2, <1>3, <1>4, <1>5, <1>6, <1>7, SchedulerMoves

LEMMA SlotAdd ==
  ASSUME TypeOK, SemRefsMatch, RingInv, SlotShape, NEW t \in Threads,
         AddEvent(t), Orderly'
  PROVE  SlotShape'
<1> DEFINE s == SemFor(t)
<1>1. PICK i \in Slots :
        /\ \A j \in Slots : j # i => lq'[j] = lq[j]
        /\ lq'[i].sem = s /\ s \in Sems
        /\ fresh' = fresh \cup {i}
        /\ owner' = [owner EXCEPT ![s] = t]
        /\ thr' = [thr EXCEPT ![t].pc = "post", ![t].ev = i,
                              ![t].id = nextId + 1]
        /\ thr[t].pc = "lock" /\ UNCHANGED <<session, sched>>
        /\ lapped => lapped'
        /\ ~lapped' => ~InUse(i)
  BY AddMoves
<1>2. ~InUse(i) /\ session <= 1
  BY <1>1 DEF Orderly
<1>3. owner \in [Sems -> Threads \cup {None}]
  BY DEF TypeOK, SemsOK
<1>4. thr'[t].pc = "post" /\ \A u \in Threads : u # t => thr'[u] = thr[u]
  BY <1>1 DEF TypeOK, ThreadsOK
<1>5. \/ refs[s] > 0 /\ owner[s] = t
      \/ refs[s] < 0
  BY <1>1, SemForOwn
<1> HIDE DEF s
<1>6. \A j \in Slots : /\ Marking(j)' <=> Marking(j)
                       /\ j # i => (Live(j)' <=> Live(j))
                       /\ j # i => lq'[j].sem = lq[j].sem
  BY <1>1 DEF Live, Handling, Marking
<1>7. ASSUME NEW j \in Slots, Live(j), lq[j].sem = s
      PROVE  owner[s] = t /\ Marking(j)
  <2>1. refs[s] > 0 /\ refs[s] \in Int
    BY <1>1, <1>2, <1>7, ReferredIsLive DEF TypeOK, SemsOK
  <2>2. owner[s] = t
    BY <1>5, <2>1
  <2>3. QED
    BY <1>1, <1>7, <2>2 DEF SlotShape
<1>8. \A j \in Slots : Live(j)' => lq'[j].sem \in Sems
  BY <1>1, <1>6 DEF SlotShape
<1>9. ASSUME NEW j \in Slots, NEW k \in Slots, Live(j)', Live(k)',
             lq'[j].sem = lq'[k].sem, j # k
      PROVE  Marking(j)' \/ Marking(k)'
  <2>1. CASE j = i
    BY <1>1, <1>6, <1>7, <1>9, <2>1
  <2>2. CASE k = i
    BY <1>1, <1>6, <1>7, <1>9, <2>2
  <2>3. CASE j # i /\ k # i
    BY <1>6, <1>9, <2>3 DEF SlotShape
  <2>4. QED
    BY <2>1, <2>2, <2>3
<1>10. ASSUME NEW u \in Threads, NEW j \in Slots, thr'[u].pc = "lock", Live(j)',
              owner'[lq'[j].sem] = u
       PROVE  Marking(j)'
  <2>1. u # t /\ thr[u].pc = "lock"
    BY <1>4, <1>10
  <2>2. j # i
    BY <1>1, <1>3, <1>10, <2>1
  <2>3. lq[j].sem \in Sems /\ Live(j)
    BY <1>6, <1>10, <2>2 DEF SlotShape
  <2>4. owner[lq[j].sem] = u
    BY <1>1, <1>3, <1>6, <1>10, <2>1, <2>2, <2>3
  <2>5. QED
    BY <1>6, <2>1, <2>3, <2>4 DEF SlotShape
<1>11. QED
  BY <1>8, <1>9, <1>10 DEF SlotShape

LEMMA SlotStep ==
  TypeOK /\ BeforeFirst /\ SemRefsMatch /\ RingInv /\ OwnInv /\ WaitInv
    /\ SlotInv /\ [Next]_vars => SlotInv'
<1> SUFFICES ASSUME TypeOK, BeforeFirst, SemRefsMatch, RingInv, OwnInv,
                    WaitInv, SlotInv, [Next]_vars, Orderly'
             PROVE  SlotShape'
  BY DEF SlotInv
<1>1. CASE \E t \in Threads : Thread(t)
  <2> PICK t \in Threads : Thread(t)
    BY <1>1
  <2>1. CASE AddEvent(t)
    <3>1. UNCHANGED session /\ (lapped => lapped')
      BY <2>1, AddMoves
    <3>2. QED
      BY <2>1, <3>1, SlotAdd DEF SlotInv, Orderly
  <2>2. CASE Connect(t)
    <3>1. /\ \A i \in Slots : lq'[i].st = "SERVED"
          /\ fresh' = {} /\ sched' = ToFetch("fetch")
      BY <2>2, ConnectMoves DEF Orderly
    <3>2. \A i \in Slots : ~Live(i)'
      BY <3>1 DEF Live, Handling, ToFetch
    <3>3. QED
      BY <3>2 DEF SlotShape
  <2>3. CASE ~AddEvent(t) /\ ~Connect(t)
    <3>1. /\ UNCHANGED <<ringVars, sched, session, refs, owner, resetX>>
          /\ \A u \in Threads : u # t => thr'[u] = thr[u]
          /\ \/ Starts(t) \/ Refused(t) \/ Posts(t) \/ Looks(t) \/ Wakes(t)
             \/ Returns(t) \/ Stays
      BY <2>3, ThreadMoves, ThreadKinds
    <3>2. Orderly /\ SlotShape /\ SameEvents
      BY <3>1 DEF Orderly, ringVars, cursors, SlotInv, SameEvents
    <3>3. \A i \in Slots : (Live(i)' <=> Live(i)) /\ (Marking(i)' <=> Marking(i))
      BY <3>1 DEF Live, Handling, Marking, ringVars, cursors
    <3>4. CASE Starts(t) /\ ~resetX
      <4>1. WaitShape /\ \A u \in Threads : Own(u)
        BY <3>2, <3>4 DEF Starts, WaitInv, Serving, OwnInv
      <4>2. ASSUME NEW i \in Slots, Live(i), owner[lq[i].sem] = t
            PROVE  Marking(i)
        <5>1. SUFFICES ASSUME Open(i) PROVE FALSE
          BY <4>2 DEF Live, Open
        <5>2. PICK u \in Threads : thr[u].pc \in InCall /\ thr[u].ev = i
          BY <4>1, <5>1 DEF WaitShape, Attended
        <5>3. u = t
          BY <4>1, <4>2, <5>2, NoneOutside DEF Own
        <5>4. QED
          BY <3>4, <5>2, <5>3 DEF Starts, InCall
      <4>3. QED
        BY <3>1, <3>2, <3>3, <4>2 DEF SlotShape, SameEvents
    <3>5. CASE ~Starts(t) \/ resetX
      <4>1. \A u \in Threads : thr'[u].pc = "lock" => thr[u].pc = "lock"
        BY <3>1, <3>5 DEF Starts, Refused, Posts, Looks, Wakes, Returns, Stays
      <4>2. QED
        BY <3>1, <3>2, <3>3, <4>1, SlotKept
    <3>6. QED
      BY <3>4, <3>5
  <2>4. QED
    BY <2>1, <2>2, <2>3
<1>2. CASE Scheduler
  <2>1. SameEvents /\ UNCHANGED <<lapped, session, thr, owner>>
    BY <1>2, SchedulerMoves
  <2>2. Orderly /\ SlotShape /\ RingShape
    BY <2>1 DEF Orderly, SlotInv, RingInv
  <2>3. QED
    BY <1>2, <2>1, <2>2, LiveScheduler, SlotKept
<1>3. CASE Reader
  <2>1. /\ SameEvents /\ UNCHANGED <<session, thr, owner, sched, fresh>>
        /\ lapped => lapped'
        /\ Listens \/ (\E i \in Slots : GivesUp(i)) \/ ReaderMarks
    BY <1>3, ReaderMoves
  <2>2. Orderly /\ SlotShape
    BY <2>1 DEF Orderly, SlotInv
  <2>3. \A i \in Slots : Live(i)' => Live(i) /\ (Marking(i) => Marking(i)')
    BY <2>1 DEF Listens, GivesUp, ReaderMarks, SameStates, Becomes, Live,
       Handling, Marking
  <2>4. QED
    BY <2>1, <2>2, <2>3, SlotKept
<1>4. CASE UNCHANGED <<ringVars, sched, session, thr, owner>>
  <2>1. Orderly /\ SlotShape /\ SameEvents
    BY <1>4 DEF Orderly, ringVars, cursors, SlotInv, SameEvents
  <2>2. \A i \in Slots : (Live(i)' <=> Live(i)) /\ (Marking(i)' <=> Marking(i))
    BY <1>4 DEF Live, Handling, Marking, ringVars, cursors
  <2>3. QED
    BY <1>4, <2>1, <2>2, SlotKept
<1>5. CASE Peer \/ LinkFails
  BY <1>4, <1>5, PeerMoves DEF semVars
<1>6. CASE UNCHANGED vars
  BY <1>4, <1>6 DEF vars, envVars, semVars
<1>7. QED
  BY <1>1, <1>2, <1>3, <1>5, <1>6 DEF Next

LEMMA SlotHolds == Spec => []SlotInv
<1>1. Init => SlotInv
  BY DEF Init, SlotInv, SlotShape, Live, Handling, ToFetch, NewSlot
<1>2. QED
  BY <1>1, SlotStep, TypeCorrect, BeforeFirstHolds, SemCounts, RingHolds,
     OwnHolds, WaitHolds, PTL DEF Spec

\* A thread whose add has a semaphore finds a slot for its event, as long as
\* no event was put over one in use: addNextQueueElemToProc, which does not
\* test the slot it looks for, meets no full ring. The slots in use have one
\* semaphore each, the one that is being marked apart, and none of the others
\* has the semaphore of the new event; there are more slots than semaphores.
THEOREM AddsFindSlots == Spec => []AddFindsSlot
<1>1. TypeOK /\ SemRefsMatch /\ SlotInv => AddFindsSlot
  <2> SUFFICES ASSUME TypeOK, SemRefsMatch, SlotInv, Orderly, NEW t \in Threads,
                      thr[t].pc = "lock", SemFor(t) # None,
                      NextWithState(lq, lcur, "SERVED") = None
               PROVE  FALSE
    BY DEF AddFindsSlot
  <2> DEFINE s == SemFor(t)
             f == [i \in Slots |-> IF Marking(i) THEN s ELSE lq[i].sem]
  <2>1. SlotShape /\ session <= 1
    BY DEF SlotInv, Orderly
  <2>2. \A i \in Slots : Live(i)
    <3>1. lcur \in Slots
      BY DEF TypeOK, RingsOK
    <3>2. \A i \in Slots : lq[i].st # "SERVED"
      BY <3>1, NextWithStateFinds, NoneOutside
    <3>3. QED
      BY <3>2 DEF Live
  <2>3. s \in Sems
    BY SemForType
  <2>4. ASSUME NEW i \in Slots, lq[i].sem = s PROVE Marking(i)
    <3>1. refs[s] > 0 /\ refs[s] \in Int
      BY <2>1, <2>3, <2>4, ReferredIsLive DEF TypeOK, SemsOK
    <3>2. refs[s] > 0 => owner[s] = t
      <4>1. ~(refs[s] > 0 /\ refs[s] < 0)
        BY <3>1
      <4>2. QED
        BY <2>3, <4>1, SemForOwn
    <3>3. QED
      BY <2>1, <2>2, <2>4, <3>1, <3>2 DEF SlotShape
  <2>5. f \in [Slots -> Sems]
    BY <2>1, <2>2, <2>3 DEF SlotShape
  <2>6. /\ IsFiniteSet(Slots) /\ Cardinality(Slots) = MaxEvents
        /\ IsFiniteSet(Sems) /\ Cardinality(Sems) = MaxSemaphores
    BY FS_Interval, DispatcherAssumption DEF Slots, Sems, DispatcherAssumption
  <2>7. Cardinality(Sems) < Cardinality(Slots)
    BY <2>6, DispatcherAssumption DEF DispatcherAssumption
  <2> HIDE DEF s
  <2>8. PICK x \in Slots, y \in Slots : x # y /\ f[x] = f[y]
    <3> HIDE DEF f
    <3>1. QED
      BY <2>5, <2>6, <2>7, FS_PigeonHole
  <2>9. ~Marking(x) \/ ~Marking(y)
    BY <2>8 DEF Marking
  <2>10. CASE ~Marking(x) /\ ~Marking(y)
    BY <2>1, <2>2, <2>8, <2>10 DEF SlotShape
  <2>11. CASE Marking(x) \/ Marking(y)
    BY <2>4, <2>8, <2>9, <2>11
  <2>12. QED
    BY <2>10, <2>11
<1>2. QED
  BY <1>1, TypeCorrect, SemCounts, SlotHolds, PTL

-----------------------------------------------------------------------------
(* The messages of a queue.                                                  *)

Msgs(q, c) == {q[k] : k \in {x \in DOMAIN q : q[x].kind = c}}

\* No two messages of kind c have the same identifier.
Once(q, c) ==
  \A k, l \in DOMAIN q :
    q[k].kind = c /\ q[l].kind = c /\ q[k].id = q[l].id => k = l

LEMMA TailMsgs ==
  ASSUME NEW q \in Seq(Messages), q # <<>>, NEW c, Once(q, c)
  PROVE  /\ Once(Tail(q), c) /\ Msgs(Tail(q), c) \subseteq Msgs(q, c)
         /\ Head(q).kind = c =>
              /\ Head(q) \in Msgs(q, c)
              /\ \A m \in Msgs(Tail(q), c) : m.id # Head(q).id
<1> DEFINE r == Tail(q)
           h == Head(q)
<1>1. /\ Len(q) \in Nat \ {0} /\ DOMAIN q = 1 .. Len(q) /\ h = q[1]
      /\ DOMAIN r = 1 .. Len(q) - 1 /\ \A k \in 1 .. Len(q) - 1 : r[k] = q[k + 1]
  OBVIOUS
<1> HIDE DEF r, h
<1>2. Once(r, c)
  <2> SUFFICES ASSUME NEW k \in DOMAIN r, NEW l \in DOMAIN r, r[k].kind = c,
                      r[l].kind = c, r[k].id = r[l].id
               PROVE  k = l
    BY DEF Once
  <2>1. k + 1 \in DOMAIN q /\ l + 1 \in DOMAIN q
    BY <1>1
  <2>2. k + 1 = l + 1
    BY <1>1, <2>1 DEF Once
  <2>3. QED
    BY <1>1, <2>2
<1>3. ASSUME NEW m \in Msgs(r, c)
      PROVE  m \in Msgs(q, c) /\ (h.kind = c => m.id # h.id)
  <2>1. PICK k \in DOMAIN r : r[k].kind = c /\ m = r[k]
    BY <1>3 DEF Msgs
  <2>2. k + 1 \in DOMAIN q /\ 1 \in DOMAIN q /\ k + 1 # 1 /\ m = q[k + 1]
    BY <1>1, <2>1
  <2>3. QED
    BY <1>1, <2>1, <2>2 DEF Msgs, Once
<1>4. h.kind = c => h \in Msgs(q, c)
  BY <1>1 DEF Msgs
<1>5. QED
  BY <1>2, <1>3, <1>4 DEF r, h

LEMMA AppendMsgs ==
  ASSUME NEW q \in Seq(Messages), NEW m \in Messages, NEW c, Once(q, c),
         m.kind = c => \A n \in Msgs(q, c) : n.id # m.id
  PROVE  /\ Once(Append(q, m), c)
         /\ \A n \in Msgs(Append(q, m), c) :
              n \in Msgs(q, c) \/ (n = m /\ m.kind = c)
<1> DEFINE r == Append(q, m)
<1>1. /\ Len(q) \in Nat /\ DOMAIN q = 1 .. Len(q)
      /\ DOMAIN r = 1 .. Len(q) + 1 /\ r[Len(q) + 1] = m
      /\ \A k \in 1 .. Len(q) : r[k] = q[k]
  OBVIOUS
<1> HIDE DEF r
<1>2. ASSUME NEW k \in DOMAIN r, r[k].kind = c
      PROVE  \/ k \in DOMAIN q /\ r[k] = q[k] /\ q[k] \in Msgs(q, c)
             \/ k = Len(q) + 1 /\ r[k] = m /\ m.kind = c
  <2>1. k \in DOMAIN q \/ k = Len(q) + 1
    BY <1>1
  <2>2. QED
    BY <1>1, <1>2, <2>1 DEF Msgs
<1>3. Once(r, c)
  BY <1>2 DEF Once
<1>4. \A n \in Msgs(r, c) : n \in Msgs(q, c) \/ (n = m /\ m.kind = c)
  BY <1>2 DEF Msgs
<1>5. QED
  BY <1>3, <1>4 DEF r

-----------------------------------------------------------------------------
(* The requests in flight.                                                   *)

\* The scheduler is in its loop: it has not begun the drain of a reset, after
\* which no response is handled any more.
LoopOn ==
  \/ sched.pc \in {"fetch", "handle"}
  \/ sched.pc = "mark" /\ sched.then = "fetch"

Listening == reader.pc \in {"read", "post", "next"}

\* The responses that were received and not yet handled.
InRing(i) ==
  \/ Waiting(i, rproc) < Waiting(rcur, rproc)
  \/ sched.pc = "handle" /\ sched.ring = "r" /\ sched.ev = i

Received == {rq[i] : i \in {x \in Slots : InRing(x) /\ rq[x].kind = "resp"}}

ReceivedOnce ==
  \A i, j \in Slots :
    /\ InRing(i) /\ InRing(j) /\ rq[i].kind = "resp" /\ rq[j].kind = "resp"
    /\ rq[i].id = rq[j].id
    => i = j

\* The event of slot i waits for its response.
Pending(i) ==
  lq[i].st = "PENDING" /\ ~Marking(i) /\ ~(reader.pc = "mark" /\ reader.ev = i)

\* The request that message m is or answers waits for its response.
Expected(m) ==
  \E i \in Slots : Pending(i) /\ lq[i].id = m.id /\ lq[i].type = m.type

Apart(S, T) == \A m \in S, n \in T : m.id # n.id

\* The events in use have identifiers of their own, the remote event that is
\* handled is out of the ring, and a nack comes from a refused WRITE or from
\* the reader, which then reads no more.
SlotsOK ==
  /\ \A i \in Slots : Handling(i) => lq[i].st \notin {"PENDING", "BLOCKED"}
  /\ sched.pc = "handle" /\ sched.ring = "r" => Inc(sched.ev) = rproc
  /\ \A i, j \in Slots : Live(i) /\ Live(j) /\ lq[i].id = lq[j].id => i = j
  /\ Listening => \A i \in Slots : Live(i) /\ lq[i].type # "WRITE" => lq[i].ack

\* A request is in one place on its way to the peer and back, and its event
\* is pending.
WireShape ==
  /\ Once(toPeer, "req") /\ Once(fromPeer, "resp")
  /\ \A m \in Msgs(toPeer, "req") \cup Msgs(fromPeer, "resp") : Expected(m)
  /\ Apart(Msgs(toPeer, "req"), Msgs(fromPeer, "resp"))
  /\ Apart(Msgs(toPeer, "req"), Received)
  /\ Apart(Msgs(fromPeer, "resp"), Received)

FlightShape ==
  /\ SlotsOK /\ ReceivedOnce
  /\ \A m \in Received : Expected(m)
  /\ Listening => WireShape

FlightInv == Orderly /\ LoopOn => FlightShape

\* A step after which every event that waited still waits.
LEMMA ExpectedKept ==
  ASSUME NEW m,
         \A i \in Slots : Pending(i) => /\ Pending(i)'
                                        /\ lq'[i].id = lq[i].id
                                        /\ lq'[i].type = lq[i].type
  PROVE  Expected(m) => Expected(m)'
BY DEF Expected

\* A step that only takes responses from the ring of received messages.
LEMMA ReceivedKept ==
  ASSUME rq' = rq, \A i \in Slots : InRing(i)' => InRing(i)
  PROVE  Received' \subseteq Received /\ (ReceivedOnce => ReceivedOnce')
BY DEF Received, ReceivedOnce

\* A step that sends and receives nothing and completes no request.
LEMMA FlightKept ==
  ASSUME FlightShape, SlotsOK', rq' = rq, fromPeer' = fromPeer,
         Listening' => Listening /\ toPeer' = toPeer,
         \A i \in Slots : InRing(i)' => InRing(i),
         \A i \in Slots : Pending(i) => /\ Pending(i)'
                                        /\ lq'[i].id = lq[i].id
                                        /\ lq'[i].type = lq[i].type
  PROVE  FlightShape'
<1>1. Received' \subseteq Received /\ ReceivedOnce'
  BY ReceivedKept DEF FlightShape
<1>2. \A m : Expected(m) => Expected(m)'
  BY ExpectedKept
<1>3. ASSUME Listening' PROVE WireShape'
  BY <1>1, <1>2, <1>3 DEF FlightShape, WireShape, Apart
<1>4. QED
  BY <1>1, <1>2, <1>3 DEF FlightShape

-----------------------------------------------------------------------------
(* The steps of the scheduler.                                               *)

LEMMA UnblockAck ==
  ASSUME NEW q \in [Slots -> Slot], NEW ty, NEW i \in Slots
  PROVE  Unblock(q, ty)[i].ack = q[i].ack
<1>1. \/ Unblock(q, ty) = q
      \/ \E j : Unblock(q, ty) = [q EXCEPT ![j].st = "READY"]
  BY DEF Unblock
<1>2. q[i] \in Slot
  OBVIOUS
<1>3. ASSUME NEW j, Unblock(q, ty) = [q EXCEPT ![j].st = "READY"]
      PROVE  Unblock(q, ty)[i].ack = q[i].ack
  <2>1. Unblock(q, ty)[i] = IF i = j THEN [q[i] EXCEPT !.st = "READY"] ELSE q[i]
    BY <1>3
  <2>2. QED
    BY <1>2, <2>1 DEF Slot
<1>4. QED
  BY <1>1, <1>3

\* The events of the local ring are requests that a handler knows.
KnownTypes ==
  /\ \A i \in Slots : lq[i].type \in DOMAIN Outcomes
  /\ \A t \in Threads : thr[t].type \in DOMAIN Outcomes \cup {"CONNECT"}

LEMMA KnownStep == TypeOK /\ KnownTypes /\ [Next]_vars => KnownTypes'
<1> SUFFICES ASSUME TypeOK, KnownTypes, [Next]_vars PROVE KnownTypes'
  OBVIOUS
<1>p. "PING" \in DOMAIN Outcomes
  BY DEF Outcomes
<1> HIDE DEF Outcomes
<1>a. ASSUME SameEvents, thr' = thr PROVE KnownTypes'
  BY <1>a DEF KnownTypes, SameEvents
<1>1. CASE \E t \in Threads : Thread(t)
  <2> PICK t \in Threads : Thread(t)
    BY <1>1
  <2>1. CASE AddEvent(t)
    <3>1. PICK i \in Slots :
            /\ \A j \in Slots : j # i => lq'[j] = lq[j]
            /\ lq'[i].type = IF thr[t].type = "CONNECT" THEN "PING"
                             ELSE thr[t].type
            /\ thr' = [thr EXCEPT ![t].pc = "post", ![t].ev = i,
                                  ![t].id = nextId + 1]
      BY <2>1, AddMoves
    <3>2. \A u \in Threads : thr'[u].type = thr[u].type
      BY <3>1 DEF TypeOK, ThreadsOK
    <3>3. QED
      BY <1>p, <3>1, <3>2 DEF KnownTypes
  <2>2. CASE Connect(t)
    <3>1. \A i \in Slots : lq'[i].type = lq[i].type
      BY <2>2 DEF Connect, TypeOK, RingsOK, Slot
    <3>2. \A u \in Threads : thr'[u].type \in {thr[u].type, "CONNECT"}
      BY <2>2 DEF Connect, IdleThread, TypeOK, ThreadsOK
    <3>3. QED
      BY <3>1, <3>2 DEF KnownTypes
  <2>3. CASE ~AddEvent(t) /\ ~Connect(t)
    <3>1. lq' = lq
      BY <2>3, ThreadMoves DEF ringVars
    <3>2. \A u \in Threads : thr'[u].type \in {thr[u].type, "PING"} \cup LocalTypes
      BY <2>3, ThreadKinds DEF Starts, Refused, Posts, Looks, Wakes, Returns,
         Stays, Same
    <3>3. LocalTypes \subseteq DOMAIN Outcomes
      BY DispatcherAssumption DEF DispatcherAssumption
    <3>4. QED
      BY <1>p, <3>1, <3>2, <3>3 DEF KnownTypes
  <2>4. QED
    BY <2>1, <2>2, <2>3
<1>2. CASE Scheduler
  BY <1>2, <1>a, SchedulerMoves
<1>3. CASE Reader
  BY <1>3, <1>a, ReaderMoves
<1>4. CASE Peer \/ LinkFails
  BY <1>4, <1>a, PeerMoves DEF ringVars, SameEvents
<1>5. CASE UNCHANGED vars
  BY <1>5, <1>a DEF vars, ringVars, SameEvents
<1>6. QED
  BY <1>1, <1>2, <1>3, <1>4, <1>5 DEF Next

LEMMA KnownHolds == Spec => []KnownTypes
<1>1. Init => KnownTypes
  BY DEF Init, KnownTypes, NewSlot, IdleThread, Outcomes
<1>2. QED
  BY <1>1, KnownStep, TypeCorrect, PTL DEF Spec

\* No step of the scheduler takes an acknowledgement back from an event that
\* is not a WRITE.
LEMMA AcksKept ==
  ASSUME TypeOK, KnownTypes, Scheduler, NEW i \in Slots, lq[i].ack, lq[i].type # "WRITE"
  PROVE  lq'[i].ack
<1> USE DEF TypeOK, RingsOK, SchedOK, Slot
<1>1. CASE FetchReady \/ FetchNext("fetch") \/ FetchNext("drain")
  BY <1>1 DEF FetchReady, FetchNext, TakeLocal, TakeRemote, TakeNone, ringVars
<1>2. CASE HandleServe
  <2>1. lq'[i] = lq[i] \/ lq'[i].ack
    BY <1>2 DEF HandleServe, HandlingLocal
  <2>2. QED
    BY <2>1
<1>3. CASE HandleRefuse
  <2>1. lq[sched.ev].type = "WRITE" /\ sched.ev \in Slots
    BY <1>3 DEF HandleRefuse, HandlingLocal, Outcomes, KnownTypes
  <2>2. lq'[i] = lq[i]
    BY <1>3, <2>1 DEF HandleRefuse
  <2>3. QED
    BY <2>2
<1>4. CASE HandleBlock
  BY <1>4 DEF HandleBlock, HandlingLocal
<1>5. CASE HandleSend
  <2>1. lq'[i] = lq[i] \/ lq'[i].ack = lq[i].ack \/ lq'[i].ack
    BY <1>5, ZenonT(30) DEF HandleSend, HandlingLocal
  <2>2. QED
    BY <2>1
<1>6. CASE HandleRemoteRequest
  <2> DEFINE w == Unblock(lq, "WRITE")
  <2>1. w \in [Slots -> Slot]
    BY UnblockType
  <2>2. lq' = lq \/ lq' = Unblock(lq, "READ") \/ lq' = w
        \/ lq' = Unblock(w, "CLOSE")
    BY <1>6 DEF HandleRemoteRequest
  <2>3. w[i].ack = lq[i].ack /\ Unblock(lq, "READ")[i].ack = lq[i].ack
    BY UnblockAck, ZenonT(30)
  <2> HIDE DEF w
  <2>4. Unblock(w, "CLOSE")[i].ack = w[i].ack
    BY <2>1, UnblockAck
  <2>5. QED
    BY <2>2, <2>3, <2>4
<1>7. CASE HandleResponse \/ StartReset \/ FlushPending \/ FinishReset
  BY <1>7 DEF HandleResponse, StartReset, FlushPending, FinishReset, ringVars
<1>8. CASE FinishServe
  BY <1>8 DEF FinishServe
<1>9. QED
  BY <1>1, <1>2, <1>3, <1>4, <1>5, <1>6, <1>7, <1>8 DEF Scheduler

\* The loop is not entered again once it was left.
LEMMA LoopGoesOn ==
  ASSUME TypeOK, DrainInv, Scheduler, LoopOn'
  PROVE  LoopOn
<1> USE DEF LoopOn
<1>1. CASE \E from \in {"fetch", "drain"} : FetchNext(from)
  BY <1>1, FetchMoves
  DEF TakesLocal, TakesRemote, TakesNone, Fetched, ToFetch
<1>2. CASE \E i \in Slots : Blocks(i) \/ Pends(i)
  BY <1>2 DEF Blocks, Pends, Handling
<1>3. CASE \E i \in Slots : Serves(i)
  BY <1>3 DEF Serves, ServesFor, Handling, HandlingRemote
<1>4. CASE TakesReady \/ Unblocks \/ Aborts
  BY <1>4 DEF TakesReady, Unblocks, Aborts, HandlingRemote
<1>5. CASE Marks
  BY <1>5 DEF Marks, ToFetch, DrainInv
<1>6. CASE Resets
  BY <1>6 DEF Resets, ToFetch
<1>7. QED
  BY <1>1, <1>2, <1>3, <1>4, <1>5, <1>6, SchedulerMoves

LEMMA SlotsScheduler ==
  ASSUME TypeOK, KnownTypes, RingInv, RingShape, SlotsOK, Scheduler, LoopOn'
  PROVE  SlotsOK'
<1>1. SameEvents /\ UNCHANGED <<reader, rq>>
  BY SchedulerMoves
<1>2. \A i \in Slots : Live(i)' => Live(i)
  BY LiveScheduler
<1>3. \A i, j \in Slots : Live(i)' /\ Live(j)' /\ lq'[i].id = lq'[j].id => i = j
  BY <1>1, <1>2 DEF SlotsOK, SameEvents
<1>4. Listening' => \A i \in Slots : Live(i)' /\ lq'[i].type # "WRITE" =>
                                       lq'[i].ack
  BY <1>1, <1>2, AcksKept DEF SlotsOK, SameEvents, Listening
<1>5. /\ \A i \in Slots : Handling(i)' => lq'[i].st \notin {"PENDING", "BLOCKED"}
      /\ sched'.pc = "handle" /\ sched'.ring = "r" => Inc(sched'.ev) = rproc'
  <2> USE DEF Handling
  <2>1. CASE \E from \in {"fetch", "drain"} : FetchNext(from)
    <3>1. PICK from \in {"fetch", "drain"} : FetchNext(from)
      BY <2>1
    <3>2. /\ lq' = lq /\ sched.pc = from
          /\ TakesLocal(from) \/ TakesRemote(from) \/ TakesNone(from)
      BY <3>1, FetchMoves
    <3>3. QED
      BY <3>2 DEF TakesLocal, TakesRemote, TakesNone, Fetched, ToFetch
  <2>2. CASE \E i \in Slots : Blocks(i) \/ Pends(i)
    BY <2>2 DEF Blocks, Pends, ToFetch
  <2>3. CASE \E i \in Slots : Serves(i)
    BY <2>3 DEF Serves, ServesFor
  <2>4. CASE TakesReady
    BY <2>4 DEF TakesReady
  <2>5. CASE Unblocks \/ Resets
    BY <2>5 DEF Unblocks, Resets, ToFetch
  <2>6. CASE Marks
    BY <2>6 DEF Marks, ToFetch, TypeOK, SchedOK
  <2>7. CASE Aborts
    BY <2>7 DEF Aborts, HandlingRemote, SlotsOK, Quiet
  <2>8. QED
    BY <2>1, <2>2, <2>3, <2>4, <2>5, <2>6, <2>7, SchedulerMoves
<1>6. QED
  BY <1>3, <1>4, <1>5 DEF SlotsOK

\* A response that is handled leaves the ring of received messages.
LEMMA HandledLeaves ==
  ASSUME TypeOK, FlightShape, HandlingRemote("resp"), sched'.pc # "handle",
         UNCHANGED <<rq, rcur, rproc>>
  PROVE  /\ rq[sched.ev] \in Received
         /\ Received' \subseteq Received /\ ReceivedOnce'
         /\ \A m \in Received' : m.id # rq[sched.ev].id
<1> DEFINE h == sched.ev
<1>1. h \in Slots /\ InRing(h) /\ rq[h].kind = "resp"
  BY DEF HandlingRemote, InRing, TypeOK, SchedOK
<1>2. rcur \in Slots /\ Inc(h) = rproc
  BY DEF HandlingRemote, FlightShape, SlotsOK, TypeOK, RingsOK
<1>3. ~(Waiting(h, rproc) < Waiting(rcur, rproc))
  <2>1. Waiting(h, Inc(h)) = MaxEvents - 1
    BY <1>1, Distance
  <2>2. Waiting(rcur, rproc) \in 0 .. MaxEvents - 1
    BY <1>2, Distance DEF TypeOK, RingsOK
  <2>3. MaxEvents \in Nat
    BY DispatcherAssumption DEF DispatcherAssumption
  <2> HIDE DEF h
  <2>4. QED
    BY <1>2, <2>1, <2>2, <2>3
<1>4. \A i \in Slots : InRing(i)' => InRing(i) /\ i # h
  BY <1>3 DEF InRing, Waiting
<1>5. Received' \subseteq Received /\ ReceivedOnce'
  BY <1>4, ReceivedKept DEF FlightShape
<1>6. ASSUME NEW m \in Received' PROVE m.id # rq[h].id
  <2>1. PICK i \in Slots : InRing(i)' /\ rq[i].kind = "resp" /\ m = rq[i]
    BY <1>6 DEF Received
  <2>2. QED
    BY <1>1, <1>4, <2>1 DEF FlightShape, ReceivedOnce
<1>7. QED
  BY <1>1, <1>5, <1>6 DEF Received

LEMMA FlightServed ==
  ASSUME TypeOK, FlightShape, Scheduler, SlotsOK', NEW i \in Slots, Serves(i),
         HandlingRemote("resp"), LoopOn
  PROVE  FlightShape'
<1>1. /\ SameEvents /\ UNCHANGED <<rq, rcur, reader, fromPeer>>
      /\ SameStates /\ rproc' = rproc
  BY SchedulerMoves DEF Serves, Quiet
<1>2. /\ sched' = [pc |-> "mark", ring |-> "l", ev |-> i, then |-> "fetch"]
      /\ toPeer' = toPeer /\ lq[i].id = rq[sched.ev].id
  BY DEF Serves, ServesFor, HandlingRemote, Handling, Unsent
<1> DEFINE h == rq[sched.ev]
<1>3. /\ h \in Received /\ Received' \subseteq Received /\ ReceivedOnce'
      /\ \A m \in Received' : m.id # h.id
  BY <1>1, <1>2, HandledLeaves
<1>4. ASSUME NEW m, Expected(m), m.id # h.id PROVE Expected(m)'
  <2>1. PICK j \in Slots : Pending(j) /\ lq[j].id = m.id /\ lq[j].type = m.type
    BY <1>4 DEF Expected
  <2>2. Pending(j)'
    BY <1>1, <1>2, <1>4, <2>1 DEF Pending, Marking, SameStates
  <2>3. QED
    BY <1>1, <2>1, <2>2 DEF Expected, SameEvents
<1>5. \A m \in Received' : Expected(m)'
  BY <1>3, <1>4 DEF FlightShape
<1>6. ASSUME Listening' PROVE WireShape'
  <2>1. WireShape
    BY <1>1, <1>6 DEF FlightShape, Listening
  <2>2. \A m \in Msgs(toPeer, "req") \cup Msgs(fromPeer, "resp") : m.id # h.id
    BY <1>3, <2>1 DEF WireShape, Apart
  <2>3. QED
    BY <1>1, <1>2, <1>3, <1>4, <2>1, <2>2 DEF WireShape, Apart
<1>7. QED
  BY <1>3, <1>5, <1>6 DEF FlightShape

LEMMA FlightSent ==
  ASSUME TypeOK, FlightShape, Scheduler, SlotsOK', NEW i \in Slots, Pends(i)
  PROVE  FlightShape'
<1>1. /\ SameEvents /\ UNCHANGED <<rq, rcur, reader, fromPeer>> /\ rproc' = rproc
      /\ sched' = ToFetch("fetch") /\ Handling(i) /\ Becomes(i, "PENDING")
      /\ Send(Request(i))
  BY SchedulerMoves DEF Pends, Quiet
<1>2. Received' \subseteq Received /\ ReceivedOnce'
  BY <1>1, ReceivedKept DEF FlightShape, InRing, Waiting, ToFetch
<1>3. \A j \in Slots : Pending(j) => Pending(j)' /\ j # i
  BY <1>1 DEF Pending, Becomes, Marking, ToFetch, FlightShape, SlotsOK
<1>4. \A m : Expected(m) => Expected(m)'
  BY <1>1, <1>3, ExpectedKept DEF SameEvents
<1>5. ASSUME NEW m, Expected(m) PROVE m.id # lq[i].id
  <2>1. PICK j \in Slots : Pending(j) /\ lq[j].id = m.id
    BY <1>5 DEF Expected
  <2>2. j # i /\ Live(j) /\ Live(i)
    BY <1>1, <1>3, <2>1 DEF Pending, Live
  <2>3. QED
    BY <2>1, <2>2 DEF FlightShape, SlotsOK
<1>6. ASSUME Listening' PROVE WireShape'
  <2>1. WireShape /\ reader.pc # "mark"
    BY <1>1, <1>6 DEF FlightShape, Listening
  <2>2. PICK r \in Messages :
          r = Request(i) /\ r.kind = "req" /\ r.id = lq[i].id /\ r.type = lq[i].type
    <3>1. lq[i].type \in Types /\ lq[i].id \in Nat
      BY DEF TypeOK, RingsOK, Slot
    <3>2. Request(i) \in Messages
      BY <3>1 DEF Request, Messages
    <3>3. QED
      BY <3>2 DEF Request
  <2>3. Expected(r)'
    BY <1>1, <2>1, <2>2
    DEF Expected, Pending, Marking, Becomes, ToFetch, SameEvents
  <2>4. toPeer' = toPeer \/ toPeer' = Append(toPeer, r)
    BY <1>1, <2>2 DEF Send
  <2>5. \A m \in Msgs(toPeer, "req") \cup Msgs(fromPeer, "resp") \cup Received :
          Expected(m) /\ m.id # r.id
    BY <1>5, <2>1, <2>2 DEF FlightShape, WireShape
  <2>6. /\ Once(toPeer', "req")
        /\ \A m \in Msgs(toPeer', "req") : m \in Msgs(toPeer, "req") \/ m = r
    <3>1. toPeer \in Seq(Messages) /\ Once(toPeer, "req")
      BY <2>1 DEF TypeOK, WireOK, WireShape
    <3>2. \A m \in Msgs(toPeer, "req") : m.id # r.id
      BY <2>5
    <3>3. /\ Once(Append(toPeer, r), "req")
          /\ \A m \in Msgs(Append(toPeer, r), "req") :
               m \in Msgs(toPeer, "req") \/ m = r
      BY <3>1, <3>2, AppendMsgs
    <3>4. QED
      BY <2>4, <3>1, <3>3
  <2>7. QED
    BY <1>1, <1>2, <1>4, <2>1, <2>3, <2>5, <2>6 DEF WireShape, Apart
<1>7. QED
  BY <1>2, <1>4, <1>6 DEF FlightShape

LEMMA FlightAnswer ==
  ASSUME TypeOK, FlightShape, Scheduler, SlotsOK', Unblocks
  PROVE  FlightShape'
<1>1. /\ SameEvents /\ UNCHANGED <<rq, rcur, reader, fromPeer>> /\ rproc' = rproc
      /\ sched'.pc \in {"fetch", "join"}
  BY SchedulerMoves DEF Unblocks, ToFetch
<1>2. Received' \subseteq Received /\ ReceivedOnce'
  BY <1>1, ReceivedKept DEF FlightShape, InRing, Waiting
<1>3. \A j \in Slots : Pending(j) => Pending(j)'
  BY <1>1 DEF Pending, Marking, Unblocks
<1>4. \A m : Expected(m) => Expected(m)'
  BY <1>1, <1>3, ExpectedKept DEF SameEvents
<1>5. ASSUME Listening' PROVE WireShape'
  <2>1. WireShape
    BY <1>1, <1>5 DEF FlightShape, Listening
  <2>2. PICK r \in Messages : r.kind = "resp" /\ Send(r)
    BY DEF Unblocks
  <2>3. toPeer' = toPeer \/ toPeer' = Append(toPeer, r)
    BY <2>2 DEF Send
  <2>4. Once(toPeer', "req") /\ Msgs(toPeer', "req") \subseteq Msgs(toPeer, "req")
    <3>1. toPeer \in Seq(Messages) /\ Once(toPeer, "req") /\ r.kind # "req"
      BY <2>1, <2>2 DEF TypeOK, WireOK, WireShape
    <3>2. /\ Once(Append(toPeer, r), "req")
          /\ \A m \in Msgs(Append(toPeer, r), "req") : m \in Msgs(toPeer, "req")
      BY <3>1, AppendMsgs
    <3>3. QED
      BY <2>3, <3>1, <3>2
  <2>5. QED
    BY <1>1, <1>2, <1>4, <2>1, <2>4 DEF WireShape, Apart
<1>6. QED
  BY <1>2, <1>4, <1>5 DEF FlightShape

LEMMA FlightScheduler ==
  ASSUME TypeOK, KnownTypes, RingInv, RingShape, DrainInv, FlightShape,
         Scheduler, LoopOn, LoopOn'
  PROVE  FlightShape'
<1>1. SlotsOK'
  BY SlotsScheduler DEF FlightShape
<1>2. SameEvents /\ UNCHANGED <<rq, rcur, reader, fromPeer>>
  BY SchedulerMoves
<1>3. ASSUME Listening => toPeer' = toPeer,
             \A i \in Slots : InRing(i)' => InRing(i),
             \A i \in Slots : Pending(i) => lq'[i].st = "PENDING" /\ ~Marking(i)'
      PROVE  FlightShape'
  <2>1. \A i \in Slots : Pending(i) => Pending(i)'
    BY <1>2, <1>3 DEF Pending
  <2>2. Listening' <=> Listening
    BY <1>2 DEF Listening
  <2>3. QED
    BY <1>1, <1>2, <1>3, <2>1, <2>2, FlightKept DEF SameEvents
<1>4. ASSUME rproc' = rproc,
             sched'.pc = "handle" /\ sched'.ring = "r" => sched' = sched
      PROVE  \A i \in Slots : InRing(i)' => InRing(i)
  BY <1>2, <1>4 DEF InRing, Waiting
<1>5. CASE \E from \in {"fetch", "drain"} : FetchNext(from)
  <2>1. PICK from \in {"fetch", "drain"} : FetchNext(from)
    BY <1>5
  <2>2. /\ lq' = lq /\ toPeer' = toPeer /\ from = "fetch" /\ sched.pc = "fetch"
        /\ TakesLocal(from) \/ TakesRemote(from) \/ TakesNone(from)
    BY <2>1, FetchMoves DEF LoopOn
  <2>3. sched'.pc # "mark"
    BY <2>2 DEF TakesLocal, TakesRemote, TakesNone, Fetched
  <2>4. \A i \in Slots : InRing(i)' => InRing(i)
    <3>1. CASE TakesLocal(from) \/ TakesNone(from)
      BY <1>4, <2>2, <3>1 DEF TakesLocal, TakesNone, Fetched
    <3>2. CASE TakesRemote(from)
      <4>1. /\ rcur # rproc /\ rproc' = Inc(rproc) /\ rcur' = rcur
            /\ sched'.ev = rproc /\ rcur \in Slots /\ rproc \in Slots
        BY <1>2, <2>2, <3>2 DEF TakesRemote, Fetched, TypeOK, RingsOK
      <4>2. /\ Waiting(rcur, Inc(rproc)) = Waiting(rcur, rproc) - 1
            /\ Waiting(rproc, rproc) = 0 /\ Waiting(rcur, rproc) \in Nat \ {0}
        BY <4>1, Distance
      <4>3. ASSUME NEW i \in Slots, InRing(i)' PROVE InRing(i)
        <5>1. CASE i = rproc
          BY <4>2, <5>1 DEF InRing
        <5>2. CASE i # rproc
          <6>1. Waiting(i, Inc(rproc)) = Waiting(i, rproc) - 1
                /\ Waiting(i, rproc) \in Nat
            BY <4>1, <5>2, Distance
          <6>2. Waiting(i, rproc)' < Waiting(rcur, rproc)'
            BY <4>1, <4>3, <5>2 DEF InRing
          <6>3. /\ Waiting(i, rproc)' = Waiting(i, Inc(rproc))
                /\ Waiting(rcur, rproc)' = Waiting(rcur, Inc(rproc))
            BY <4>1 DEF Waiting
          <6>4. QED
            BY <4>2, <6>1, <6>2, <6>3 DEF InRing
        <5>3. QED
          BY <5>1, <5>2
      <4>4. QED
        BY <4>3
    <3>3. QED
      BY <2>2, <3>1, <3>2
  <2>5. QED
    BY <1>3, <2>2, <2>3, <2>4 DEF Marking, Pending
<1>6. CASE \E i \in Slots : Blocks(i)
  BY <1>3, <1>4, <1>6
  DEF Blocks, Becomes, Marking, ToFetch, Quiet, Unsent, Pending, FlightShape,
      SlotsOK
<1>7. CASE \E i \in Slots : Pends(i)
  BY <1>1, <1>7, FlightSent
<1>8. ASSUME NEW i \in Slots, Serves(i), Handling(i) PROVE FlightShape'
  <2>1. /\ SameStates /\ rproc' = rproc
        /\ \E next \in {"fetch", "flush"} : ServesFor(i, next)
    BY <1>8 DEF Serves, Quiet
  <2>2. /\ sched' = [pc |-> "mark", ring |-> "l", ev |-> i, then |-> "fetch"]
        /\ toPeer' = toPeer \/ (lq[i].type # "WRITE" /\ ~lq[i].ack)
    BY <1>8, <2>1 DEF ServesFor, Handling, HandlingRemote, Unsent
  <2>3. Listening => toPeer' = toPeer
    BY <1>8, <2>2 DEF FlightShape, SlotsOK, Live
  <2>4. lq[i].st # "PENDING"
    BY <1>8 DEF FlightShape, SlotsOK
  <2>5. QED
    BY <1>3, <1>4, <2>1, <2>2, <2>3, <2>4 DEF SameStates, Marking, Pending
<1>9. CASE \E i \in Slots : Serves(i)
  <2>1. PICK i \in Slots : Serves(i)
    BY <1>9
  <2>2. Handling(i) \/ HandlingRemote("resp")
    BY <2>1 DEF Serves, ServesFor, LoopOn
  <2>3. QED
    BY <1>1, <1>8, <2>1, <2>2, FlightServed
<1>10. CASE TakesReady
  BY <1>3, <1>4, <1>10 DEF TakesReady, Quiet, Unsent, Marking, Pending
<1>11. CASE Unblocks
  BY <1>1, <1>11, FlightAnswer
<1>12. CASE Marks
  <2>1. sched'.pc \notin {"handle", "mark"}
    BY <1>12 DEF Marks, ToFetch, TypeOK, SchedOK
  <2>2. QED
    BY <1>3, <1>4, <1>12, <2>1
    DEF Marks, Becomes, Quiet, Unsent, Marking, Pending
<1>13. CASE Aborts
  BY <1>3, <1>4, <1>13 DEF Aborts, Quiet, Unsent, Marking, Pending
<1>14. CASE Resets
  BY <1>14 DEF Resets, LoopOn
<1>15. QED
  BY <1>5, <1>6, <1>7, <1>9, <1>10, <1>11, <1>12, <1>13, <1>14, SchedulerMoves

-----------------------------------------------------------------------------
(* The steps of the other parties.                                           *)

\* A step that leaves the slots, the scheduler and the reader alone.
LEMMA SlotsKept ==
  ASSUME SlotsOK, UNCHANGED <<lq, fresh, rproc, sched>>, Listening' => Listening
  PROVE  SlotsOK'
<1>1. \A i \in Slots : /\ (Live(i)' <=> Live(i)) /\ (Handling(i)' <=> Handling(i))
  BY DEF Live, Handling
<1>2. QED
  BY <1>1 DEF SlotsOK

LEMMA FlightAdd ==
  ASSUME TypeOK, RingInv, RingShape, FlightShape, NEW t \in Threads,
         AddEvent(t), Orderly'
  PROVE  FlightShape'
<1>1. PICK i \in Slots :
        /\ \A j \in Slots : j # i => lq'[j] = lq[j]
        /\ lq[i].st = "SERVED" /\ lq'[i].st = "SERVED"
        /\ lq'[i].id = nextId + 1 /\ lq'[i].ack
        /\ fresh' = fresh \cup {i} /\ ~InUse(i)
        /\ UNCHANGED <<rq, rcur, rproc, sched, reader, toPeer, fromPeer>>
  BY AddMoves DEF Orderly
<1>2. \A j \in Slots : Live(j)' => j = i \/ Live(j)
  BY <1>1 DEF Live, Handling
<1>3. \A j \in Slots : lq[j].id \in Nat /\ lq[j].id <= nextId /\ nextId \in Nat
  BY DEF RingInv, TypeOK, RingsOK, SemsOK, Slot
<1>4. \A j, k \in Slots : Live(j)' /\ Live(k)' /\ lq'[j].id = lq'[k].id => j = k
  <2> SUFFICES ASSUME NEW j \in Slots, NEW k \in Slots, Live(j)', Live(k)',
                      lq'[j].id = lq'[k].id, j # k
               PROVE  FALSE
    OBVIOUS
  <2>1. CASE j # i /\ k # i
    BY <1>1, <1>2, <2>1 DEF FlightShape, SlotsOK
  <2>2. CASE j = i \/ k = i
    BY <1>1, <1>3, <2>2
  <2>3. QED
    BY <2>1, <2>2
<1>5. SlotsOK'
  <2>1. \A j \in Slots : Handling(j)' => lq'[j].st \notin {"PENDING", "BLOCKED"}
    BY <1>1 DEF Handling, InUse, FlightShape, SlotsOK
  <2>2. sched'.pc = "handle" /\ sched'.ring = "r" => Inc(sched'.ev) = rproc'
    BY <1>1 DEF FlightShape, SlotsOK
  <2>3. Listening' => \A j \in Slots : Live(j)' /\ lq'[j].type # "WRITE" =>
                                         lq'[j].ack
    BY <1>1, <1>2 DEF FlightShape, SlotsOK, Listening
  <2>4. QED
    BY <1>4, <2>1, <2>2, <2>3 DEF SlotsOK
<1>6. \A j \in Slots : Pending(j) => /\ Pending(j)' /\ lq'[j].id = lq[j].id
                                     /\ lq'[j].type = lq[j].type
  BY <1>1 DEF Pending, Marking
<1>7. \A j \in Slots : InRing(j)' => InRing(j)
  BY <1>1 DEF InRing, Waiting
<1>8. Listening' => Listening
  BY <1>1 DEF Listening
<1>9. QED
  BY <1>1, <1>5, <1>6, <1>7, <1>8, FlightKept

\* Nothing is on its way when the link is new.
NewLink ==
  /\ sched.pc # "handle" /\ rcur = rproc /\ rproc \in Slots /\ fresh = {}
  /\ \A i \in Slots : lq[i].st = "SERVED"
  /\ toPeer = <<>> /\ fromPeer = <<>>

LEMMA FlightNew == NewLink => FlightShape
<1> SUFFICES ASSUME NewLink PROVE FlightShape
  OBVIOUS
<1> USE DEF NewLink
<1>1. \A i \in Slots : ~InRing(i) /\ ~Live(i) /\ ~Handling(i)
  <2>1. \A i \in Slots : ~(Waiting(i, rproc) < Waiting(rcur, rproc))
    BY Distance
  <2>2. QED
    BY <2>1 DEF InRing, Live, Handling
<1>2. Received = {} /\ ReceivedOnce /\ SlotsOK
  BY <1>1 DEF Received, ReceivedOnce, SlotsOK
<1>3. Msgs(toPeer, "req") = {} /\ Msgs(fromPeer, "resp") = {}
  BY DEF Msgs
<1>4. Once(toPeer, "req") /\ Once(fromPeer, "resp")
  BY DEF Once
<1>5. QED
  BY <1>2, <1>3, <1>4 DEF FlightShape, WireShape, Apart

LEMMA FlightNewNext == NewLink' => FlightShape'
BY FlightNew, PTL

LEMMA FlightConnect ==
  ASSUME TypeOK, BeforeFirst, NEW t \in Threads, Connect(t), session' <= 1
  PROVE  FlightShape'
<1>1. /\ \A i \in Slots : lq'[i].st = "SERVED"
      /\ rcur' = 0 /\ rproc' = 0 /\ fresh' = {}
      /\ sched' = ToFetch("fetch") /\ toPeer' = <<>> /\ fromPeer' = <<>>
  BY ConnectMoves
<1>2. NewLink'
  BY <1>1, NoneOutside DEF NewLink, ToFetch
<1>3. QED
  BY <1>2, FlightNewNext

\* A message of the peer enters the ring of received messages, in a slot that
\* is not in use as long as there is room.
LEMMA FlightReceive ==
  ASSUME TypeOK, FlightShape, Receive, Orderly'
  PROVE  FlightShape'
<1> DEFINE h == Head(fromPeer)
<1>1. /\ UNCHANGED <<lq, fresh, rproc, sched, toPeer>> /\ fromPeer # <<>>
      /\ Listening /\ reader.pc # "mark"
      /\ \/ UNCHANGED <<rq, rcur, reader, fromPeer>>
         \/ /\ fromPeer' = Tail(fromPeer) /\ reader'.pc # "mark"
            /\ \/ UNCHANGED <<rq, rcur>>
               \/ /\ rq' = [rq EXCEPT ![rcur] = h] /\ rcur' = Inc(rcur)
                  /\ Inc(rcur) # rproc
  <2>1. /\ UNCHANGED <<lq, fresh, rproc, sched, toPeer>> /\ fromPeer # <<>>
        /\ reader.pc = "read"
    BY DEF Receive
  <2>2. CASE h = readPrev
    BY <2>1, <2>2 DEF Receive, Listening
  <2>3. CASE h # readPrev
    <3>1. /\ fromPeer' = Tail(fromPeer)
          /\ reader' = [pc |-> IF resetX THEN "next" ELSE "post", ev |-> None]
          /\ \/ UNCHANGED <<rq, rcur>>
             \/ /\ rq' = [rq EXCEPT ![rcur] = h] /\ rcur' = Inc(rcur)
                /\ lapped' = (lapped \/ Inc(rcur) = rproc)
      BY <2>3 DEF Receive
    <3>2. reader'.pc # "mark"
      BY <3>1
    <3>3. QED
      BY <2>1, <3>1, <3>2 DEF Listening, Orderly
  <2>4. QED
    BY <2>2, <2>3
<1>2. SlotsOK'
  BY <1>1, SlotsKept DEF FlightShape
<1>3. \A i \in Slots : Pending(i) => /\ Pending(i)' /\ lq'[i].id = lq[i].id
                                     /\ lq'[i].type = lq[i].type
  BY <1>1 DEF Pending, Marking
<1>4. \A m : Expected(m) => Expected(m)'
  BY <1>3, ExpectedKept
<1>5. CASE UNCHANGED <<rq, rcur, reader, fromPeer>>
  <2>1. \A i \in Slots : InRing(i)' => InRing(i)
    BY <1>1, <1>5 DEF InRing, Waiting
  <2>2. QED
    BY <1>1, <1>2, <1>3, <1>5, <2>1, FlightKept
<1>6. ASSUME fromPeer' = Tail(fromPeer) PROVE FlightShape'
  <2>1. WireShape /\ fromPeer \in Seq(Messages) /\ h \in Messages
    BY <1>1 DEF FlightShape, TypeOK, WireOK
  <2>2. /\ Once(Tail(fromPeer), "resp")
        /\ Msgs(Tail(fromPeer), "resp") \subseteq Msgs(fromPeer, "resp")
        /\ h.kind = "resp" => /\ h \in Msgs(fromPeer, "resp")
                              /\ \A m \in Msgs(Tail(fromPeer), "resp") : m.id # h.id
    BY <1>1, <2>1, TailMsgs DEF WireShape
  <2>3. /\ Once(fromPeer', "resp")
        /\ \A m \in Msgs(fromPeer', "resp") :
             m \in Msgs(fromPeer, "resp") /\ (h.kind = "resp" => m.id # h.id)
    BY <1>6, <2>2
  <2> DEFINE arrived == IF h.kind = "resp" THEN {h} ELSE {}
  <2>4. Received' \subseteq Received \cup arrived /\ ReceivedOnce'
    <3>1. CASE UNCHANGED <<rq, rcur>>
      <4>1. \A i \in Slots : InRing(i)' => InRing(i)
        BY <1>1, <3>1 DEF InRing, Waiting
      <4>2. QED
        BY <3>1, <4>1, ReceivedKept DEF FlightShape
    <3>2. ASSUME rq' = [rq EXCEPT ![rcur] = h], rcur' = Inc(rcur), Inc(rcur) # rproc
          PROVE  Received' \subseteq Received \cup arrived /\ ReceivedOnce'
      <4>1. rcur \in Slots /\ rproc \in Slots /\ rq \in [Slots -> Messages]
        BY DEF TypeOK, RingsOK
      <4>2. \A i \in Slots : rq'[i] = IF i = rcur THEN h ELSE rq[i]
        BY <3>2, <4>1
      <4>3. Waiting(Inc(rcur), rproc) = Waiting(rcur, rproc) + 1
            /\ Waiting(rcur, rproc) \in Nat
        BY <3>2, <4>1, Distance
      <4>4. Waiting(rcur, rproc)' = Waiting(Inc(rcur), rproc)
        BY <1>1, <3>2 DEF Waiting
      <4>5. ASSUME NEW i \in Slots, InRing(i)', i # rcur PROVE InRing(i)
        <5>1. CASE sched.pc = "handle" /\ sched.ring = "r" /\ sched.ev = i
          BY <5>1 DEF InRing
        <5>2. CASE Waiting(i, rproc)' < Waiting(rcur, rproc)'
          <6>1. Waiting(i, rproc)' = Waiting(i, rproc)
            BY <1>1 DEF Waiting
          <6>2. /\ Waiting(i, rproc) \in Nat
                /\ Waiting(i, rproc) # Waiting(rcur, rproc)
            BY <4>1, <4>5, Distance
          <6>3. Waiting(i, rproc) < Waiting(rcur, rproc)
            BY <4>3, <4>4, <5>2, <6>1, <6>2
          <6>4. QED
            BY <6>3 DEF InRing
        <5>3. QED
          BY <1>1, <4>5, <5>1, <5>2 DEF InRing
      <4>6. Received' \subseteq Received \cup arrived
        BY <4>2, <4>5 DEF Received
      <4>7. ASSUME NEW i \in Slots, NEW j \in Slots, InRing(i)', InRing(j)',
                   rq'[i].kind = "resp", rq'[j].kind = "resp",
                   rq'[i].id = rq'[j].id, i # j
            PROVE  FALSE
        <5>1. CASE i # rcur /\ j # rcur
          BY <4>2, <4>5, <4>7, <5>1 DEF FlightShape, ReceivedOnce
        <5>2. ASSUME NEW k \in Slots, InRing(k)', k # rcur, rq'[k].kind = "resp",
                     h.kind = "resp"
              PROVE  rq'[k].id # h.id
          <6>1. rq[k] \in Received /\ h \in Msgs(fromPeer, "resp")
            BY <2>2, <4>2, <4>5, <5>2 DEF Received
          <6>2. QED
            BY <2>1, <4>2, <5>2, <6>1 DEF WireShape, Apart
        <5>3. QED
          BY <4>2, <4>7, <5>1, <5>2
      <4>8. QED
        BY <4>6, <4>7 DEF ReceivedOnce
    <3>3. CASE UNCHANGED <<rq, rcur, reader, fromPeer>>
      <4>1. \A i \in Slots : InRing(i)' => InRing(i)
        BY <1>1, <3>3 DEF InRing, Waiting
      <4>2. QED
        BY <3>3, <4>1, ReceivedKept DEF FlightShape
    <3>4. QED
      BY <1>1, <3>1, <3>2, <3>3
  <2>5. h.kind = "resp" => Expected(h)
    BY <2>1, <2>2 DEF WireShape
  <2>6. \A m \in Received' : Expected(m)'
    BY <1>4, <2>4, <2>5 DEF FlightShape
  <2>7. WireShape'
    <3>1. h.kind = "resp" => \A m \in Msgs(toPeer, "req") : m.id # h.id
      BY <2>1, <2>2 DEF WireShape, Apart
    <3>2. toPeer' = toPeer
      BY <1>1
    <3>3. QED
      BY <1>4, <2>1, <2>3, <2>4, <3>1, <3>2 DEF WireShape, Apart
  <2>8. QED
    BY <1>2, <2>4, <2>6, <2>7 DEF FlightShape
<1>7. QED
  BY <1>1, <1>5, <1>6

LEMMA FlightReader ==
  ASSUME TypeOK, RingInv, FlightShape, Reader, Orderly'
  PROVE  FlightShape'
<1>1. CASE Receive
  BY <1>1, FlightReceive
<1>2. CASE ~Receive
  <2>1. UNCHANGED <<rq, rcur, toPeer, fromPeer>>
    BY <1>2 DEF Reader, ReaderPost, ReaderNext, ReceiveFails, ReaderGivesUp,
       ReaderMark, remoteVars, wireVars
  <2>2. SameEvents /\ UNCHANGED <<fresh, rproc, sched>>
    BY ReaderMoves
  <2>3. \A i \in Slots : InRing(i)' => InRing(i)
    BY <2>1, <2>2 DEF InRing, Waiting
  <2>4. CASE Listens
    <3>1. lq' = lq /\ reader'.pc # "mark"
      BY <2>4 DEF Listens
    <3>2. Listening' => Listening
      BY <1>2 DEF Reader, ReaderPost, ReaderNext, ReceiveFails, ReaderGivesUp,
         ReaderMark, Listening, TypeOK, ReaderOK
    <3>3. SlotsOK'
      BY <2>2, <3>1, <3>2, SlotsKept DEF FlightShape
    <3>4. \A i \in Slots : Pending(i) => Pending(i)'
      BY <2>2, <3>1 DEF Pending, Marking
    <3>5. QED
      BY <2>1, <2>2, <2>3, <3>2, <3>3, <3>4, FlightKept DEF SameEvents
  <2>5. ASSUME \A i \in Slots : \/ lq'[i].st = lq[i].st
                                \/ reader.pc = "mark" /\ reader.ev = i
                                   /\ lq'[i].st = "SERVED",
               \A i \in Slots : Pending(i) => Pending(i)', ~Listening'
        PROVE  FlightShape'
    <3>1. \A i \in Slots : /\ Live(i)' => Live(i)
                           /\ Handling(i)' => Handling(i)
                           /\ lq'[i].st \in {lq[i].st, "SERVED"}
      BY <2>2, <2>5 DEF Live, Handling
    <3>2. SlotsOK'
      BY <2>2, <2>5, <3>1 DEF FlightShape, SlotsOK, SameEvents
    <3>3. QED
      BY <2>1, <2>2, <2>3, <2>5, <3>2, FlightKept DEF SameEvents
  <2>6. CASE \E i \in Slots : GivesUp(i)
    <3>1. PICK i \in Slots : GivesUp(i)
      BY <2>6
    <3>2. ~Listening'
      BY <3>1 DEF GivesUp, Listening
    <3>3. \A j \in Slots : Pending(j) => Pending(j)'
      BY <2>2, <3>1 DEF GivesUp, Pending, Marking, SameStates
    <3>4. QED
      BY <2>5, <3>1, <3>2, <3>3 DEF GivesUp, SameStates
  <2>7. CASE ReaderMarks
    <3>1. ~Listening'
      BY <2>7 DEF ReaderMarks, Listening
    <3>2. \A j \in Slots : Pending(j) => Pending(j)'
      BY <2>2, <2>7 DEF ReaderMarks, Becomes, Pending, Marking
    <3>3. QED
      BY <2>5, <2>7, <3>1, <3>2 DEF ReaderMarks, Becomes
  <2>8. QED
    BY <2>4, <2>6, <2>7, ReaderMoves
<1>3. QED
  BY <1>1, <1>2

\* The peer turns the oldest request into its response, or drops a response.
LEMMA FlightPeerAnswer ==
  ASSUME TypeOK, WireShape, PeerAnswer, Received' = Received,
         \A m : Expected(m) => Expected(m)'
  PROVE  WireShape'
<1> DEFINE h == Head(toPeer)
<1>1. /\ toPeer \in Seq(Messages) /\ fromPeer \in Seq(Messages) /\ toPeer # <<>>
      /\ toPeer' = Tail(toPeer) /\ h \in Messages
  BY DEF PeerAnswer, TypeOK, WireOK
<1>2. /\ Once(Tail(toPeer), "req")
      /\ Msgs(Tail(toPeer), "req") \subseteq Msgs(toPeer, "req")
      /\ h.kind = "req" => /\ h \in Msgs(toPeer, "req")
                           /\ \A m \in Msgs(Tail(toPeer), "req") : m.id # h.id
  BY <1>1, TailMsgs DEF WireShape
<1>3. Once(toPeer', "req") /\ Msgs(toPeer', "req") \subseteq Msgs(toPeer, "req")
  BY <1>1, <1>2
<1>4. CASE h.kind # "req"
  <2>1. fromPeer' = fromPeer
    BY <1>4 DEF PeerAnswer
  <2>2. QED
    BY <1>3, <2>1 DEF WireShape, Apart
<1>5. CASE h.kind = "req"
  <2>1. PICK a \in Messages : /\ a.kind = "resp" /\ a.id = h.id /\ a.type = h.type
                              /\ fromPeer' = Append(fromPeer, a)
    <3>1. /\ [h EXCEPT !.kind = "resp"] \in Messages
          /\ [h EXCEPT !.kind = "resp"].kind = "resp"
          /\ [h EXCEPT !.kind = "resp"].id = h.id
          /\ [h EXCEPT !.kind = "resp"].type = h.type
      BY <1>1 DEF Messages
    <3>2. fromPeer' = Append(fromPeer, [h EXCEPT !.kind = "resp"])
      BY <1>5 DEF PeerAnswer
    <3>3. QED
      BY <3>1, <3>2
  <2>2. /\ \A m \in Msgs(fromPeer, "resp") \cup Received : m.id # a.id
        /\ \A m \in Msgs(toPeer', "req") : m.id # a.id
    BY <1>1, <1>2, <1>5, <2>1 DEF WireShape, Apart
  <2>3. Expected(a)
    <3>1. Expected(h)
      BY <1>2, <1>5 DEF WireShape
    <3>2. QED
      BY <2>1, <3>1 DEF Expected
  <2>4. /\ Once(Append(fromPeer, a), "resp")
        /\ \A m \in Msgs(Append(fromPeer, a), "resp") :
             m \in Msgs(fromPeer, "resp") \/ m = a
    BY <1>1, <2>1, <2>2, AppendMsgs DEF WireShape
  <2>5. /\ Once(fromPeer', "resp")
        /\ \A m \in Msgs(fromPeer', "resp") : m \in Msgs(fromPeer, "resp") \/ m = a
    BY <2>1, <2>4
  <2>6. QED
    BY <1>3, <2>2, <2>3, <2>5 DEF WireShape, Apart
<1>6. QED
  BY <1>4, <1>5

LEMMA FlightPeer ==
  ASSUME TypeOK, FlightShape, Peer \/ LinkFails
  PROVE  FlightShape'
<1>1. UNCHANGED <<lq, fresh, rq, rcur, rproc, sched, reader>>
  BY PeerMoves DEF ringVars, cursors, remoteVars
<1>2. SlotsOK' /\ (Listening' <=> Listening)
  BY <1>1, SlotsKept DEF Listening, FlightShape
<1>3. \A i \in Slots : /\ InRing(i)' <=> InRing(i)
                       /\ Pending(i)' <=> Pending(i)
  BY <1>1 DEF InRing, Waiting, Pending, Marking
<1>4. Received' = Received /\ ReceivedOnce'
  BY <1>1, <1>3 DEF Received, ReceivedOnce, FlightShape
<1>5. \A m : Expected(m) => Expected(m)'
  BY <1>1, <1>3 DEF Expected
<1>6. ASSUME WireShape PROVE WireShape'
  <2>1. CASE PeerAnswer
    BY <1>4, <1>5, <1>6, <2>1, FlightPeerAnswer
  <2>2. CASE \E ty \in RemoteTypes : PeerRequest(ty)
    <3>1. PICK ty \in RemoteTypes : PeerRequest(ty)
      BY <2>2
    <3>2. PICK r \in Messages : /\ r.kind = "req" /\ toPeer' = toPeer
                                /\ fromPeer' = Append(fromPeer, r)
      <4>1. ty \in Types /\ nRemote + 1 \in Nat
        BY DEF Types, TypeOK, WireOK
      <4>2. [kind |-> "req", type |-> ty, id |-> nRemote + 1] \in Messages
        BY <4>1 DEF Messages
      <4>3. QED
        BY <3>1, <4>2 DEF PeerRequest
    <3>3. fromPeer \in Seq(Messages)
      BY DEF TypeOK, WireOK
    <3>4. /\ Once(Append(fromPeer, r), "resp")
          /\ \A m \in Msgs(Append(fromPeer, r), "resp") : m \in Msgs(fromPeer, "resp")
      BY <1>6, <3>2, <3>3, AppendMsgs DEF WireShape
    <3>5. /\ Once(fromPeer', "resp")
          /\ \A m \in Msgs(fromPeer', "resp") : m \in Msgs(fromPeer, "resp")
      BY <3>2, <3>4
    <3>6. QED
      BY <1>4, <1>5, <1>6, <3>2, <3>5 DEF WireShape, Apart
  <2>3. CASE LinkFails
    <3>1. toPeer' = toPeer /\ fromPeer' = fromPeer
      BY <2>3 DEF LinkFails, wireVars
    <3>2. QED
      BY <1>4, <1>5, <1>6, <3>1 DEF WireShape, Apart
  <2>4. QED
    BY <2>1, <2>2, <2>3 DEF Peer
<1>7. QED
  BY <1>2, <1>4, <1>5, <1>6 DEF FlightShape

LEMMA FlightStep ==
  TypeOK /\ BeforeFirst /\ DrainInv /\ RingInv /\ KnownTypes /\ FlightInv
    /\ [Next]_vars => FlightInv'
<1> SUFFICES ASSUME TypeOK, BeforeFirst, DrainInv, RingInv, KnownTypes,
                    FlightInv, [Next]_vars, Orderly', LoopOn'
             PROVE  FlightShape'
  BY DEF FlightInv
<1>1. CASE \E t \in Threads : Connect(t)
  BY <1>1, FlightConnect DEF Orderly
<1>2. CASE \E t \in Threads : AddEvent(t)
  <2>1. PICK t \in Threads : AddEvent(t)
    BY <1>2
  <2>2. Orderly /\ LoopOn
    BY <2>1, AddMoves DEF Orderly, LoopOn
  <2>3. QED
    BY <2>1, <2>2, FlightAdd DEF FlightInv, RingInv
<1>3. CASE \/ UNCHANGED vars
           \/ \E t \in Threads : Thread(t) /\ ~AddEvent(t) /\ ~Connect(t)
  <2>1. /\ UNCHANGED <<lq, fresh, lapped, rq, rcur, rproc, sched, reader>>
        /\ UNCHANGED <<toPeer, fromPeer, session>>
    <3>1. CASE UNCHANGED vars
      BY <3>1 DEF vars, ringVars, cursors, remoteVars, wireVars, envVars
    <3>2. CASE \E t \in Threads : Thread(t) /\ ~AddEvent(t) /\ ~Connect(t)
      BY <3>2, ThreadMoves DEF ringVars, cursors, remoteVars
    <3>3. QED
      BY <1>3, <3>1, <3>2
  <2>2. FlightShape /\ (Listening' <=> Listening)
    BY <2>1 DEF FlightInv, Orderly, LoopOn, Listening
  <2>3. SlotsOK'
    BY <2>1, <2>2, SlotsKept DEF FlightShape
  <2>4. \A i \in Slots : /\ InRing(i)' <=> InRing(i)
                         /\ Pending(i)' <=> Pending(i)
    BY <2>1 DEF InRing, Waiting, Pending, Marking
  <2>5. QED
    BY <2>1, <2>2, <2>3, <2>4, FlightKept
<1>4. CASE Scheduler
  <2>1. Orderly /\ LoopOn
    BY <1>4, SchedulerMoves, LoopGoesOn DEF Orderly
  <2>2. QED
    BY <1>4, <2>1, FlightScheduler DEF FlightInv, RingInv
<1>5. CASE Reader
  <2>1. Orderly /\ LoopOn
    BY <1>5, ReaderMoves DEF Orderly, LoopOn
  <2>2. QED
    BY <1>5, <2>1, FlightReader DEF FlightInv
<1>6. CASE Peer \/ LinkFails
  <2>1. Orderly /\ LoopOn
    BY <1>6, PeerMoves DEF Orderly, LoopOn, ringVars, cursors
  <2>2. QED
    BY <1>6, <2>1, FlightPeer DEF FlightInv
<1>7. QED
  BY <1>1, <1>2, <1>3, <1>4, <1>5, <1>6 DEF Next

LEMMA FlightHolds == Spec => []FlightInv
<1>1. Init => FlightInv
  <2> SUFFICES ASSUME Init, LoopOn PROVE FlightShape
    BY DEF FlightInv
  <2>1. NewLink
    BY NoneOutside DEF Init, NewLink, LoopOn, ToFetch, NewSlot
  <2>2. QED
    BY <2>1, FlightNew
<1>2. QED
  BY <1>1, FlightStep, TypeCorrect, BeforeFirstHolds, DrainHolds, RingHolds,
     KnownHolds, PTL DEF Spec

\* Every response of the peer finds the request it answers, still pending: the
\* request is made pending before it is sent, nothing else completes it while
\* the scheduler is in its loop, and no identifier is given twice. The
\* assertion of dispatcherResponseServe never fails, as long as no message or
\* event is put into a ring without room for it.
THEOREM ResponsesMatch == Spec => []ResponseHasRequest
<1>1. Init => ResponseHasRequest
  BY DEF Init, ResponseHasRequest
<1>2. TypeOK /\ BeforeFirst /\ FlightInv /\ ResponseHasRequest /\ [Next]_vars
        => ResponseHasRequest'
  <2> SUFFICES ASSUME TypeOK, BeforeFirst, FlightInv, ResponseHasRequest,
                      [Next]_vars, Orderly', fault' = "noRequest"
               PROVE  FALSE
    BY DEF ResponseHasRequest
  <2>1. CASE UNCHANGED vars
    BY <2>1
    DEF vars, ringVars, cursors, envVars, Orderly, ResponseHasRequest
  <2>2. CASE \E t \in Threads : Thread(t)
    BY <2>2, ZenonT(30) DEF Thread, Call, CallNoLink, AddEvent, AddNoSem, Post, Lookup, Wait,
       Return, Connect, Disconnect
  <2>3. CASE Reader
    BY <2>3 DEF Reader, Receive, ReaderPost, ReaderNext, ReceiveFails,
       ReaderGivesUp, ReaderMark
  <2>4. CASE Peer \/ LinkFails
    BY <2>4 DEF Peer, PeerAnswer, PeerRequest, LinkFails
  <2>5. CASE Scheduler
    <3>1. fault = "none"
      BY <2>5 DEF Scheduler, FetchReady, FetchNext, HandleServe, HandleRefuse,
         HandleBlock, HandleSend, HandlingLocal, HandleRemoteRequest,
         HandleResponse, FinishServe, StartReset, FlushPending, FinishReset
    <3>2. Aborts /\ UNCHANGED <<lapped, session>>
      BY <2>5, <3>1, SchedulerMoves, FetchMoves
      DEF Blocks, Pends, Serves, TakesReady, Unblocks, Marks, Resets
    <3>3. FlightShape
      BY <3>2 DEF FlightInv, Orderly, LoopOn, Aborts, HandlingRemote
    <3>4. rq[sched.ev] \in Received
      BY <3>2 DEF Aborts, HandlingRemote, Received, InRing, TypeOK, SchedOK
    <3>5. Expected(rq[sched.ev])
      BY <3>3, <3>4 DEF FlightShape
    <3>6. QED
      BY <3>2, <3>5 DEF Aborts, Answered, Expected, Pending
  <2>6. QED
    BY <2>1, <2>2, <2>3, <2>4, <2>5 DEF Next
<1>3. QED
  BY <1>1, <1>2, TypeCorrect, BeforeFirstHolds, FlightHolds, PTL DEF Spec

=============================================================================
