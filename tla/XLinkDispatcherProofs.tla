----------------------- MODULE XLinkDispatcherProofs -----------------------
(***************************************************************************)
(* Theorems about the dispatcher, for every number of threads, slots and   *)
(* semaphores, whatever the peer sends and whether or not the link fails:  *)
(* its semaphores; then its rings, the threads that wait for an event, and *)
(* the drain of a reset.                                                   *)
(***************************************************************************)
EXTENDS XLinkDispatcher, FiniteSetTheorems, WellFoundedInduction, TLAPS

-----------------------------------------------------------------------------
(* Facts about the constants and the operators.                              *)

\* The first element of a set of naturals exists: SetMin is what the loops
\* over the ring and over the semaphores stop at.
LEMMA SetMinIsLeast ==
  ASSUME NEW S, S \subseteq Nat, S # {}
  PROVE  SetMin(S) \in S /\ \A j \in S : SetMin(S) <= j
<1> DEFINE R == {p \in Nat \X Nat : p[1] < p[2]}
<1>1. IsWellFoundedOn(R, Nat)
  BY NatLessThanWellFounded DEF OpToRel
<1> HIDE DEF R
<1>2. PICK x \in S : \A y \in S : <<y, x>> \notin R
  BY <1>1, WFMin
<1>3. \A y \in S : x <= y
  <2> SUFFICES ASSUME NEW y \in S, y < x PROVE FALSE
    OBVIOUS
  <2>1. <<y, x>> \in Nat \X Nat /\ <<y, x>>[1] < <<y, x>>[2]
    OBVIOUS
  <2>2. <<y, x>> \in R
    BY <2>1, Zenon DEF R
  <2>3. QED
    BY <1>2, <2>2
<1>4. QED
  BY <1>3 DEF SetMin

\* None is neither a slot nor a semaphore, and slots and semaphores are
\* naturals.
LEMMA NoneOutside ==
  /\ Slots \subseteq Nat /\ Sems \subseteq Nat \ {0}
  /\ None \notin Slots /\ None \notin Sems
  /\ 0 \in Slots
BY DispatcherAssumption DEF DispatcherAssumption, Slots, Sems

\* The types of the requests that are issued are types of events.
LEMMA TypesInTypes ==
  /\ "PING" \in Types /\ LocalTypes \subseteq Types /\ RemoteTypes \subseteq
      Types
BY DispatcherAssumption DEF DispatcherAssumption, Types, Outcomes

\* The cursor comes back to the base of the ring (CIRCULAR_INCREMENT).
LEMMA IncType == ASSUME NEW i \in Slots PROVE Inc(i) \in Slots
BY DispatcherAssumption DEF DispatcherAssumption, Slots, Inc

\* getNextElementWithState answers a slot in the state asked for, and NULL
\* only when there is none.
LEMMA NextWithStateFinds ==
  ASSUME NEW q, NEW start \in Slots, NEW st
  PROVE  LET i == NextWithState(q, start, st)
         IN  IF \E j \in Slots : q[j].st = st THEN i \in Slots /\ q[i].st = st
                                              ELSE i = None
<1> DEFINE hits == {i \in Slots : q[i].st = st}
           after == {i \in hits : i >= start}
<1>1. hits # {} => SetMin(hits) \in hits
  BY SetMinIsLeast, NoneOutside
<1>2. after # {} => SetMin(after) \in hits
  BY SetMinIsLeast, NoneOutside
<1>3. NextWithState(q, start, st) = IF hits = {} THEN None
                                    ELSE IF after # {} THEN SetMin(after)
                                                       ELSE SetMin(hits)
  BY DEF NextWithState
<1> HIDE DEF after
<1>4. CASE \E j \in Slots : q[j].st = st
  <2>1. NextWithState(q, start, st) \in hits
    BY <1>1, <1>2, <1>3, <1>4
  <2>2. QED
    BY <1>4, <2>1
<1>5. CASE ~ \E j \in Slots : q[j].st = st
  BY <1>3, <1>5
<1>6. QED
  BY <1>4, <1>5

\* getCurrentSem answers a live semaphore of the thread.
LEMMA CurrentSemFinds ==
  ASSUME NEW t, CurrentSem(t) # None
  PROVE  /\ CurrentSem(t) \in Sems
         /\ owner[CurrentSem(t)] = t /\ refs[CurrentSem(t)] > 0
<1> DEFINE mine == {s \in Sems : owner[s] = t /\ refs[s] > 0}
<1>1. mine # {} => SetMin(mine) \in mine
  BY SetMinIsLeast, NoneOutside
<1>2. QED
  BY <1>1 DEF CurrentSem

\* createSem answers an entry that is free.
LEMMA FreeSemFinds ==
  ASSUME FreeSem # None
  PROVE  FreeSem \in Sems /\ refs[FreeSem] < 0
<1> DEFINE free == {s \in Sems : refs[s] < 0}
<1>1. free # {} => SetMin(free) \in free
  BY SetMinIsLeast, NoneOutside
<1>2. QED
  BY <1>1 DEF FreeSem

LEMMA SemForType ==
  ASSUME NEW t, SemFor(t) # None
  PROVE  SemFor(t) \in Sems
BY CurrentSemFinds, FreeSemFinds DEF SemFor

\* Waking a blocked event keeps the ring well typed (dispatcherUnblockEvent).
LEMMA UnblockType ==
  ASSUME NEW q \in [Slots -> Slot], NEW ty
  PROVE  Unblock(q, ty) \in [Slots -> Slot]
<1> DEFINE hits == {i \in Slots : q[i].st = "BLOCKED" /\ q[i].type = ty}
<1>1. CASE hits = {}
  BY <1>1 DEF Unblock
<1>2. CASE hits # {}
  <2>1. SetMin(hits) \in Slots
    BY <1>2, SetMinIsLeast, NoneOutside
  <2>2. Unblock(q, ty) = [q EXCEPT ![SetMin(hits)].st = "READY"]
    BY <1>2 DEF Unblock
  <2> HIDE DEF hits
  <2>3. QED
    BY <2>1, <2>2 DEF Slot, States
<1>3. QED
  BY <1>1, <1>2

\* dispatcherResponseServe completes a slot that waits for the response.
LEMMA AnsweredFinds ==
  ASSUME NEW m, Answered(m) # {}
  PROVE  SetMin(Answered(m)) \in Answered(m) /\ SetMin(Answered(m)) \in Slots
<1>1. Answered(m) \subseteq Slots
  BY DEF Answered
<1>2. QED
  BY <1>1, SetMinIsLeast, NoneOutside

\* Posting the semaphore of a slot keeps the values well typed.
LEMMA PostSemType ==
  ASSUME TypeOK, NEW i \in Slots, PostSem(i)
  PROVE  posted' \in [Sems -> Nat]
<1>1. lq[i].sem \in Sems \cup {None}
  BY DEF TypeOK, RingsOK, Slot
<1>2. QED
  BY <1>1 DEF PostSem, TypeOK, SemsOK

\* Sending a message keeps the wire well typed.
LEMMA SendType ==
  ASSUME TypeOK, NEW m \in Messages, Send(m)
  PROVE  toPeer' \in Seq(Messages)
BY DEF Send, TypeOK, WireOK

LEMMA HeadTail ==
  ASSUME NEW s \in Seq(Messages), s # <<>>
  PROVE  Head(s) \in Messages /\ Tail(s) \in Seq(Messages)
OBVIOUS

-----------------------------------------------------------------------------
(* The type invariant.                                                       *)

LEMMA InitType == Init => TypeOK
<1> SUFFICES ASSUME Init PROVE TypeOK
  OBVIOUS
<1>1. RingsOK
  BY NoneOutside, TypesInTypes
  DEF Init, RingsOK, NewSlot, Slot, States, NoMsg, Messages
<1>2. SemsOK
  <2>1. refs \in [Sems -> Int] /\ owner \in [Sems -> Threads \cup {None}]
    BY DEF Init
  <2>2. posted \in [Sems -> Nat]
    BY DEF Init
  <2>3. resetX \in BOOLEAN
    BY Zenon DEF Init
  <2>4. semaphores \in Int /\ addSem \in {0, 1} /\ notify \in Nat /\ nextId \in Nat
    BY DEF Init
  <2>5. QED
    BY <2>1, <2>2, <2>3, <2>4, Zenon DEF SemsOK
<1>3. SchedOK /\ ReaderOK
  BY TypesInTypes DEF Init, SchedOK, ReaderOK, ToFetch, NoMsg, Messages
<1>4. ThreadsOK
  BY TypesInTypes DEF Init, ThreadsOK, IdleThread
<1>5. WireOK
  <2>1. <<>> \in Seq(Messages)
    OBVIOUS
  <2>2. QED
    BY <2>1 DEF Init, WireOK
<1>6. QED
  BY <1>1, <1>2, <1>3, <1>4, <1>5 DEF TypeOK

\* A part of the invariant holds on while its variables do not change.
LEMMA Frames ==
  ASSUME TypeOK
  PROVE  /\ UNCHANGED <<ringVars, remoteVars>> => RingsOK'
         /\ UNCHANGED <<semVars, addSem, notify, resetX, nextId>> => SemsOK'
         /\ UNCHANGED sched => SchedOK'
         /\ UNCHANGED <<reader, readPrev>> => ReaderOK'
         /\ UNCHANGED thr => ThreadsOK'
         /\ UNCHANGED <<wireVars, envVars, fault>> => WireOK'
<1>1. UNCHANGED <<ringVars, remoteVars>> => RingsOK'
  BY DEF ringVars, cursors, remoteVars, TypeOK, RingsOK
<1>2. UNCHANGED <<semVars, addSem, notify, resetX, nextId>> => SemsOK'
  BY DEF semVars, TypeOK, SemsOK
<1>3. UNCHANGED sched => SchedOK'
  BY DEF TypeOK, SchedOK
<1>4. UNCHANGED <<reader, readPrev>> => ReaderOK'
  BY DEF TypeOK, ReaderOK
<1>5. UNCHANGED thr => ThreadsOK'
  BY DEF TypeOK, ThreadsOK
<1>6. UNCHANGED <<wireVars, envVars, fault>> => WireOK'
  BY DEF wireVars, envVars, TypeOK, WireOK
<1>7. QED
  BY <1>1, <1>2, <1>3, <1>4, <1>5, <1>6

LEMMA ThreadType ==
  ASSUME TypeOK, NEW t \in Threads, Thread(t)
  PROVE  TypeOK'
<1>1. CASE \E ty \in LocalTypes : Call(t, ty)
  <2>1. RingsOK' /\ SemsOK' /\ SchedOK' /\ ReaderOK' /\ WireOK'
    BY <1>1, Frames DEF Call, ringVars, cursors, remoteVars, semVars, wireVars, envVars
  <2>2. PICK ty \in LocalTypes : Call(t, ty)
    BY <1>1
  <2> DEFINE new == [IdleThread EXCEPT
                       !.pc = IF resetX THEN "lookup" ELSE "lock", !.type = ty]
  <2>3. new \in [pc : {"lock", "lookup"}, type : Types, ev : {None}, id : {0},
                 sem : {None}]
    BY TypesInTypes DEF IdleThread
  <2>4. thr' = [thr EXCEPT ![t] = new]
    BY <2>2 DEF Call
  <2> HIDE DEF new
  <2>5. ThreadsOK'
    BY <2>3, <2>4 DEF TypeOK, ThreadsOK
  <2>6. QED
    BY <2>1, <2>5 DEF TypeOK
<1>2. CASE CallNoLink(t)
  <2>1. RingsOK' /\ SemsOK' /\ SchedOK' /\ ReaderOK' /\ ThreadsOK'
    BY <1>2, Frames DEF CallNoLink, ringVars, cursors, remoteVars, semVars, wireVars,
        envVars
  <2>2. WireOK'
    BY <1>2 DEF CallNoLink, TypeOK, WireOK, ringVars, cursors, remoteVars, semVars,
        wireVars, envVars
  <2>3. QED
    BY <2>1, <2>2 DEF TypeOK
<1>3. CASE AddEvent(t)
  <2>1. SchedOK' /\ ReaderOK' /\ WireOK'
    BY <1>3, Frames DEF AddEvent, ringVars, cursors, remoteVars, semVars, wireVars,
        envVars
  <2>2. SemFor(t) \in Sems
    BY <1>3, SemForType DEF AddEvent
  <2>3. NextWithState(lq, lcur, "SERVED") \in Slots
    BY <1>3, NextWithStateFinds DEF AddEvent, TypeOK, RingsOK
  <2> DEFINE i == NextWithState(lq, lcur, "SERVED")
             ty == IF thr[t].type = "CONNECT" THEN "PING" ELSE thr[t].type
             slot == [lq[i] EXCEPT !.sem = SemFor(t), !.id = nextId + 1,
                        !.type = ty, !.ack = TRUE, !.block = FALSE]
  <2>a. slot \in Slot
    <3>1. lq[i] \in Slot /\ nextId + 1 \in Nat
      BY <2>3 DEF TypeOK, RingsOK, SemsOK
    <3>2. ty \in Types
      BY TypesInTypes DEF TypeOK, ThreadsOK
    <3> HIDE DEF i, ty
    <3>3. QED
      BY <2>2, <3>1, <3>2 DEF Slot
  <2>b. lq' = [lq EXCEPT ![i] = slot] /\ lcur' = Inc(i) /\ fresh' = fresh \cup {i}
        /\ lapped' \in BOOLEAN /\ UNCHANGED <<lproc, rq, rcur, rproc>>
    BY <1>3 DEF AddEvent, remoteVars, TypeOK, RingsOK
  <2> HIDE DEF i, slot
  <2>4. RingsOK'
    BY <2>3, <2>a, <2>b, IncType DEF TypeOK, RingsOK, i
  <2>5. SemsOK'
    BY <1>3, <2>2, <2>3 DEF AddEvent, TypeOK, SemsOK, RefsWith, Unref, RingsOK,
        Slot, ringVars, cursors, remoteVars, semVars, wireVars, envVars
  <2>c. thr' = [thr EXCEPT ![t].pc = "post", ![t].ev = i, ![t].id = nextId + 1]
    BY <1>3 DEF AddEvent, i
  <2>d. i \in Slots /\ nextId + 1 \in Nat
    BY <2>3 DEF i, TypeOK, SemsOK
  <2>e. [thr[t] EXCEPT !.pc = "post", !.ev = i, !.id = nextId + 1]
         \in [pc : {"post"}, type : Types \cup {"CONNECT"},
             ev : Slots \cup {None}, id : Nat, sem : Sems \cup {None}]
    BY <2>d DEF TypeOK, ThreadsOK
  <2>6. ThreadsOK'
    BY <2>c, <2>e DEF TypeOK, ThreadsOK
  <2>7. QED
    BY <2>1, <2>4, <2>5, <2>6 DEF TypeOK
<1>4. CASE AddNoSem(t)
  <2>1. RingsOK' /\ SchedOK' /\ ReaderOK' /\ WireOK'
    BY <1>4, Frames DEF AddNoSem, ringVars, cursors, remoteVars, semVars, wireVars,
        envVars
  <2>2. SemsOK'
    BY <1>4 DEF AddNoSem, TypeOK, SemsOK, ringVars, cursors, remoteVars, semVars,
        wireVars, envVars
  <2>3. ThreadsOK'
    BY <1>4 DEF AddNoSem, TypeOK, ThreadsOK, ringVars, cursors, remoteVars, semVars,
        wireVars, envVars
  <2>4. QED
    BY <2>1, <2>2, <2>3 DEF TypeOK
<1>5. CASE Post(t)
  <2>1. RingsOK' /\ SchedOK' /\ ReaderOK' /\ WireOK'
    BY <1>5, Frames DEF Post, ringVars, cursors, remoteVars, semVars, wireVars, envVars
  <2>2. SemsOK'
    BY <1>5 DEF Post, TypeOK, SemsOK, ringVars, cursors, remoteVars, semVars, wireVars,
        envVars
  <2>3. ThreadsOK'
    BY <1>5 DEF Post, TypeOK, ThreadsOK, ringVars, cursors, remoteVars, semVars,
        wireVars, envVars
  <2>4. QED
    BY <2>1, <2>2, <2>3 DEF TypeOK
<1>6. CASE Lookup(t)
  <2>1. RingsOK' /\ SemsOK' /\ SchedOK' /\ ReaderOK'
    BY <1>6, Frames DEF Lookup, ringVars, cursors, remoteVars, semVars, wireVars, envVars
  <2>2. ThreadsOK'
    BY <1>6, CurrentSemFinds DEF Lookup, TypeOK, ThreadsOK, ringVars, cursors,
        remoteVars, semVars, wireVars, envVars
  <2>3. WireOK'
    BY <1>6 DEF Lookup, TypeOK, WireOK, ringVars, cursors, remoteVars, semVars,
        wireVars, envVars
  <2>4. QED
    BY <2>1, <2>2, <2>3 DEF TypeOK
<1>7. CASE Wait(t)
  <2>1. RingsOK' /\ SchedOK' /\ ReaderOK' /\ WireOK'
    BY <1>7, Frames DEF Wait, ringVars, cursors, remoteVars, semVars, wireVars, envVars
  <2>2. SemsOK'
    BY <1>7 DEF Wait, TypeOK, SemsOK, ThreadsOK, ringVars, cursors, remoteVars, semVars,
        wireVars, envVars
  <2>3. ThreadsOK'
    BY <1>7 DEF Wait, TypeOK, ThreadsOK, ringVars, cursors, remoteVars, semVars,
        wireVars, envVars
  <2>4. QED
    BY <2>1, <2>2, <2>3 DEF TypeOK
<1>8. CASE Return(t)
  <2>1. RingsOK' /\ SemsOK' /\ SchedOK' /\ ReaderOK'
    BY <1>8, Frames DEF Return, ringVars, cursors, remoteVars, semVars, wireVars, envVars
  <2>2. ThreadsOK'
    BY <1>8, TypesInTypes DEF Return, TypeOK, ThreadsOK, IdleThread, ringVars, cursors,
        remoteVars, semVars, wireVars, envVars
  <2>3. WireOK'
    BY <1>8 DEF Return, TypeOK, WireOK, ringVars, cursors, remoteVars, semVars,
        wireVars, envVars
  <2>4. QED
    BY <2>1, <2>2, <2>3 DEF TypeOK
<1>9. CASE Connect(t)
  <2>1. RingsOK'
    <3>1. /\ lq' = [i \in Slots |-> [lq[i] EXCEPT !.st = "SERVED"]]
          /\ lcur' = 0 /\ lproc' = 0 /\ fresh' = {} /\ rcur' = 0 /\ rproc' = 0
          /\ UNCHANGED <<rq, lapped>>
      BY <1>9 DEF Connect
    <3>2. \A i \in Slots : [lq[i] EXCEPT !.st = "SERVED"] \in Slot
      BY DEF TypeOK, RingsOK, Slot, States
    <3>3. lq' \in [Slots -> Slot]
      BY <3>1, <3>2
    <3>4. 0 \in Slots
      BY NoneOutside
    <3>5. QED
      BY <3>1, <3>3, <3>4 DEF TypeOK, RingsOK
  <2>2. SemsOK'
    <3>1. refs' = [s \in Sems |-> -1] /\ semaphores' = 0 /\ addSem' = 1
          /\ notify' = 0 /\ resetX' = FALSE /\ UNCHANGED <<owner, posted, nextId>>
      BY <1>9 DEF Connect
    <3>2. resetX' \in BOOLEAN
      BY <3>1, Zenon
    <3>3. /\ refs' \in [Sems -> Int] /\ semaphores' \in Int
          /\ addSem' \in {0, 1} /\ notify' \in Nat
      BY <3>1
    <3>4. QED
      BY <3>1, <3>2, <3>3, Zenon DEF TypeOK, SemsOK
  <2>3. SchedOK'
    BY <1>9 DEF Connect, TypeOK, SchedOK, ToFetch
  <2>4. ReaderOK'
    BY <1>9 DEF Connect, TypeOK, ReaderOK
  <2>5. ThreadsOK'
    BY <1>9, TypesInTypes DEF Connect, TypeOK, ThreadsOK, IdleThread
  <2>6. WireOK'
    BY <1>9 DEF Connect, TypeOK, WireOK, ringVars, cursors, remoteVars, semVars,
        wireVars, envVars
  <2>7. QED
    BY <2>1, <2>2, <2>3, <2>4, <2>5, <2>6 DEF TypeOK
<1>10. CASE Disconnect(t)
  <2>1. RingsOK' /\ SemsOK' /\ SchedOK' /\ ReaderOK' /\ ThreadsOK'
    BY <1>10, Frames DEF Disconnect, ringVars, cursors, remoteVars, semVars, wireVars,
        envVars
  <2>2. WireOK'
    BY <1>10 DEF Disconnect, TypeOK, WireOK, ringVars, cursors, remoteVars, semVars,
        wireVars, envVars
  <2>3. QED
    BY <2>1, <2>2 DEF TypeOK
<1>11. QED
  BY <1>1, <1>2, <1>3, <1>4, <1>5, <1>6, <1>7, <1>8, <1>9, <1>10 DEF Thread

LEMMA SchedulerType ==
  ASSUME TypeOK, Scheduler
  PROVE  TypeOK'
<1>1. CASE FetchReady
  <2>1. RingsOK' /\ SemsOK' /\ ReaderOK' /\ ThreadsOK' /\ WireOK'
    BY <1>1, Frames DEF FetchReady, ringVars, cursors, remoteVars, semVars, wireVars,
        envVars
  <2>2. NextWithState(lq, 0, "READY") \in Slots
    BY <1>1, NextWithStateFinds, NoneOutside DEF FetchReady, NoReady
  <2>3. sched' = [sched EXCEPT !.pc = "handle", !.ring = "l",
                               !.ev = NextWithState(lq, 0, "READY")]
    BY <1>1 DEF FetchReady
  <2>4. SchedOK'
    BY <2>2, <2>3 DEF TypeOK, SchedOK
  <2>5. QED
    BY <2>1, <2>4 DEF TypeOK
<1>2. CASE \E from \in {"fetch", "drain"} : FetchNext(from)
  <2>1. ReaderOK' /\ ThreadsOK'
    BY <1>2, Frames DEF FetchNext, TakeLocal, TakeRemote, TakeNone, ringVars, cursors,
        remoteVars, semVars, wireVars, envVars
  <2>2. RingsOK'
    BY <1>2, IncType, NextWithStateFinds DEF FetchNext, TypeOK, RingsOK,
        TakeLocal, TakeRemote, TakeNone, ringVars, cursors, remoteVars, semVars,
        wireVars, envVars
  <2>3. SemsOK'
    BY <1>2 DEF FetchNext, TypeOK, SemsOK, ringVars, cursors, remoteVars, semVars,
        wireVars, envVars
  <2>4. SchedOK'
    <3> DEFINE Took(r, i) == [sched EXCEPT !.pc = "handle", !.ring = r, !.ev = i]
    <3>1. \E r \in {"l", "r"}, i \in Slots, nx \in {"flush"} :
            sched' \in {sched, Took(r, i), ToFetch(nx)}
      <4>1. CASE TakeLocal
        BY <1>2, <4>1, NextWithStateFinds
        DEF FetchNext, TakeLocal, TakeRemote, TakeNone, TypeOK, RingsOK
      <4>2. CASE TakeRemote
        BY <1>2, <4>2
        DEF FetchNext, TakeLocal, TakeRemote, TakeNone, TypeOK, RingsOK
      <4>3. CASE TakeNone
        BY <1>2, <4>3, NoneOutside
        DEF FetchNext, TakeLocal, TakeRemote, TakeNone
      <4>4. QED
        BY <1>2, <4>1, <4>2, <4>3 DEF FetchNext
    <3>2. PICK r \in {"l", "r"}, i \in Slots, nx \in {"flush"} :
            sched' \in {sched, Took(r, i), ToFetch(nx)}
      BY <3>1
    <3>3. CASE sched' = sched
      BY <3>3 DEF TypeOK, SchedOK
    <3>4. CASE sched' = Took(r, i)
      BY <3>4 DEF TypeOK, SchedOK
    <3>5. CASE sched' = ToFetch(nx)
      BY <3>5 DEF TypeOK, SchedOK, ToFetch
    <3>6. QED
      BY <3>2, <3>3, <3>4, <3>5
  <2>5. WireOK'
    BY <1>2 DEF FetchNext, TypeOK, WireOK, TakeLocal, TakeRemote, TakeNone,
        ringVars, cursors, remoteVars, semVars, wireVars, envVars
  <2>6. QED
    BY <2>1, <2>2, <2>3, <2>4, <2>5 DEF TypeOK
<1>3. CASE HandleServe
  <2>1. ReaderOK' /\ ThreadsOK' /\ WireOK'
    BY <1>3, Frames DEF HandleServe, StartServe, PostSem, ringVars, cursors, remoteVars,
        semVars, wireVars, envVars
  <2>2. RingsOK'
    <3>1. lq' = [lq EXCEPT ![sched.ev].ack = TRUE, ![sched.ev].block = FALSE]
          /\ UNCHANGED <<cursors, remoteVars>>
      BY <1>3 DEF HandleServe
    <3>2. lq \in [Slots -> Slot]
      BY DEF TypeOK, RingsOK
    <3>3. lq' \in [Slots -> Slot]
      BY <3>1, <3>2, ZenonT(30) DEF Slot
    <3>4. QED
      BY <3>1, <3>3 DEF TypeOK, RingsOK, cursors, remoteVars
  <2>3. SemsOK'
    <3>1. sched.ev \in Slots /\ PostSem(sched.ev)
      BY <1>3 DEF HandleServe, HandlingLocal, StartServe, TypeOK, SchedOK
    <3>2. QED
      BY <1>3, <3>1, PostSemType DEF HandleServe, TypeOK, SemsOK
  <2>4. SchedOK'
    BY <1>3 DEF HandleServe, TypeOK, SchedOK, HandlingLocal, StartServe
  <2>5. QED
    BY <2>1, <2>2, <2>3, <2>4 DEF TypeOK
<1>4. CASE HandleRefuse
  <2>1. ReaderOK' /\ ThreadsOK' /\ WireOK'
    BY <1>4, Frames DEF HandleRefuse, StartServe, PostSem, ToFetch, ringVars, cursors,
        remoteVars, semVars, wireVars, envVars
  <2>2. RingsOK'
    <3>1. sched.ev \in Slots
      BY <1>4 DEF HandleRefuse, HandlingLocal, TypeOK, SchedOK
    <3>2. lq[sched.ev] \in Slot
      BY <3>1 DEF TypeOK, RingsOK
    <3> DEFINE blocked == [lq[sched.ev] EXCEPT !.ack = FALSE, !.st = "BLOCKED"]
               refused == [lq[sched.ev] EXCEPT !.ack = FALSE]
    <3>3. blocked \in Slot /\ refused \in Slot
      BY <3>2 DEF Slot, States
    <3>a. lq' \in {[lq EXCEPT ![sched.ev] = blocked],
                  [lq EXCEPT ![sched.ev] = refused]}
      BY <1>4 DEF HandleRefuse
    <3> HIDE DEF blocked, refused
    <3>b. lq' \in [Slots -> Slot]
      BY <3>1, <3>3, <3>a DEF TypeOK, RingsOK
    <3>4. QED
      BY <1>4, <3>b DEF HandleRefuse, TypeOK, RingsOK, cursors, remoteVars
  <2>3. SemsOK'
    BY <1>4 DEF HandleRefuse, TypeOK, SemsOK, StartServe, PostSem, RingsOK,
        Slot, ringVars, cursors, remoteVars, semVars, wireVars, envVars
  <2>4. SchedOK'
    BY <1>4 DEF HandleRefuse, TypeOK, SchedOK, HandlingLocal, StartServe,
        ToFetch
  <2>5. QED
    BY <2>1, <2>2, <2>3, <2>4 DEF TypeOK
<1>5. CASE HandleBlock
  <2>1. SemsOK' /\ ReaderOK' /\ ThreadsOK' /\ WireOK'
    BY <1>5, Frames DEF HandleBlock, ringVars, cursors, remoteVars, semVars, wireVars,
        envVars
  <2>2. RingsOK'
    BY <1>5 DEF HandleBlock, TypeOK, RingsOK, HandlingLocal, SchedOK, Slot,
        States, ringVars, cursors, remoteVars, semVars, wireVars, envVars
  <2>3. SchedOK'
    BY <1>5 DEF HandleBlock, TypeOK, SchedOK, ToFetch
  <2>4. QED
    BY <2>1, <2>2, <2>3 DEF TypeOK
<1>6. CASE HandleSend
  <2>1. ReaderOK' /\ ThreadsOK'
    BY <1>6, Frames DEF HandleSend, Send, StartServe, PostSem, ringVars, cursors,
        remoteVars, semVars, wireVars, envVars
  <2>2. RingsOK'
    <3>1. sched.ev \in Slots
      BY <1>6 DEF HandleSend, HandlingLocal, TypeOK, SchedOK
    <3>2. lq[sched.ev] \in Slot
      BY <3>1 DEF TypeOK, RingsOK
    <3> DEFINE pending == [lq[sched.ev] EXCEPT !.st = "PENDING", !.ack = TRUE,
                                               !.block = FALSE]
               failed == [lq[sched.ev] EXCEPT !.block = FALSE]
    <3>3. pending \in Slot /\ failed \in Slot
      BY <3>2 DEF Slot, States
    <3>a. lq' \in {[lq EXCEPT ![sched.ev] = pending],
                  [lq EXCEPT ![sched.ev] = failed]}
      BY <1>6 DEF HandleSend
    <3> HIDE DEF pending, failed
    <3>b. lq' \in [Slots -> Slot]
      BY <3>1, <3>3, <3>a DEF TypeOK, RingsOK
    <3>4. QED
      BY <1>6, <3>b DEF HandleSend, TypeOK, RingsOK, cursors, remoteVars
  <2>3. SemsOK'
    BY <1>6 DEF HandleSend, TypeOK, SemsOK, StartServe, PostSem, RingsOK, Slot,
        ringVars, cursors, remoteVars, semVars, wireVars, envVars
  <2>4. SchedOK'
    BY <1>6 DEF HandleSend, TypeOK, SchedOK, HandlingLocal, StartServe, ToFetch
  <2>5. WireOK'
    <3> DEFINE m == [kind |-> "req", type |-> lq[sched.ev].type,
                     id |-> lq[sched.ev].id]
    <3>1. m \in Messages
      BY <1>6 DEF HandleSend, HandlingLocal, TypeOK, SchedOK, RingsOK, Slot,
                  Messages
    <3>2. Send(m)
      BY <1>6 DEF HandleSend
    <3> HIDE DEF m
    <3>3. toPeer' \in Seq(Messages)
      BY <3>1, <3>2, SendType
    <3>4. QED
      BY <1>6, <3>3 DEF HandleSend, TypeOK, WireOK, envVars
  <2>6. QED
    BY <2>1, <2>2, <2>3, <2>4, <2>5 DEF TypeOK
<1>7. CASE HandleRemoteRequest
  <2>1. ReaderOK' /\ ThreadsOK'
    BY <1>7, Frames DEF HandleRemoteRequest, Send, ringVars, cursors, remoteVars,
        semVars, wireVars, envVars
  <2>2. RingsOK'
    BY <1>7, UnblockType DEF HandleRemoteRequest, TypeOK, RingsOK, ringVars, cursors,
        remoteVars, semVars, wireVars, envVars
  <2>3. SemsOK'
    BY <1>7 DEF HandleRemoteRequest, TypeOK, SemsOK, ringVars, cursors, remoteVars,
        semVars, wireVars, envVars
  <2>4. SchedOK'
    BY <1>7 DEF HandleRemoteRequest, TypeOK, SchedOK, ToFetch
  <2>5. WireOK'
    <3> DEFINE m == [rq[sched.ev] EXCEPT !.kind = "resp"]
    <3>1. m \in Messages
      BY <1>7 DEF HandleRemoteRequest, TypeOK, SchedOK, RingsOK, Messages
    <3>2. Send(m)
      BY <1>7 DEF HandleRemoteRequest
    <3> HIDE DEF m
    <3>3. toPeer' \in Seq(Messages)
      BY <3>1, <3>2, SendType
    <3>4. QED
      BY <1>7, <3>3 DEF HandleRemoteRequest, TypeOK, WireOK, envVars
  <2>6. QED
    BY <2>1, <2>2, <2>3, <2>4, <2>5 DEF TypeOK
<1>8. CASE HandleResponse
  <2>1. RingsOK' /\ ReaderOK' /\ ThreadsOK'
    BY <1>8, Frames DEF HandleResponse, StartServe, PostSem, ringVars, cursors,
        remoteVars, semVars, wireVars, envVars
  <2>2. SemsOK'
    BY <1>8 DEF HandleResponse, TypeOK, SemsOK, StartServe, PostSem, RingsOK,
        Slot, ringVars, cursors, remoteVars, semVars, wireVars, envVars
  <2>3. SchedOK'
    BY <1>8, AnsweredFinds DEF HandleResponse, TypeOK, SchedOK, StartServe
  <2>4. WireOK'
    BY <1>8 DEF HandleResponse, TypeOK, WireOK, ringVars, cursors, remoteVars, semVars,
        wireVars, envVars
  <2>5. QED
    BY <2>1, <2>2, <2>3, <2>4 DEF TypeOK
<1>9. CASE FinishServe
  <2>1. SemsOK' /\ ReaderOK' /\ ThreadsOK' /\ WireOK'
    BY <1>9, Frames DEF FinishServe, ringVars, cursors, remoteVars, semVars, wireVars,
        envVars
  <2>2. RingsOK'
    BY <1>9 DEF FinishServe, TypeOK, RingsOK, SchedOK, Slot, States, ringVars, cursors,
        remoteVars, semVars, wireVars, envVars
  <2>3. SchedOK'
    BY <1>9 DEF FinishServe, TypeOK, SchedOK, ToFetch
  <2>4. QED
    BY <2>1, <2>2, <2>3 DEF TypeOK
<1>10. CASE StartReset
  <2>1. RingsOK' /\ ReaderOK' /\ ThreadsOK'
    BY <1>10, Frames DEF StartReset, ringVars, cursors, remoteVars, semVars, wireVars,
        envVars
  <2>2. SemsOK'
    BY <1>10 DEF StartReset, TypeOK, SemsOK, ringVars, cursors, remoteVars, semVars,
        wireVars, envVars
  <2>3. SchedOK'
    BY <1>10 DEF StartReset, TypeOK, SchedOK, ToFetch
  <2>4. WireOK'
    BY <1>10 DEF StartReset, TypeOK, WireOK, ringVars, cursors, remoteVars, semVars,
        wireVars, envVars
  <2>5. QED
    BY <2>1, <2>2, <2>3, <2>4 DEF TypeOK
<1>11. CASE FlushPending
  <2>1. RingsOK' /\ ReaderOK' /\ ThreadsOK' /\ WireOK'
    BY <1>11, Frames DEF FlushPending, StartServe, PostSem, ringVars, cursors,
        remoteVars, semVars, wireVars, envVars
  <2>2. SemsOK'
    <3> DEFINE i == NextWithState(lq, 0, "PENDING")
    <3>1. i \in Slots /\ PostSem(i)
      BY <1>11, NextWithStateFinds, NoneOutside DEF FlushPending, StartServe
    <3> HIDE DEF i
    <3>2. QED
      BY <1>11, <3>1, PostSemType DEF FlushPending, TypeOK, SemsOK
  <2>3. SchedOK'
    BY <1>11, NextWithStateFinds, NoneOutside DEF FlushPending, TypeOK,
        SchedOK, StartServe, RingsOK
  <2>4. QED
    BY <2>1, <2>2, <2>3 DEF TypeOK
<1>12. CASE FinishReset
  <2>1. RingsOK' /\ SemsOK' /\ ReaderOK' /\ ThreadsOK'
    BY <1>12, Frames DEF FinishReset, ringVars, cursors, remoteVars, semVars, wireVars,
        envVars
  <2>2. SchedOK'
    BY <1>12 DEF FinishReset, TypeOK, SchedOK, ToFetch
  <2>3. WireOK'
    BY <1>12 DEF FinishReset, TypeOK, WireOK, ringVars, cursors, remoteVars, semVars,
        wireVars, envVars
  <2>4. QED
    BY <2>1, <2>2, <2>3 DEF TypeOK
<1>13. QED
  BY <1>1, <1>2, <1>3, <1>4, <1>5, <1>6, <1>7, <1>8, <1>9, <1>10, <1>11, <1>12
      DEF Scheduler

LEMMA ReaderType ==
  ASSUME TypeOK, Reader
  PROVE  TypeOK'
<1>1. CASE Receive
  <2>1. SemsOK' /\ SchedOK' /\ ThreadsOK'
    BY <1>1, Frames DEF Receive, ringVars, cursors, remoteVars, semVars, wireVars,
        envVars
  <2>2. RingsOK'
    BY <1>1, IncType, HeadTail DEF Receive, TypeOK, RingsOK, WireOK, Messages,
        ringVars, cursors, remoteVars, semVars, wireVars, envVars
  <2>3. ReaderOK'
    BY <1>1, HeadTail DEF Receive, TypeOK, ReaderOK, WireOK
  <2>4. WireOK'
    BY <1>1, HeadTail DEF Receive, TypeOK, WireOK, ringVars, cursors, remoteVars,
        semVars, wireVars, envVars
  <2>5. QED
    BY <2>1, <2>2, <2>3, <2>4 DEF TypeOK
<1>2. CASE ReaderPost
  <2>1. RingsOK' /\ SchedOK' /\ ThreadsOK' /\ WireOK'
    BY <1>2, Frames DEF ReaderPost, ringVars, cursors, remoteVars, semVars, wireVars,
        envVars
  <2>2. SemsOK'
    BY <1>2 DEF ReaderPost, TypeOK, SemsOK, ringVars, cursors, remoteVars, semVars,
        wireVars, envVars
  <2>3. ReaderOK'
    BY <1>2 DEF ReaderPost, TypeOK, ReaderOK
  <2>4. QED
    BY <2>1, <2>2, <2>3 DEF TypeOK
<1>3. CASE ReaderNext
  <2>1. RingsOK' /\ SemsOK' /\ SchedOK' /\ ThreadsOK' /\ WireOK'
    BY <1>3, Frames DEF ReaderNext, ringVars, cursors, remoteVars, semVars, wireVars,
        envVars
  <2>2. ReaderOK'
    BY <1>3 DEF ReaderNext, TypeOK, ReaderOK
  <2>3. QED
    BY <2>1, <2>2 DEF TypeOK
<1>4. CASE ReceiveFails
  <2>1. RingsOK' /\ SemsOK' /\ SchedOK' /\ ThreadsOK' /\ WireOK'
    BY <1>4, Frames DEF ReceiveFails, ringVars, cursors, remoteVars, semVars, wireVars,
        envVars
  <2>2. ReaderOK'
    BY <1>4 DEF ReceiveFails, TypeOK, ReaderOK
  <2>3. QED
    BY <2>1, <2>2 DEF TypeOK
<1>5. CASE ReaderGivesUp
  <2>1. SchedOK' /\ ThreadsOK'
    BY <1>5, Frames DEF ReaderGivesUp, PostSem, ringVars, cursors, remoteVars, semVars,
        wireVars, envVars
  <2>2. RingsOK'
    <3> DEFINE i == IF PC THEN NextWithState(lq, lcur, "BLOCKED") ELSE None
    <3>1. i \in Slots \cup {None}
      BY NextWithStateFinds DEF TypeOK, RingsOK
    <3>2. IF i = None THEN lq' = lq ELSE lq' = [lq EXCEPT ![i].ack = FALSE]
      BY <1>5 DEF ReaderGivesUp
    <3> HIDE DEF i
    <3>3. lq' \in [Slots -> Slot]
      <4>1. CASE i = None
        BY <3>2, <4>1 DEF TypeOK, RingsOK
      <4>2. CASE i # None
        <5>1. i \in Slots /\ lq' = [lq EXCEPT ![i].ack = FALSE]
          BY <3>1, <3>2, <4>2
        <5>2. lq \in [Slots -> Slot]
          BY DEF TypeOK, RingsOK
        <5>3. QED
          BY <5>1, <5>2 DEF Slot
      <4>3. QED
        BY <4>1, <4>2
    <3>4. QED
      BY <1>5, <3>3 DEF ReaderGivesUp, TypeOK, RingsOK, cursors, remoteVars
  <2>3. SemsOK'
    <3>1. posted' = posted \/ \E i \in Slots : PostSem(i)
      BY <1>5, NextWithStateFinds DEF ReaderGivesUp, TypeOK, RingsOK
    <3>2. posted' \in [Sems -> Nat]
      BY <3>1, PostSemType DEF TypeOK, SemsOK
    <3>3. UNCHANGED <<refs, owner, semaphores, addSem, notify, resetX, nextId>>
      BY <1>5 DEF ReaderGivesUp
    <3>4. QED
      BY <3>2, <3>3 DEF TypeOK, SemsOK
  <2>4. ReaderOK'
    BY <1>5, NextWithStateFinds DEF ReaderGivesUp, TypeOK, ReaderOK, RingsOK
  <2>5. WireOK'
    BY <1>5 DEF ReaderGivesUp, TypeOK, WireOK, ringVars, cursors, remoteVars, semVars,
        wireVars, envVars
  <2>6. QED
    BY <2>1, <2>2, <2>3, <2>4, <2>5 DEF TypeOK
<1>6. CASE ReaderMark
  <2>1. SemsOK' /\ SchedOK' /\ ThreadsOK' /\ WireOK'
    BY <1>6, Frames DEF ReaderMark, ringVars, cursors, remoteVars, semVars, wireVars,
        envVars
  <2>2. RingsOK'
    BY <1>6 DEF ReaderMark, TypeOK, RingsOK, ReaderOK, Slot, States, ringVars, cursors,
        remoteVars, semVars, wireVars, envVars
  <2>3. ReaderOK'
    BY <1>6 DEF ReaderMark, TypeOK, ReaderOK
  <2>4. QED
    BY <2>1, <2>2, <2>3 DEF TypeOK
<1>7. QED
  BY <1>1, <1>2, <1>3, <1>4, <1>5, <1>6 DEF Reader

LEMMA PeerType ==
  ASSUME TypeOK, Peer \/ LinkFails
  PROVE  TypeOK'
<1>1. CASE PeerAnswer
  <2>1. RingsOK' /\ SemsOK' /\ SchedOK' /\ ReaderOK' /\ ThreadsOK'
    BY <1>1, Frames DEF PeerAnswer, ringVars, cursors, remoteVars, semVars, wireVars,
        envVars
  <2>2. WireOK'
    <3> DEFINE m == Head(toPeer)
               r == [m EXCEPT !.kind = "resp"]
    <3>1. m \in Messages /\ Tail(toPeer) \in Seq(Messages)
      BY <1>1, HeadTail DEF PeerAnswer, TypeOK, WireOK
    <3> HIDE DEF m
    <3>2. r \in Messages
      BY <3>1 DEF Messages
    <3>3. /\ toPeer' = Tail(toPeer)
          /\ fromPeer' \in {fromPeer, Append(fromPeer, r)}
      BY <1>1 DEF PeerAnswer, m
    <3> HIDE DEF r
    <3>4. toPeer' \in Seq(Messages) /\ fromPeer' \in Seq(Messages)
      BY <3>1, <3>2, <3>3 DEF TypeOK, WireOK
    <3>5. QED
      BY <1>1, <3>4 DEF PeerAnswer, TypeOK, WireOK, envVars
  <2>3. QED
    BY <2>1, <2>2 DEF TypeOK
<1>2. CASE \E ty \in RemoteTypes : PeerRequest(ty)
  <2>1. RingsOK' /\ SemsOK' /\ SchedOK' /\ ReaderOK' /\ ThreadsOK'
    BY <1>2, Frames DEF PeerRequest, ringVars, cursors, remoteVars, semVars, wireVars,
        envVars
  <2>2. WireOK'
    BY <1>2, TypesInTypes DEF PeerRequest, TypeOK, WireOK, Messages, ringVars, cursors,
        remoteVars, semVars, wireVars, envVars
  <2>3. QED
    BY <2>1, <2>2 DEF TypeOK
<1>3. CASE LinkFails
  <2>1. RingsOK' /\ SemsOK' /\ SchedOK' /\ ReaderOK' /\ ThreadsOK'
    BY <1>3, Frames DEF LinkFails, ringVars, cursors, remoteVars, semVars, wireVars,
        envVars
  <2>2. WireOK'
    BY <1>3 DEF LinkFails, TypeOK, WireOK, ringVars, cursors, remoteVars, semVars,
        wireVars, envVars
  <2>3. QED
    BY <2>1, <2>2 DEF TypeOK
<1>4. QED
  BY <1>1, <1>2, <1>3 DEF Peer

LEMMA StepType == TypeOK /\ [Next]_vars => TypeOK'
<1> SUFFICES ASSUME TypeOK, [Next]_vars PROVE TypeOK'
  OBVIOUS
<1>1. CASE \E t \in Threads : Thread(t)
  BY <1>1, ThreadType
<1>2. CASE Scheduler
  BY <1>2, SchedulerType
<1>3. CASE Reader
  BY <1>3, ReaderType
<1>4. CASE Peer \/ LinkFails
  BY <1>4, PeerType
<1>5. CASE UNCHANGED vars
  BY <1>5, Frames DEF vars, TypeOK
<1>6. QED
  BY <1>1, <1>2, <1>3, <1>4, <1>5 DEF Next

\* Every reachable state of the dispatcher is well typed: no cursor leaves its
\* ring, and a thread that handles, completes or waits for something has a slot
\* or a semaphore to do it with.
THEOREM TypeCorrect == Spec => []TypeOK
<1>1. QED
  BY InitType, StepType, PTL DEF Spec

-----------------------------------------------------------------------------
(* The reference counts of the completion semaphores.                        *)

\* Before the first connection of the host build nothing runs and no slot has
\* a semaphore: what makes the counts right when dispatcherStart resets them.
BeforeFirst ==
  session = 0 =>
    /\ link = "NONE" /\ sched.pc = "dead"
    /\ \A t \in Threads : thr[t].pc = "idle"
    /\ \A i \in Slots : lq[i].sem = None

\* The inductive invariant.
SemInv == TypeOK /\ SemRefsMatch /\ BeforeFirst

\* The steps other than AddEvent and Connect leave the semaphore of every slot
\* and the counts alone.
SameSems ==
  /\ \A i \in Slots : lq'[i].sem = lq[i].sem
  /\ UNCHANGED <<refs, semaphores, session>>

LEMMA RefsFinite ==
  ASSUME NEW s
  PROVE  IsFiniteSet(Refs(s)) /\ Refs(s) \subseteq Slots
<1>1. IsFiniteSet(Slots)
  BY FS_Interval, DispatcherAssumption DEF Slots, DispatcherAssumption
<1>2. Refs(s) \subseteq Slots
  BY DEF Refs
<1>3. QED
  BY <1>1, <1>2, FS_Subset

LEMMA LiveFinite == ASSUME NEW r PROVE IsFiniteSet({s \in Sems : r[s] > 0})
<1>1. IsFiniteSet(Sems)
  BY FS_Interval, DispatcherAssumption DEF Sems, DispatcherAssumption
<1>2. QED
  BY <1>1, FS_Subset

LEMMA SameSemsKeeps ==
  ASSUME SemRefsMatch, SameSems
  PROVE  SemRefsMatch'
<1>1. \A s : Refs(s)' = Refs(s)
  BY DEF SameSems, Refs
<1>2. QED
  BY <1>1 DEF SameSems, SemRefsMatch, RefCounts, SemCount

\* A slot whose event changes state keeps its semaphore.
LEMMA UnblockKeepsSems ==
  ASSUME NEW q \in [Slots -> Slot], NEW ty, NEW j \in Slots
  PROVE  Unblock(q, ty)[j].sem = q[j].sem
<1> DEFINE hits == {i \in Slots : q[i].st = "BLOCKED" /\ q[i].type = ty}
<1>1. CASE hits = {}
  BY <1>1 DEF Unblock
<1>2. CASE hits # {}
  <2>1. SetMin(hits) \in Slots
    BY <1>2, SetMinIsLeast, NoneOutside
  <2>2. Unblock(q, ty) = [q EXCEPT ![SetMin(hits)].st = "READY"]
    BY <1>2 DEF Unblock
  <2> HIDE DEF hits
  <2>3. QED
    BY <2>1, <2>2 DEF Slot
<1>3. QED
  BY <1>1, <1>2

LEMMA SchedulerSameSems == ASSUME TypeOK, Scheduler PROVE SameSems
<1> USE DEF TypeOK, RingsOK, SchedOK, Slot, SameSems
<1>1. CASE FetchReady
  BY <1>1 DEF FetchReady, ringVars, cursors, semVars, envVars
<1>2. CASE \E from \in {"fetch", "drain"} : FetchNext(from)
  BY <1>2 DEF FetchNext, TakeLocal, TakeRemote, TakeNone, ringVars, cursors, semVars,
              envVars
<1>3. CASE HandleServe
  BY <1>3 DEF HandleServe, HandlingLocal, envVars
<1>4. CASE HandleRefuse
  <2>1. /\ lq' \in {[lq EXCEPT ![sched.ev] =
                       [@ EXCEPT !.ack = FALSE, !.st = "BLOCKED"]],
                     [lq EXCEPT ![sched.ev].ack = FALSE]}
        /\ UNCHANGED <<refs, semaphores, session>>
    BY <1>4 DEF HandleRefuse, envVars
  <2>2. sched.ev \in Slots
    BY <1>4 DEF HandleRefuse, HandlingLocal
  <2>3. \A j \in Slots : lq'[j].sem = lq[j].sem
    <3> SUFFICES ASSUME NEW j \in Slots PROVE lq'[j].sem = lq[j].sem
      OBVIOUS
    <3>1. CASE j = sched.ev
      BY <2>1, <2>2, <3>1
    <3>2. CASE j # sched.ev
      BY <2>1, <2>2, <3>2
    <3>3. QED
      BY <3>1, <3>2
  <2>4. QED
    BY <2>1, <2>3
<1>5. CASE HandleBlock
  BY <1>5 DEF HandleBlock, HandlingLocal, semVars, envVars
<1>6. CASE HandleSend
  <2>1. /\ lq' \in {[lq EXCEPT ![sched.ev] =
                       [@ EXCEPT !.st = "PENDING", !.ack = TRUE,
                                 !.block = FALSE]],
                     [lq EXCEPT ![sched.ev].block = FALSE]}
        /\ UNCHANGED <<refs, semaphores, session>>
    BY <1>6 DEF HandleSend, envVars
  <2>2. sched.ev \in Slots
    BY <1>6 DEF HandleSend, HandlingLocal
  <2>3. \A j \in Slots : lq'[j].sem = lq[j].sem
    <3> SUFFICES ASSUME NEW j \in Slots PROVE lq'[j].sem = lq[j].sem
      OBVIOUS
    <3>1. CASE j = sched.ev
      <4>1. lq[j] \in Slot /\ lq \in [Slots -> Slot]
        OBVIOUS
      <4>2. lq'[j] \in {[lq[j] EXCEPT !.st = "PENDING", !.ack = TRUE,
                                      !.block = FALSE],
                        [lq[j] EXCEPT !.block = FALSE]}
        BY <2>1, <2>2, <3>1, <4>1
      <4>3. QED
        BY <4>1, <4>2
    <3>2. CASE j # sched.ev
      BY <2>1, <2>2, <3>2
    <3>3. QED
      BY <3>1, <3>2
  <2>4. QED
    BY <2>1, <2>3
<1>7. CASE HandleRemoteRequest
  <2>1. /\ \E q \in [Slots -> Slot] : \E ty :
             /\ \A i \in Slots : q[i].sem = lq[i].sem
             /\ lq' \in {lq, q, Unblock(q, ty)}
        /\ UNCHANGED <<semVars, envVars>>
    <3>1. Unblock(lq, "WRITE") \in [Slots -> Slot]
      BY UnblockType
    <3>2. lq' \in {lq, Unblock(lq, "READ"), Unblock(lq, "WRITE"),
                   Unblock(Unblock(lq, "WRITE"), "CLOSE")}
      BY <1>7 DEF HandleRemoteRequest
    <3>3. QED
      BY <1>7, <3>1, <3>2, UnblockKeepsSems DEF HandleRemoteRequest
  <2>2. QED
    BY <2>1, UnblockKeepsSems DEF semVars, envVars
<1>8. CASE HandleResponse
  BY <1>8 DEF HandleResponse, ringVars, cursors, envVars
<1>9. CASE FinishServe
  BY <1>9 DEF FinishServe, semVars, envVars
<1>10. CASE StartReset
  BY <1>10 DEF StartReset, ringVars, cursors, semVars
<1>11. CASE FlushPending
  BY <1>11 DEF FlushPending, ringVars, cursors, envVars
<1>12. CASE FinishReset
  BY <1>12 DEF FinishReset, ringVars, cursors, semVars
<1>13. QED
  BY <1>1, <1>2, <1>3, <1>4, <1>5, <1>6, <1>7, <1>8, <1>9, <1>10, <1>11, <1>12
  DEF Scheduler

LEMMA ReaderSameSems == ASSUME TypeOK, Reader PROVE SameSems
<1> USE DEF TypeOK, RingsOK, ReaderOK, Slot, SameSems
<1>1. CASE Receive
  BY <1>1 DEF Receive, ringVars, cursors, semVars, envVars
<1>2. CASE ReaderPost \/ ReaderNext \/ ReceiveFails
  BY <1>2 DEF ReaderPost, ReaderNext, ReceiveFails, ringVars, cursors, semVars, envVars
<1>3. CASE ReaderGivesUp
  BY <1>3 DEF ReaderGivesUp
<1>4. CASE ReaderMark
  BY <1>4 DEF ReaderMark, semVars, envVars
<1>5. QED
  BY <1>1, <1>2, <1>3, <1>4 DEF Reader

LEMMA PeerSameSems == ASSUME Peer \/ LinkFails PROVE SameSems
<1> USE DEF SameSems, ringVars, cursors, semVars, envVars
<1>1. CASE PeerAnswer
  BY <1>1 DEF PeerAnswer
<1>2. CASE \E ty \in RemoteTypes : PeerRequest(ty)
  BY <1>2 DEF PeerRequest
<1>3. CASE LinkFails
  BY <1>3 DEF LinkFails
<1>4. QED
  BY <1>1, <1>2, <1>3 DEF Peer

\* The steps of a thread other than AddEvent and Connect.
LEMMA ThreadSameSems ==
  ASSUME NEW t \in Threads, Thread(t), ~AddEvent(t), ~Connect(t)
  PROVE  SameSems
<1> USE DEF SameSems, ringVars, cursors, semVars, envVars
<1>1. CASE \E ty \in LocalTypes : Call(t, ty)
  BY <1>1 DEF Call
<1>2. CASE CallNoLink(t) \/ AddNoSem(t)
  BY <1>2 DEF CallNoLink, AddNoSem
<1>3. CASE Post(t) \/ Lookup(t) \/ Wait(t)
  BY <1>3 DEF Post, Lookup, Wait
<1>4. CASE Return(t) \/ Disconnect(t)
  BY <1>4 DEF Return, Disconnect
<1>5. QED
  BY <1>1, <1>2, <1>3, <1>4 DEF Thread

\* The first half of dispatcherAddEvent: the semaphore that the thread has or
\* gets is live and counts one reference more.
LEMMA SemForCount ==
  ASSUME NEW t, SemFor(t) # None, TypeOK, RefCounts
  PROVE  /\ SemFor(t) \in Sems
         /\ RefsWith(t, SemFor(t)) =
              [refs EXCEPT ![SemFor(t)] = Cardinality(Refs(SemFor(t))) + 1]
         /\ (CurrentSem(t) = None) <=> ~(refs[SemFor(t)] > 0)
         /\ CurrentSem(t) = None => Refs(SemFor(t)) = {}
<1> DEFINE s == SemFor(t)
<1>1. s \in Sems
  BY SemForType
<1>2. refs[s] = IF Refs(s) = {} THEN -1 ELSE Cardinality(Refs(s))
  BY <1>1 DEF RefCounts
<1>3. Cardinality(Refs(s)) \in Nat /\ (Refs(s) = {} <=> Cardinality(Refs(s)) = 0)
  BY RefsFinite, FS_CardinalityType, FS_EmptySet
<1>4. CASE CurrentSem(t) # None
  <2>1. s = CurrentSem(t) /\ refs[s] > 0
    BY <1>4, CurrentSemFinds DEF SemFor
  <2>2. refs[s] = Cardinality(Refs(s))
    BY <2>1, <1>2
  <2>3. QED
    BY <1>1, <1>4, <2>1, <2>2 DEF RefsWith
<1>5. CASE CurrentSem(t) = None
  <2>1. s = FreeSem /\ refs[s] < 0
    BY <1>5, FreeSemFinds DEF SemFor
  <2>2. Refs(s) = {}
    BY <2>1, <1>2, <1>3
  <2>3. CurrentSem(t) # s
    BY <1>5, <1>1, NoneOutside
  <2>4. Cardinality(Refs(s)) = 0 /\ refs[s] = -1
    BY <1>2, <1>3, <2>2
  <2> HIDE DEF s
  <2>5. RefsWith(t, s) = [refs EXCEPT ![s] = 1]
    BY <2>3 DEF RefsWith
  <2>6. RefsWith(t, s) = [refs EXCEPT ![s] = Cardinality(Refs(s)) + 1]
    BY <2>4, <2>5
  <2>7. (CurrentSem(t) = None) <=> ~(refs[s] > 0)
    BY <1>5, <2>4
  <2>8. QED
    BY <1>1, <2>2, <2>6, <2>7 DEF s
<1>6. QED
  BY <1>4, <1>5

\* dispatcherAddEvent keeps the counts: the slot that is reused gives up one
\* semaphore and takes another, possibly the same.
LEMMA AddEventCounts ==
  ASSUME NEW t \in Threads, TypeOK, RefCounts, SemCount, AddEvent(t)
  PROVE  (RefCounts /\ SemCount)'
<1> DEFINE i == NextWithState(lq, lcur, "SERVED")
           s == SemFor(t)
           old == lq[i].sem
           held == RefsWith(t, s)
<1>1. i \in Slots /\ s \in Sems /\ s # None
  BY SemForType, NextWithStateFinds DEF AddEvent, TypeOK, RingsOK
<1>2. /\ lq' = [lq EXCEPT ![i] = [@ EXCEPT !.sem = s, !.id = nextId + 1,
                  !.type = IF thr[t].type = "CONNECT" THEN "PING" ELSE thr[t].type,
                  !.ack = TRUE, !.block = FALSE]]
      /\ refs' = Unref(held, old)
      /\ semaphores' = semaphores + (IF CurrentSem(t) = None THEN 1 ELSE 0)
                       - (IF old # None /\ held[old] = 1 THEN 1 ELSE 0)
  BY DEF AddEvent
<1>3. old \in Sems \cup {None} /\ lq \in [Slots -> Slot] /\ refs \in [Sems -> Int]
  BY <1>1 DEF TypeOK, RingsOK, SemsOK, Slot
<1>4. /\ held = [refs EXCEPT ![s] = Cardinality(Refs(s)) + 1]
      /\ (CurrentSem(t) = None) <=> ~(refs[s] > 0)
      /\ CurrentSem(t) = None => Refs(s) = {}
  BY <1>1, SemForCount
<1> HIDE DEF i, s, held
<1>5. \A x \in Sems : Refs(x)' = IF x = s THEN Refs(s) \cup {i} ELSE Refs(x) \ {i}
  <2>1. lq'[i].sem = s
    BY <1>1, <1>2, <1>3 DEF Slot
  <2>2. \A j \in Slots : j # i => lq'[j].sem = lq[j].sem
    BY <1>1, <1>2, <1>3
  <2>3. QED
    BY <1>1, <2>1, <2>2 DEF Refs
<1>6. \A x \in Sems : i \in Refs(x) <=> x = old
  BY <1>1 DEF Refs
<1>7. \A x \in Sems :
        /\ IsFiniteSet(Refs(x)) /\ IsFiniteSet(Refs(x) \ {i})
        /\ Cardinality(Refs(x)) \in Nat
        /\ (Refs(x) = {}) <=> (Cardinality(Refs(x)) = 0)
        /\ Cardinality(Refs(x) \cup {i}) =
             IF i \in Refs(x) THEN Cardinality(Refs(x))
                              ELSE Cardinality(Refs(x)) + 1
        /\ Cardinality(Refs(x) \ {i}) =
             IF i \in Refs(x) THEN Cardinality(Refs(x)) - 1
                              ELSE Cardinality(Refs(x))
  <2> SUFFICES ASSUME NEW x \in Sems
               PROVE  /\ IsFiniteSet(Refs(x)) /\ IsFiniteSet(Refs(x) \ {i})
                      /\ Cardinality(Refs(x)) \in Nat
                      /\ (Refs(x) = {}) <=> (Cardinality(Refs(x)) = 0)
                      /\ Cardinality(Refs(x) \cup {i}) =
                           IF i \in Refs(x) THEN Cardinality(Refs(x))
                                            ELSE Cardinality(Refs(x)) + 1
                      /\ Cardinality(Refs(x) \ {i}) =
                           IF i \in Refs(x) THEN Cardinality(Refs(x)) - 1
                                            ELSE Cardinality(Refs(x))
    OBVIOUS
  <2>1. IsFiniteSet(Refs(x))
    BY RefsFinite
  <2>2. QED
    BY <2>1, FS_CardinalityType, FS_EmptySet, FS_AddElement, FS_RemoveElement
<1>8. \A x \in Sems : i \in Refs(x) => Cardinality(Refs(x)) >= 1
  <2> SUFFICES ASSUME NEW x \in Sems, i \in Refs(x)
               PROVE  Cardinality(Refs(x)) >= 1
    OBVIOUS
  <2>1. Cardinality(Refs(x)) \in Nat /\ Cardinality(Refs(x)) # 0
    BY <1>7
  <2>2. QED
    BY <2>1
<1>9. \A x \in Sems : (Refs(x) \ {i} = {}) <=> (Cardinality(Refs(x) \ {i}) = 0)
  BY <1>7, FS_EmptySet
<1>10. \A x \in Sems : held[x] = IF x = s THEN Cardinality(Refs(s)) + 1
                                 ELSE refs[x]
  BY <1>1, <1>3, <1>4
<1>11. \A x \in Sems : refs'[x] = IF x = old THEN IF held[x] - 1 = 0 THEN -1
                                                   ELSE held[x] - 1
                                             ELSE held[x]
  <2>1. held \in [Sems -> Int]
    <3>1. Cardinality(Refs(s)) + 1 \in Int
      <4>1. Cardinality(Refs(s)) \in Nat
        BY <1>1, RefsFinite, FS_CardinalityType
      <4>2. QED
        BY <4>1
    <3>2. held = [refs EXCEPT ![s] = Cardinality(Refs(s)) + 1]
      BY <1>4
    <3>3. QED
      BY <1>1, <1>3, <3>1, <3>2
  <2>2. CASE old = None
    <3>1. refs' = held /\ old \notin Sems
      BY <1>2, <2>2, NoneOutside DEF Unref
    <3>2. QED
      BY <3>1
  <2>3. CASE old # None
    <3>1. refs' = [held EXCEPT ![old] = IF @ - 1 = 0 THEN -1 ELSE @ - 1]
      BY <1>2, <2>3 DEF Unref
    <3> HIDE DEF old
    <3>2. QED
      BY <2>1, <3>1
  <2>4. QED
    BY <2>2, <2>3
<1>12. RefCounts'
  <2> SUFFICES ASSUME NEW x \in Sems
               PROVE  refs'[x] = IF Refs(x)' = {} THEN -1 ELSE Cardinality(Refs(x)')
    BY DEF RefCounts
  <2>1. refs[x] = IF Refs(x) = {} THEN -1 ELSE Cardinality(Refs(x))
    BY DEF RefCounts
  <2>2. CASE x = s
    <3>1. Refs(x)' = Refs(x) \cup {i} /\ Refs(x)' # {}
      BY <2>2, <1>5
    <3>2. held[x] = Cardinality(Refs(x)) + 1
      BY <2>2, <1>10
    <3>3. CASE x = old
      <4>1. Cardinality(Refs(x)') = Cardinality(Refs(x))
        BY <3>1, <3>3, <1>6, <1>7
      <4>2. refs'[x] = IF held[x] - 1 = 0 THEN -1 ELSE held[x] - 1
        BY <3>3, <1>11
      <4>3. Cardinality(Refs(x)) >= 1 /\ Cardinality(Refs(x)) \in Nat
        BY <3>3, <1>6, <1>7, <1>8
      <4>4. QED
        BY <3>1, <3>2, <4>1, <4>2, <4>3
    <3>4. CASE x # old
      <4>1. Cardinality(Refs(x)') = Cardinality(Refs(x)) + 1
        BY <3>1, <3>4, <1>6, <1>7
      <4>2. refs'[x] = held[x]
        BY <3>4, <1>11
      <4>3. QED
        BY <3>1, <3>2, <4>1, <4>2
    <3>5. QED
      BY <3>3, <3>4
  <2>3. CASE x # s
    <3>1. Refs(x)' = Refs(x) \ {i} /\ held[x] = refs[x]
      BY <2>3, <1>5, <1>10
    <3>2. CASE x = old
      <4>1. refs[x] = Cardinality(Refs(x)) /\ Cardinality(Refs(x)) \in Nat
        BY <3>2, <2>1, <1>6, <1>7
      <4>2. Cardinality(Refs(x)') = Cardinality(Refs(x)) - 1
        BY <3>1, <3>2, <1>6, <1>7
      <4>3. Refs(x)' = {} <=> Cardinality(Refs(x)') = 0
        BY <3>1, <1>9
      <4>4. refs'[x] = IF held[x] - 1 = 0 THEN -1 ELSE held[x] - 1
        BY <3>2, <1>11
      <4>5. QED
        BY <3>1, <4>1, <4>2, <4>3, <4>4
    <3>3. CASE x # old
      <4>1. Refs(x)' = Refs(x)
        BY <3>1, <3>3, <1>6
      <4>2. refs'[x] = refs[x]
        BY <3>1, <3>3, <1>11
      <4>3. QED
        BY <2>1, <4>1, <4>2
    <3>4. QED
      BY <3>2, <3>3
  <2>4. QED
    BY <2>2, <2>3
<1>13. SemCount'
  <2> DEFINE live == {x \in Sems : refs[x] > 0}
             freed == old # None /\ held[old] = 1
  <2>1. \A x \in Sems : refs[x] = IF Refs(x) = {} THEN -1 ELSE Cardinality(Refs(x))
    BY DEF RefCounts
  <2>2. freed => old # s /\ old \in Sems
    <3> SUFFICES ASSUME freed, old = s PROVE FALSE
      BY <1>3 DEF freed
    <3>1. Cardinality(Refs(s)) >= 1 /\ Cardinality(Refs(s)) \in Nat
      BY <1>1, <1>6, <1>7, <1>8
    <3>2. held[s] = Cardinality(Refs(s)) + 1 /\ held[s] = 1
      BY <1>1, <1>10
    <3>3. QED
      BY <3>1, <3>2
  <2>3. {x \in Sems : refs'[x] > 0} =
          IF freed THEN (live \cup {s}) \ {old} ELSE live \cup {s}
    <3>1. \A x \in Sems : held[x] > 0 <=> x \in live \cup {s}
      <4> SUFFICES ASSUME NEW x \in Sems
                   PROVE  held[x] > 0 <=> x \in live \cup {s}
        OBVIOUS
      <4>1. CASE x = s
        <5>1. held[x] = Cardinality(Refs(s)) + 1 /\ Cardinality(Refs(s)) \in Nat
          BY <1>1, <1>7, <1>10, <4>1
        <5>2. held[x] > 0
          BY <5>1
        <5>3. QED
          BY <4>1, <5>2
      <4>2. CASE x # s
        BY <1>10, <4>2
      <4>3. QED
        BY <4>1, <4>2
    <3>2. \A x \in Sems : refs'[x] > 0 <=> held[x] > 0 /\ ~(freed /\ x = old)
      BY <1>3, <1>6, <1>7, <1>10, <1>11, <2>1, NoneOutside
    <3>3. QED
      BY <3>1, <3>2, <1>1
  <2>4. freed => old \in live
    BY <2>2, <1>3, <1>10
  <2>5. s \in live <=> CurrentSem(t) # None
    BY <1>1, <1>4
  <2>6. IsFiniteSet(live) /\ Cardinality(live) \in Nat /\ semaphores = Cardinality(live)
    BY LiveFinite, FS_CardinalityType DEF SemCount
  <2> HIDE DEF live, freed
  <2>7. /\ IsFiniteSet(live \cup {s})
        /\ Cardinality(live \cup {s}) =
             IF s \in live THEN Cardinality(live) ELSE Cardinality(live) + 1
        /\ Cardinality((live \cup {s}) \ {old}) =
             IF old \in live \cup {s} THEN Cardinality(live \cup {s}) - 1
                                     ELSE Cardinality(live \cup {s})
    BY <2>6, FS_AddElement, FS_RemoveElement
  <2>8. semaphores' = semaphores + (IF CurrentSem(t) = None THEN 1 ELSE 0)
                      - (IF freed THEN 1 ELSE 0)
    BY <1>2 DEF freed
  <2>9. semaphores' = Cardinality({x \in Sems : refs'[x] > 0})
    <3> DEFINE next == {x \in Sems : refs'[x] > 0}
    <3>1. next = IF freed THEN (live \cup {s}) \ {old} ELSE live \cup {s}
      BY <2>3
    <3>2. Cardinality(next) = IF freed THEN Cardinality(live \cup {s}) - 1
                                        ELSE Cardinality(live \cup {s})
      BY <2>4, <2>7, <3>1
    <3> HIDE DEF next
    <3>3. Cardinality(next) = semaphores'
      <4>1. Cardinality(live \cup {s}) =
              IF CurrentSem(t) = None THEN Cardinality(live) + 1
                                      ELSE Cardinality(live)
        BY <2>5, <2>7
      <4>2. QED
        BY <2>6, <2>8, <3>2, <4>1
    <3>4. QED
      BY <3>3 DEF next
  <2>10. QED
    BY <2>9 DEF SemCount
<1>14. QED
  BY <1>12, <1>13

\* dispatcherStart starts from no semaphore at all; on the first connection no
\* slot points at one.
LEMMA ConnectCounts ==
  ASSUME NEW t \in Threads, TypeOK, BeforeFirst, Connect(t)
  PROVE  SemRefsMatch'
<1> SUFFICES ASSUME session' <= 1
             PROVE  (RefCounts /\ SemCount)'
  BY DEF SemRefsMatch
<1>1. session = 0
  BY DEF Connect, TypeOK, WireOK
<1>2. \A j \in Slots : lq'[j].sem = None
  BY <1>1 DEF BeforeFirst, Connect, TypeOK, RingsOK, Slot
<1>3. \A x \in Sems : Refs(x)' = {}
  BY <1>2, NoneOutside DEF Refs
<1>4. \A x \in Sems : refs'[x] = -1
  BY DEF Connect
<1>5. RefCounts'
  BY <1>3, <1>4 DEF RefCounts
<1>6. {x \in Sems : refs'[x] > 0} = {} /\ semaphores' = 0
  BY <1>4 DEF Connect
<1>7. SemCount'
  BY <1>6, FS_EmptySet DEF SemCount
<1>8. QED
  BY <1>5, <1>7

LEMMA BeforeFirstKept ==
  ASSUME TypeOK, BeforeFirst, Next
  PROVE  BeforeFirst'
<1> SUFFICES ASSUME session' = 0
             PROVE  BeforeFirst'
  BY DEF BeforeFirst
<1> USE DEF ringVars, cursors, semVars, envVars
<1>1. CASE \E t \in Threads : Thread(t)
  <2> PICK t \in Threads : Thread(t)
    BY <1>1
  <2>1. ~Connect(t)
    BY DEF Connect, TypeOK, WireOK
  <2>2. session = 0
    BY <2>1 DEF Thread, Call, CallNoLink, AddEvent, AddNoSem, Post, Lookup,
                Wait, Return, Disconnect
  <2>3. QED
    BY <2>1, <2>2 DEF BeforeFirst, Thread, Call, CallNoLink, AddEvent, AddNoSem,
                      Post, Lookup, Wait, Return, Disconnect
<1>2. CASE Scheduler
  <2>1. session = 0
    BY <1>2, SchedulerSameSems DEF SameSems
  <2>2. QED
    BY <1>2, <2>1
    DEF BeforeFirst, Scheduler, FetchReady, FetchNext, HandlingLocal, HandleServe,
        HandleRefuse, HandleBlock, HandleSend, HandleRemoteRequest,
        HandleResponse, FinishServe, StartReset, FlushPending, FinishReset
<1>3. CASE Reader
  <2>1. session = 0 /\ \A j \in Slots : lq'[j].sem = lq[j].sem
    BY <1>3, ReaderSameSems DEF SameSems
  <2>2. link = "NONE" => UNCHANGED <<link, sched, thr>>
    BY <1>3 DEF Reader, Receive, ReaderPost, ReaderNext, ReceiveFails,
                ReaderGivesUp, ReaderMark
  <2>3. QED
    BY <2>1, <2>2 DEF BeforeFirst
<1>4. CASE Peer \/ LinkFails
  <2>1. UNCHANGED <<session, link, sched, thr, lq>>
    BY <1>4 DEF Peer, PeerAnswer, PeerRequest, LinkFails
  <2>2. QED
    BY <2>1 DEF BeforeFirst
<1>5. QED
  BY <1>1, <1>2, <1>3, <1>4 DEF Next

LEMMA InitSems == Init => SemInv
<1> SUFFICES ASSUME Init PROVE SemInv
  OBVIOUS
<1>1. TypeOK
  BY InitType
<1>2. \A j \in Slots : lq[j].sem = None
  BY DEF Init, NewSlot
<1>3. \A x \in Sems : Refs(x) = {} /\ refs[x] = -1
  BY <1>2, NoneOutside DEF Refs, Init
<1>4. {x \in Sems : refs[x] > 0} = {} /\ semaphores = 0
  BY <1>3 DEF Init
<1>5. RefCounts /\ SemCount
  BY <1>3, <1>4, FS_EmptySet DEF RefCounts, SemCount
<1>6. BeforeFirst
  BY <1>2 DEF BeforeFirst, Init, ToFetch, IdleThread
<1>7. QED
  BY <1>1, <1>5, <1>6 DEF SemInv, SemRefsMatch

LEMMA StepSems == SemInv /\ Next => SemRefsMatch'
<1> SUFFICES ASSUME SemInv, Next PROVE SemRefsMatch'
  OBVIOUS
<1> USE DEF SemInv
<1>1. CASE \E t \in Threads : Thread(t)
  <2> PICK t \in Threads : Thread(t)
    BY <1>1
  <2>1. CASE AddEvent(t)
    <3>1. session' = session
      BY <2>1 DEF AddEvent, envVars
    <3>2. QED
      BY <2>1, <3>1, AddEventCounts DEF SemRefsMatch
  <2>2. CASE Connect(t)
    BY <2>2, ConnectCounts
  <2>3. CASE ~AddEvent(t) /\ ~Connect(t)
    BY <2>3, ThreadSameSems, SameSemsKeeps
  <2>4. QED
    BY <2>1, <2>2, <2>3
<1>2. CASE Scheduler
  BY <1>2, SchedulerSameSems, SameSemsKeeps
<1>3. CASE Reader
  BY <1>3, ReaderSameSems, SameSemsKeeps
<1>4. CASE Peer \/ LinkFails
  BY <1>4, PeerSameSems, SameSemsKeeps
<1>5. QED
  BY <1>1, <1>2, <1>3, <1>4 DEF Next

\* The reference counts of the completion semaphores are right in every
\* reachable state of the first connection, for any number of threads, slots
\* and semaphores: no slot of the ring points at a destroyed semaphore, and no
\* semaphore outlives the last slot that points at it (getCurrentSem, createSem,
\* unrefSem, addNextQueueElemToProc).
THEOREM SemCounts == Spec => []SemRefsMatch
<1>1. Init => SemInv
  BY InitSems
<1>2. SemInv /\ [Next]_vars => SemInv'
  <2> SUFFICES ASSUME SemInv, [Next]_vars PROVE SemInv'
    OBVIOUS
  <2>1. TypeOK'
    BY StepType DEF SemInv
  <2>2. SemRefsMatch' /\ BeforeFirst'
    <3>1. CASE Next
      BY <3>1, StepSems, BeforeFirstKept DEF SemInv
    <3>2. CASE UNCHANGED vars
      <4> USE DEF vars, ringVars, cursors, semVars, envVars
      <4>1. SemRefsMatch'
        BY <3>2, SameSemsKeeps DEF SemInv, SameSems
      <4>2. BeforeFirst'
        BY <3>2 DEF SemInv, BeforeFirst
      <4>3. QED
        BY <4>1, <4>2
    <3>3. QED
      BY <3>1, <3>2
  <2>3. QED
    BY <2>1, <2>2 DEF SemInv
<1>3. SemInv => SemRefsMatch
  BY DEF SemInv
<1>4. QED
  BY <1>1, <1>2, <1>3, PTL DEF Spec

-----------------------------------------------------------------------------
(* What a step of each party does to the slots, in the terms that the        *)
(* invariants below use.                                                     *)

\* The slots keep their events.
SameEvents ==
  \A i \in Slots : /\ lq'[i].id = lq[i].id /\ lq'[i].sem = lq[i].sem
                   /\ lq'[i].type = lq[i].type

SameStates == \A i \in Slots : lq'[i].st = lq[i].st

\* Only slot i changes its state, to st.
Becomes(i, st) ==
  i \in Slots /\ \A j \in Slots : lq'[j].st = IF j = i THEN st ELSE lq[j].st

\* The scheduler handles the local event of slot i.
Handling(i) == sched.pc = "handle" /\ sched.ring = "l" /\ sched.ev = i
Marking(i) == sched.pc = "mark" /\ sched.ev = i

Quiet == UNCHANGED <<lcur, lproc, fresh, rproc, notify, link, resetX>>
Unsent == toPeer' = toPeer
Request(i) == [kind |-> "req", type |-> lq[i].type, id |-> lq[i].id]

\* The scheduler handles a message of the peer, a request or a response.
HandlingRemote(kind) ==
  sched.pc = "handle" /\ sched.ring = "r" /\ rq[sched.ev].kind = kind

\* The steps of the scheduler.
TakesReady ==
  /\ lq' = lq /\ posted' = posted /\ Quiet /\ Unsent /\ fault' = fault
  /\ sched.pc = "fetch" /\ sched'.pc = "handle" /\ sched'.ring = "l"
  /\ sched'.then = sched.then
  /\ sched'.ev \in Slots /\ lq[sched'.ev].st = "READY"
Blocks(i) ==
  /\ Handling(i) /\ Becomes(i, "BLOCKED") /\ lq[i].type # "PING"
  /\ sched' = ToFetch("fetch") /\ posted' = posted /\ Quiet /\ Unsent
  /\ fault' = fault
Pends(i) ==
  /\ Handling(i) /\ Becomes(i, "PENDING")
  /\ sched' = ToFetch("fetch") /\ posted' = posted /\ Quiet
  /\ Send(Request(i)) /\ fault' = fault
ServesFor(i, next) ==
  /\ sched' = [pc |-> "mark", ring |-> "l", ev |-> i, then |-> next]
  /\ \/ next = "fetch" /\ Handling(i) /\ Unsent
     \/ /\ next = "fetch" /\ Handling(i) /\ Send(Request(i))
        /\ lq[i].type # "WRITE" /\ ~lq[i].ack
     \/ /\ next = "fetch" /\ HandlingRemote("resp") /\ Unsent
        /\ lq[i].st = "PENDING" /\ lq[i].id = rq[sched.ev].id
     \/ next = "flush" /\ sched.pc = "flush" /\ lq[i].st = "PENDING" /\ Unsent
Serves(i) ==
  /\ i \in Slots /\ SameStates /\ PostSem(i) /\ Quiet /\ fault' = fault
  /\ \E next \in {"fetch", "flush"} : ServesFor(i, next)
Unblocks ==
  /\ HandlingRemote("req") /\ posted' = posted
  /\ UNCHANGED <<lcur, lproc, fresh, rproc, notify, link>> /\ fault' = fault
  /\ \E m \in Messages : m.kind = "resp" /\ Send(m)
  /\ \/ sched' = ToFetch("fetch") /\ resetX' = resetX
     \/ sched' = ToFetch("join") /\ lq' = lq /\ resetX' = TRUE
  /\ \A i \in Slots : \/ lq'[i].st = lq[i].st
                      \/ lq[i].st = "BLOCKED" /\ lq'[i].st = "READY"
Marks ==
  /\ sched.pc = "mark" /\ sched.ev \in Slots /\ Becomes(sched.ev, "SERVED")
  /\ sched' = ToFetch(sched.then) /\ posted' = posted /\ Quiet /\ Unsent
  /\ fault' = fault
Aborts ==
  /\ HandlingRemote("resp") /\ Answered(rq[sched.ev]) = {}
  /\ lq' = lq /\ posted' = posted /\ Quiet /\ Unsent /\ sched' = sched
  /\ fault' = "noRequest"
Resets ==
  /\ lq' = lq /\ posted' = posted /\ Unsent
  /\ UNCHANGED <<lcur, lproc, fresh, rproc, resetX>> /\ fault' = fault
  /\ \/ /\ sched.pc = "join" /\ sched' = ToFetch("drain") /\ link' = "GONE"
        /\ notify' = notify + 1
     \/ /\ sched.pc = "flush" /\ sched' = ToFetch("dead") /\ link' = link
        /\ notify' = notify

\* A slot of the ring is changed in other fields than those of the event.
LEMMA ChangeOne ==
  ASSUME NEW q \in [Slots -> Slot], NEW i \in Slots, NEW e,
         e.id = q[i].id, e.sem = q[i].sem, e.type = q[i].type
  PROVE  LET r == [q EXCEPT ![i] = e]
         IN  \A j \in Slots :
               /\ r[j].id = q[j].id /\ r[j].sem = q[j].sem /\ r[j].type = q[j].type
               /\ r[j].st = IF j = i THEN e.st ELSE q[j].st
OBVIOUS

LEMMA UnblockKeeps ==
  ASSUME NEW q \in [Slots -> Slot], NEW ty, NEW j \in Slots
  PROVE  LET r == Unblock(q, ty)
         IN  /\ r[j].id = q[j].id /\ r[j].sem = q[j].sem /\ r[j].type = q[j].type
             /\ \/ r[j].st = q[j].st
                \/ q[j].st = "BLOCKED" /\ r[j].st = "READY"
<1> DEFINE hits == {i \in Slots : q[i].st = "BLOCKED" /\ q[i].type = ty}
<1>1. CASE hits = {}
  BY <1>1 DEF Unblock
<1>2. CASE hits # {}
  <2>1. SetMin(hits) \in hits
    BY <1>2, SetMinIsLeast, NoneOutside
  <2>2. Unblock(q, ty) = [q EXCEPT ![SetMin(hits)].st = "READY"]
    BY <1>2 DEF Unblock
  <2>3. PICK i \in Slots : i = SetMin(hits) /\ q[i].st = "BLOCKED"
    BY <2>1
  <2> HIDE DEF hits
  <2>4. q[j] \in Slot
    OBVIOUS
  <2>5. Unblock(q, ty)[j] = IF j = i THEN [q[j] EXCEPT !.st = "READY"] ELSE q[j]
    BY <2>2, <2>3
  <2>6. QED
    BY <2>3, <2>4, <2>5 DEF Slot
<1>3. QED
  BY <1>1, <1>2

\* Every step of the scheduler is one of these, or the fetch of an event.
LEMMA SchedulerMoves ==
  ASSUME TypeOK, Scheduler
  PROVE  /\ SameEvents /\ UNCHANGED <<lapped, rcur, session, thr, reader>>
         /\ UNCHANGED <<refs, owner, addSem, nextId, readPrev, rq, fromPeer>>
         /\ \/ \E from \in {"fetch", "drain"} : FetchNext(from)
            \/ \E i \in Slots : Blocks(i) \/ Pends(i) \/ Serves(i)
            \/ TakesReady \/ Unblocks \/ Marks \/ Aborts \/ Resets
<1> USE DEF TypeOK, RingsOK, SchedOK
<1> DEFINE Rest == /\ UNCHANGED <<lapped, rcur, session, thr, reader>>
                   /\ UNCHANGED <<refs, owner, addSem, nextId, readPrev>>
                   /\ UNCHANGED <<rq, fromPeer>>
<1>1. CASE FetchReady
  <2>1. sched'.ev \in Slots /\ lq[sched'.ev].st = "READY"
    BY <1>1, NextWithStateFinds, NoneOutside DEF FetchReady, NoReady
  <2>2. QED
    BY <1>1, <2>1 DEF FetchReady, TakesReady, SameEvents, Quiet, Unsent,
       ringVars, cursors, remoteVars, semVars, envVars, wireVars
<1>2. CASE \E from \in {"fetch", "drain"} : FetchNext(from)
  BY <1>2 DEF FetchNext, TakeLocal, TakeRemote, TakeNone, SameEvents, ringVars,
     cursors, remoteVars, semVars, envVars, wireVars
<1>3. CASE HandleServe
  <2>1. sched.ev \in Slots /\ Handling(sched.ev)
    BY <1>3 DEF HandleServe, HandlingLocal, Handling
  <2>2. lq' = [lq EXCEPT ![sched.ev] =
                 [@ EXCEPT !.ack = TRUE, !.block = FALSE]]
    BY <1>3, <2>1 DEF HandleServe
  <2>3. SameEvents /\ SameStates
    <3> DEFINE e == [lq[sched.ev] EXCEPT !.ack = TRUE, !.block = FALSE]
    <3>1. e.id = lq[sched.ev].id /\ e.sem = lq[sched.ev].sem
          /\ e.type = lq[sched.ev].type /\ e.st = lq[sched.ev].st
      BY <2>1 DEF Slot
    <3>2. lq' = [lq EXCEPT ![sched.ev] = e]
      BY <2>2
    <3> HIDE DEF e
    <3>3. QED
      BY <2>1, <3>1, <3>2, ChangeOne DEF SameEvents, SameStates
  <2>4. /\ Rest /\ Quiet /\ fault' = fault /\ Unsent
        /\ StartServe(sched.ev, "fetch")
    BY <1>3 DEF HandleServe, Quiet, Unsent, cursors, remoteVars, envVars,
       wireVars
  <2>5. QED
    BY <2>1, <2>3, <2>4 DEF StartServe, Serves, ServesFor
<1>4. CASE HandleRefuse
  <2>1. sched.ev \in Slots /\ Handling(sched.ev) /\ lq[sched.ev].type # "PING"
    BY <1>4 DEF HandleRefuse, HandlingLocal, Handling, Outcomes
  <2>2. Rest /\ Quiet /\ Unsent /\ fault' = fault
    BY <1>4 DEF HandleRefuse, Quiet, Unsent, cursors, remoteVars, envVars,
       wireVars
  <2> DEFINE e == [lq[sched.ev] EXCEPT !.ack = FALSE, !.st = "BLOCKED"]
             f == [lq[sched.ev] EXCEPT !.ack = FALSE]
  <2>3. /\ e.id = lq[sched.ev].id /\ e.sem = lq[sched.ev].sem
        /\ e.type = lq[sched.ev].type /\ e.st = "BLOCKED"
        /\ f.id = lq[sched.ev].id /\ f.sem = lq[sched.ev].sem
        /\ f.type = lq[sched.ev].type /\ f.st = lq[sched.ev].st
    BY <2>1 DEF Slot
  <2>4. \/ /\ lq' = [lq EXCEPT ![sched.ev] = e] /\ sched' = ToFetch("fetch")
           /\ posted' = posted
        \/ /\ lq' = [lq EXCEPT ![sched.ev] = f] /\ StartServe(sched.ev, "fetch")
    BY <1>4 DEF HandleRefuse
  <2> HIDE DEF e, f
  <2>5. CASE /\ lq' = [lq EXCEPT ![sched.ev] = e] /\ sched' = ToFetch("fetch")
             /\ posted' = posted
    BY <2>1, <2>2, <2>3, <2>5, ChangeOne DEF SameEvents, Becomes, Blocks
  <2>6. CASE lq' = [lq EXCEPT ![sched.ev] = f] /\ StartServe(sched.ev, "fetch")
    BY <2>1, <2>2, <2>3, <2>6, ChangeOne
    DEF SameEvents, SameStates, StartServe, Serves, ServesFor
  <2>7. QED
    BY <2>4, <2>5, <2>6
<1>5. CASE HandleBlock
  <2>1. sched.ev \in Slots /\ Handling(sched.ev) /\ lq[sched.ev].type # "PING"
    BY <1>5 DEF HandleBlock, HandlingLocal, Handling, Outcomes
  <2>2. Rest /\ Quiet /\ Unsent /\ fault' = fault
    BY <1>5 DEF HandleBlock, Quiet, Unsent, cursors, remoteVars, semVars,
       envVars, wireVars
  <2> DEFINE e == [lq[sched.ev] EXCEPT !.st = "BLOCKED", !.block = TRUE]
  <2>3. /\ e.id = lq[sched.ev].id /\ e.sem = lq[sched.ev].sem
        /\ e.type = lq[sched.ev].type /\ e.st = "BLOCKED"
    BY <2>1 DEF Slot
  <2>4. /\ lq' = [lq EXCEPT ![sched.ev] = e] /\ sched' = ToFetch("fetch")
        /\ posted' = posted
    BY <1>5, <2>1 DEF HandleBlock, semVars
  <2> HIDE DEF e
  <2>5. QED
    BY <2>1, <2>2, <2>3, <2>4, ChangeOne DEF SameEvents, Becomes, Blocks
<1>6. CASE HandleSend
  <2>1. sched.ev \in Slots /\ Handling(sched.ev)
    BY <1>6 DEF HandleSend, HandlingLocal, Handling
  <2>2. Rest /\ Quiet /\ Send(Request(sched.ev)) /\ fault' = fault
    BY <1>6 DEF HandleSend, Request, Quiet, cursors, remoteVars, envVars
  <2> DEFINE e == [lq[sched.ev] EXCEPT !.st = "PENDING", !.ack = TRUE,
                                       !.block = FALSE]
             f == [lq[sched.ev] EXCEPT !.block = FALSE]
  <2>3. /\ e.id = lq[sched.ev].id /\ e.sem = lq[sched.ev].sem
        /\ e.type = lq[sched.ev].type /\ e.st = "PENDING"
        /\ f.id = lq[sched.ev].id /\ f.sem = lq[sched.ev].sem
        /\ f.type = lq[sched.ev].type /\ f.st = lq[sched.ev].st
    BY <2>1 DEF Slot
  <2>4. \/ /\ lq' = [lq EXCEPT ![sched.ev] = e] /\ sched' = ToFetch("fetch")
           /\ posted' = posted
        \/ /\ lq' = [lq EXCEPT ![sched.ev] = f] /\ StartServe(sched.ev, "fetch")
           /\ lq[sched.ev].type # "WRITE" /\ ~lq[sched.ev].ack
    BY <1>6 DEF HandleSend
  <2> HIDE DEF e, f
  <2>5. CASE /\ lq' = [lq EXCEPT ![sched.ev] = e] /\ sched' = ToFetch("fetch")
             /\ posted' = posted
    BY <2>1, <2>2, <2>3, <2>5, ChangeOne DEF SameEvents, Becomes, Pends
  <2>6. CASE /\ lq' = [lq EXCEPT ![sched.ev] = f] /\ StartServe(sched.ev, "fetch")
             /\ lq[sched.ev].type # "WRITE" /\ ~lq[sched.ev].ack
    BY <2>1, <2>2, <2>3, <2>6, ChangeOne
    DEF SameEvents, SameStates, StartServe, Serves, ServesFor
  <2>7. QED
    BY <2>4, <2>5, <2>6
<1>7. CASE HandleRemoteRequest
  <2>1. /\ Rest /\ UNCHANGED <<lcur, lproc, fresh, rproc, notify, link>>
        /\ posted' = posted /\ fault' = fault
        /\ HandlingRemote("req")
    BY <1>7 DEF HandleRemoteRequest, HandlingRemote, cursors, remoteVars,
       semVars, envVars
  <2>2. Unblock(lq, "WRITE") \in [Slots -> Slot]
    BY UnblockType
  <2>3. lq' \in {lq, Unblock(lq, "READ"), Unblock(lq, "WRITE"),
                 Unblock(Unblock(lq, "WRITE"), "CLOSE")}
    BY <1>7 DEF HandleRemoteRequest
  <2>4. \A i \in Slots :
          /\ lq'[i].id = lq[i].id /\ lq'[i].sem = lq[i].sem
          /\ lq'[i].type = lq[i].type
          /\ \/ lq'[i].st = lq[i].st
             \/ lq[i].st = "BLOCKED" /\ lq'[i].st = "READY"
    <3> SUFFICES ASSUME NEW i \in Slots
                 PROVE  /\ lq'[i].id = lq[i].id /\ lq'[i].sem = lq[i].sem
                        /\ lq'[i].type = lq[i].type
                        /\ \/ lq'[i].st = lq[i].st
                           \/ lq[i].st = "BLOCKED" /\ lq'[i].st = "READY"
      OBVIOUS
    <3> DEFINE w == Unblock(lq, "WRITE")
    <3>1. /\ w[i].id = lq[i].id /\ w[i].sem = lq[i].sem /\ w[i].type = lq[i].type
          /\ \/ w[i].st = lq[i].st
             \/ lq[i].st = "BLOCKED" /\ w[i].st = "READY"
      BY UnblockKeeps
    <3>2. CASE lq' = lq
      BY <3>2
    <3>3. CASE lq' = Unblock(lq, "READ") \/ lq' = w
      BY <3>3, UnblockKeeps
    <3> HIDE DEF w
    <3>4. CASE lq' = Unblock(w, "CLOSE")
      BY <2>2, <3>1, <3>4, UnblockKeeps DEF w
    <3>5. QED
      BY <2>3, <3>2, <3>3, <3>4 DEF w
  <2>5. \/ sched' = ToFetch("fetch") /\ resetX' = resetX
        \/ sched' = ToFetch("join") /\ lq' = lq /\ resetX' = TRUE
    BY <1>7 DEF HandleRemoteRequest, SemsOK
  <2>6. \E m \in Messages : m.kind = "resp" /\ Send(m)
    <3>1. rq[sched.ev] \in Messages
      BY <1>7 DEF HandleRemoteRequest
    <3>2. /\ [rq[sched.ev] EXCEPT !.kind = "resp"] \in Messages
          /\ [rq[sched.ev] EXCEPT !.kind = "resp"].kind = "resp"
      BY <3>1 DEF Messages
    <3>3. QED
      BY <1>7, <3>2 DEF HandleRemoteRequest
  <2>7. QED
    BY <2>1, <2>4, <2>5, <2>6 DEF SameEvents, Unblocks
<1>8. CASE HandleResponse
  <2> DEFINE m == rq[sched.ev]
  <2>1. /\ Rest /\ Quiet /\ Unsent /\ lq' = lq /\ HandlingRemote("resp")
        /\ IF Answered(m) # {}
           THEN StartServe(SetMin(Answered(m)), "fetch") /\ fault' = fault
           ELSE fault' = "noRequest" /\ posted' = posted /\ sched' = sched
    BY <1>8 DEF HandleResponse, HandlingRemote, Quiet, Unsent, ringVars,
       cursors, remoteVars, envVars, wireVars
  <2>2. SameEvents /\ SameStates
    BY <2>1 DEF SameEvents, SameStates
  <2>3. CASE Answered(m) # {}
    <3>1. SetMin(Answered(m)) \in Answered(m)
      BY <2>3, SetMinIsLeast, NoneOutside DEF Answered
    <3>2. QED
      BY <2>1, <2>2, <2>3, <3>1 DEF Answered, StartServe, Serves, ServesFor
  <2>4. CASE Answered(m) = {}
    BY <2>1, <2>2, <2>4 DEF Aborts
  <2>5. QED
    BY <2>3, <2>4
<1>9. CASE FinishServe
  <2>1. Rest /\ Quiet /\ Unsent /\ fault' = fault /\ sched.ev \in Slots
    BY <1>9 DEF FinishServe, Quiet, Unsent, cursors, remoteVars, semVars,
       envVars, wireVars
  <2> DEFINE e == [lq[sched.ev] EXCEPT !.st = "SERVED"]
  <2>2. /\ e.id = lq[sched.ev].id /\ e.sem = lq[sched.ev].sem
        /\ e.type = lq[sched.ev].type /\ e.st = "SERVED"
    BY <2>1 DEF Slot
  <2>3. lq' = [lq EXCEPT ![sched.ev] = e]
    BY <1>9 DEF FinishServe
  <2> HIDE DEF e
  <2>4. QED
    BY <1>9, <2>1, <2>2, <2>3, ChangeOne
    DEF SameEvents, Becomes, Marks, FinishServe, semVars
<1>10. CASE StartReset
  BY <1>10 DEF StartReset, Resets, Unsent, SameEvents, ringVars, cursors,
     remoteVars, semVars, wireVars
<1>11. CASE FlushPending
  <2>1. NextWithState(lq, 0, "PENDING") \in Slots
        /\ lq[NextWithState(lq, 0, "PENDING")].st = "PENDING"
    BY <1>11, NextWithStateFinds, NoneOutside DEF FlushPending
  <2>2. QED
    BY <1>11, <2>1 DEF FlushPending, StartServe, Serves, ServesFor, SameEvents,
       SameStates, Quiet, Unsent, ringVars, cursors, remoteVars, envVars, wireVars
<1>12. CASE FinishReset
  BY <1>12 DEF FinishReset, Resets, Unsent, SameEvents, ringVars, cursors,
     remoteVars, semVars, wireVars
<1>13. QED
  BY <1>1, <1>2, <1>3, <1>4, <1>5, <1>6, <1>7, <1>8, <1>9, <1>10, <1>11, <1>12
  DEF Scheduler

\* dispatcherGetNextEvent: a local event, a remote one or none.
Fetched(from, r, i) ==
  \/ from = "drain" /\ sched' = sched
  \/ /\ from = "fetch" /\ sched'.pc = "handle" /\ sched'.ring = r
     /\ sched'.ev = i /\ sched'.then = sched.then
TakesLocal(from) ==
  /\ lcur # lproc /\ UNCHANGED rproc
  /\ \E i \in Slots : /\ i = NextWithState(lq, lproc, "SERVED")
                      /\ lq[i].st = "SERVED" /\ lproc' = Inc(i)
                      /\ fresh' = fresh \ {i} /\ Fetched(from, "l", i)
TakesRemote(from) ==
  /\ lcur = lproc /\ rcur # rproc /\ rproc' = Inc(rproc)
  /\ UNCHANGED <<lproc, fresh>> /\ Fetched(from, "r", rproc)
TakesNone(from) ==
  /\ lcur = lproc /\ rcur = rproc /\ UNCHANGED <<lproc, fresh, rproc>>
  /\ \/ from = "drain" /\ sched' = ToFetch("flush")
     \/ from = "fetch" /\ sched' = sched

LEMMA FetchMoves ==
  ASSUME TypeOK, NEW from \in {"fetch", "drain"}, FetchNext(from)
  PROVE  /\ UNCHANGED <<lq, lcur, lapped, rq, rcur, posted, thr, reader, fault>>
         /\ UNCHANGED <<refs, owner, addSem, nextId, resetX, session, link>>
         /\ UNCHANGED <<toPeer, fromPeer, readPrev, wire>>
         /\ NoReady /\ sched.pc = from /\ notify > 0 /\ notify' = notify - 1
         /\ TakesLocal(from) \/ TakesRemote(from) \/ TakesNone(from)
<1> DEFINE Into(r, i) == sched' = IF from = "drain" THEN sched
                                  ELSE [sched EXCEPT !.pc = "handle",
                                                     !.ring = r, !.ev = i]
           i == NextWithState(lq, lproc, "SERVED")
<1>1. ASSUME NEW r \in {"l", "r"}, NEW j \in Slots, Into(r, j)
      PROVE  Fetched(from, r, j)
  BY <1>1 DEF TypeOK, SchedOK, Fetched
<1>2. /\ UNCHANGED <<lq, lcur, lapped, rq, rcur, posted, thr, reader, fault>>
      /\ UNCHANGED <<refs, owner, addSem, nextId, resetX, session, link>>
      /\ UNCHANGED <<toPeer, fromPeer, readPrev, wire>>
      /\ NoReady /\ sched.pc = from /\ notify > 0 /\ notify' = notify - 1
  BY DEF FetchNext, TakeLocal, TakeRemote, TakeNone, ringVars, cursors,
     remoteVars, semVars, envVars, wireVars
<1>3. CASE TakeLocal /\ Into("l", i)
  <2>1. i \in Slots /\ lq[i].st = "SERVED"
    BY <1>3, NextWithStateFinds, NoneOutside DEF TakeLocal, TypeOK, RingsOK
  <2>2. Fetched(from, "l", i)
    BY <1>1, <1>3, <2>1
  <2>3. QED
    BY <1>2, <1>3, <2>1, <2>2 DEF TakeLocal, TakesLocal, remoteVars
<1>4. CASE TakeRemote /\ Into("r", rproc)
  <2>1. Fetched(from, "r", rproc)
    BY <1>1, <1>4 DEF TypeOK, RingsOK
  <2>2. QED
    BY <1>2, <1>4, <2>1 DEF TakeRemote, TakesRemote, ringVars, cursors
<1>5. CASE TakeNone /\ sched' = IF from = "drain" THEN ToFetch("flush")
                                ELSE sched
  BY <1>2, <1>5 DEF TakeNone, TakesNone, ringVars, cursors, remoteVars
<1>6. QED
  BY <1>3, <1>4, <1>5 DEF FetchNext

\* The steps of the reader.
Listens ==
  /\ lq' = lq /\ posted' = posted /\ reader.pc # "mark" /\ reader'.pc # "mark"
  /\ \/ link' = link
     \/ PC /\ reader.pc = "failed" /\ link = "UP" /\ link' = "DOWN"
GivesUp(i) ==
  /\ PC /\ reader.pc = "failed" /\ i \in Slots /\ lq[i].st = "BLOCKED"
  /\ SameStates /\ PostSem(i) /\ reader' = [pc |-> "mark", ev |-> i]
  /\ link' = IF link = "UP" THEN "DOWN" ELSE link
ReaderMarks ==
  /\ reader.pc = "mark" /\ reader.ev \in Slots
  /\ Becomes(reader.ev, "SERVED") /\ reader'.pc = "exited"
  /\ posted' = posted /\ link' = link

LEMMA ReaderMoves ==
  ASSUME TypeOK, Reader
  PROVE  /\ SameEvents /\ UNCHANGED <<lcur, lproc, fresh, rproc, session, thr>>
         /\ UNCHANGED <<refs, owner, addSem, nextId, resetX, sched>>
         /\ lapped => lapped'
         /\ Listens \/ (\E i \in Slots : GivesUp(i)) \/ ReaderMarks
<1> USE DEF TypeOK, RingsOK, ReaderOK, SameEvents, ringVars, cursors, remoteVars,
            semVars, envVars, wireVars
<1>1. CASE Receive
  BY <1>1 DEF Receive, Listens
<1>2. CASE ReaderPost \/ ReaderNext \/ ReceiveFails
  BY <1>2 DEF ReaderPost, ReaderNext, ReceiveFails, Listens
<1>3. CASE ReaderGivesUp
  <2> DEFINE i == IF PC THEN NextWithState(lq, lcur, "BLOCKED") ELSE None
  <2>1. i = None \/ (PC /\ i \in Slots /\ lq[i].st = "BLOCKED")
    BY NextWithStateFinds, DispatcherAssumption DEF DispatcherAssumption
  <2>2. /\ UNCHANGED <<lcur, lproc, fresh, lapped, rproc, session, thr>>
        /\ UNCHANGED <<refs, owner, addSem, nextId, resetX, sched>>
        /\ reader.pc = "failed"
        /\ link' = IF PC /\ link = "UP" THEN "DOWN" ELSE link
        /\ IF i = None
           THEN reader' = [pc |-> "exited", ev |-> None] /\ lq' = lq
                /\ posted' = posted
           ELSE /\ reader' = [pc |-> "mark", ev |-> i]
                /\ lq' = [lq EXCEPT ![i].ack = FALSE]
                /\ PostSem(i)
    BY <1>3 DEF ReaderGivesUp
  <2> HIDE DEF i
  <2>3. CASE i = None
    BY <2>2, <2>3 DEF Listens
  <2>4. CASE i # None
    <3> DEFINE e == [lq[i] EXCEPT !.ack = FALSE]
    <3>1. /\ e.id = lq[i].id /\ e.sem = lq[i].sem /\ e.type = lq[i].type
          /\ e.st = lq[i].st
      BY <2>1, <2>4 DEF Slot
    <3>2. lq' = [lq EXCEPT ![i] = e]
      BY <2>2, <2>4
    <3> HIDE DEF e
    <3>3. SameEvents /\ SameStates
      BY <2>1, <2>4, <3>1, <3>2, ChangeOne DEF SameStates
    <3>4. QED
      BY <2>1, <2>2, <2>4, <3>3 DEF GivesUp
  <2>5. QED
    BY <2>3, <2>4
<1>4. CASE ReaderMark
  <2> DEFINE e == [lq[reader.ev] EXCEPT !.st = "SERVED"]
  <2>1. /\ e.id = lq[reader.ev].id /\ e.sem = lq[reader.ev].sem
        /\ e.type = lq[reader.ev].type /\ e.st = "SERVED" /\ reader.ev \in Slots
    BY <1>4 DEF ReaderMark, Slot
  <2>2. lq' = [lq EXCEPT ![reader.ev] = e]
    BY <1>4 DEF ReaderMark
  <2> HIDE DEF e
  <2>3. QED
    BY <1>4, <2>1, <2>2, ChangeOne DEF ReaderMark, Becomes, ReaderMarks
<1>5. QED
  BY <1>1, <1>2, <1>3, <1>4 DEF Reader

\* The steps of a thread other than AddEvent and Connect leave the rings and
\* the scheduler alone.
LEMMA ThreadMoves ==
  ASSUME NEW t \in Threads, Thread(t), ~AddEvent(t), ~Connect(t)
  PROVE  /\ UNCHANGED <<ringVars, remoteVars, sched, reader, session>>
         /\ UNCHANGED <<refs, owner, semaphores, resetX, toPeer, fromPeer>>
<1> USE DEF semVars, envVars, wireVars
<1>1. CASE \E ty \in LocalTypes : Call(t, ty)
  BY <1>1 DEF Call
<1>2. CASE CallNoLink(t) \/ AddNoSem(t)
  BY <1>2 DEF CallNoLink, AddNoSem
<1>3. CASE Post(t) \/ Lookup(t) \/ Wait(t)
  BY <1>3 DEF Post, Lookup, Wait
<1>4. CASE Return(t) \/ Disconnect(t)
  BY <1>4 DEF Return, Disconnect
<1>5. QED
  BY <1>1, <1>2, <1>3, <1>4 DEF Thread

LEMMA PeerMoves ==
  ASSUME Peer \/ LinkFails
  PROVE  /\ UNCHANGED <<ringVars, remoteVars, sched, reader, session, thr>>
         /\ UNCHANGED <<semVars, resetX, addSem, notify, nextId, link, fault>>
         /\ UNCHANGED readPrev
<1> USE DEF semVars, envVars, wireVars
<1>1. CASE PeerAnswer
  BY <1>1 DEF PeerAnswer
<1>2. CASE \E ty \in RemoteTypes : PeerRequest(ty)
  BY <1>2 DEF PeerRequest
<1>3. CASE LinkFails
  BY <1>3 DEF LinkFails
<1>4. QED
  BY <1>1, <1>2, <1>3 DEF Peer

-----------------------------------------------------------------------------
(* The drain of dispatcherReset meets no ready event.                        *)

\* A request of the peer is fetched only when no event is ready, and the one
\* that makes an event ready, a write or a release, is not the one that ends
\* the loop. A completion goes back to the loop or to the flush.
DrainInv ==
  /\ DrainFindsNoReady
  /\ sched.pc = "handle" /\ sched.ring = "r" => NoReady
  /\ sched.pc = "mark" => sched.then \in {"fetch", "flush"}

LEMMA DrainStep == TypeOK /\ DrainInv /\ [Next]_vars => DrainInv'
<1> SUFFICES ASSUME TypeOK, DrainInv, [Next]_vars PROVE DrainInv'
  OBVIOUS
<1> USE DEF DrainInv, DrainFindsNoReady, NoReady
<1>a. ASSUME sched' = sched, \A i \in Slots : lq'[i].st = "READY" => lq[i].st =
          "READY"
      PROVE  DrainInv'
  BY <1>a
<1>1. CASE \E t \in Threads : Thread(t)
  <2> PICK t \in Threads : Thread(t)
    BY <1>1
  <2>1. CASE AddEvent(t)
    <3> DEFINE i == NextWithState(lq, lcur, "SERVED")
               e == [lq[i] EXCEPT !.sem = SemFor(t), !.id = nextId + 1,
                       !.type = IF thr[t].type = "CONNECT" THEN "PING"
                                ELSE thr[t].type,
                       !.ack = TRUE, !.block = FALSE]
    <3>1. i \in Slots /\ lq' = [lq EXCEPT ![i] = e] /\ sched' = sched
      BY <2>1, NextWithStateFinds, NoneOutside DEF AddEvent, TypeOK, RingsOK
    <3>2. lq \in [Slots -> Slot]
      BY DEF TypeOK, RingsOK
    <3>3. e.st = lq[i].st
      BY <3>1, <3>2 DEF Slot
    <3> HIDE DEF i, e
    <3>4. \A j \in Slots : lq'[j].st = lq[j].st
      BY <3>1, <3>2, <3>3
    <3>5. QED
      BY <1>a, <3>1, <3>4
  <2>2. CASE Connect(t)
    BY <2>2 DEF Connect
  <2>3. CASE ~AddEvent(t) /\ ~Connect(t)
    BY <2>3, ThreadMoves, <1>a DEF ringVars
  <2>4. QED
    BY <2>1, <2>2, <2>3
<1>2. CASE Scheduler
  <2>1. CASE \E from \in {"fetch", "drain"} : FetchNext(from)
    BY <2>1, FetchMoves DEF TakesLocal, TakesRemote, TakesNone, Fetched, ToFetch
  <2>2. CASE \E i \in Slots : Blocks(i) \/ Pends(i) \/ Serves(i)
    BY <2>2 DEF Blocks, Pends, Serves, ServesFor, Becomes, SameStates, ToFetch
  <2>3. CASE TakesReady \/ Aborts \/ Resets
    BY <2>3 DEF TakesReady, Aborts, HandlingRemote, Resets, ToFetch
  <2>4. CASE Unblocks \/ Marks
    BY <2>4 DEF Unblocks, HandlingRemote, Marks, Becomes, ToFetch
  <2>5. QED
    BY <1>2, <2>1, <2>2, <2>3, <2>4, SchedulerMoves
<1>3. CASE Reader
  BY <1>3, <1>a, ReaderMoves
  DEF Listens, GivesUp, ReaderMarks, SameStates, Becomes
<1>4. CASE Peer \/ LinkFails
  BY <1>4, <1>a, PeerMoves DEF ringVars
<1>5. CASE UNCHANGED vars
  BY <1>5, <1>a DEF vars, ringVars
<1>6. QED
  BY <1>1, <1>2, <1>3, <1>4, <1>5 DEF Next

\* When the scheduler leaves its loop because the peer asked for a reset, no
\* event is ready any more: the drain of dispatcherReset, which would be given
\* a ready event again and again, ends.
THEOREM DrainEnds == Spec => []DrainFindsNoReady
<1>1. Init => DrainInv
  BY DEF Init, DrainInv, DrainFindsNoReady, ToFetch, NoReady, NewSlot
<1>2. DrainInv => DrainFindsNoReady
  BY DEF DrainInv
<1>3. QED
  BY <1>1, <1>2, TypeCorrect, DrainStep, PTL DEF Spec

-----------------------------------------------------------------------------
(* The local ring, as long as no event is put where there is no room.        *)

\* The distance of slot a from slot p in the order of the ring.
LEMMA Distance ==
  ASSUME NEW p \in Slots
  PROVE  /\ \A a \in Slots : /\ Waiting(a, p) \in 0 .. MaxEvents - 1
                             /\ Waiting(a, p) = 0 <=> a = p
         /\ \A a, b \in Slots : Waiting(a, p) = Waiting(b, p) => a = b
         /\ \A a \in Slots : Inc(a) # p => Waiting(Inc(a), p) = Waiting(a, p) + 1
         /\ \A a \in Slots : a # p => Waiting(a, Inc(p)) = Waiting(a, p) - 1
         /\ Waiting(p, Inc(p)) = MaxEvents - 1
<1> USE DispatcherAssumption DEF DispatcherAssumption, Slots, Waiting, Inc
<1>1. \A a \in Slots : /\ Waiting(a, p) \in 0 .. MaxEvents - 1
                       /\ Waiting(a, p) = 0 <=> a = p
  OBVIOUS
<1>2. \A a, b \in Slots : Waiting(a, p) = Waiting(b, p) => a = b
  OBVIOUS
<1>3. \A a \in Slots : Inc(a) # p => Waiting(Inc(a), p) = Waiting(a, p) + 1
  OBVIOUS
<1>4. \A a \in Slots : a # p => Waiting(a, Inc(p)) = Waiting(a, p) - 1
  OBVIOUS
<1>5. Waiting(p, Inc(p)) = MaxEvents - 1
  OBVIOUS
<1>6. QED
  BY <1>1, <1>2, <1>3, <1>4, <1>5

\* getNextElementWithState stops where it starts if that slot will do.
LEMMA NextIsHere ==
  ASSUME NEW q, NEW i \in Slots
  PROVE  NextWithState(q, i, q[i].st) = i
<1> DEFINE hits == {j \in Slots : q[j].st = q[i].st}
           after == {j \in hits : j >= i}
<1>1. i \in after /\ after \subseteq Nat
  BY DispatcherAssumption DEF DispatcherAssumption, Slots
<1>2. NextWithState(q, i, q[i].st) = SetMin(after)
  BY <1>1 DEF NextWithState
<1>3. SetMin(after) \in after /\ SetMin(after) <= i
  BY <1>1, SetMinIsLeast
<1>4. SetMin(after) >= i /\ SetMin(after) \in Nat /\ i \in Nat
  BY <1>1, <1>3
<1> HIDE DEF after
<1>5. QED
  BY <1>2, <1>3, <1>4

\* What the add of an event changes, and where it goes when there is room.
LEMMA AddMoves ==
  ASSUME TypeOK, NEW t \in Threads, AddEvent(t)
  PROVE  \E i \in Slots :
           /\ lq[i].st = "SERVED"
           /\ \A j \in Slots : j # i => lq'[j] = lq[j]
           /\ lq'[i].st = "SERVED" /\ lq'[i].id = nextId + 1 /\ lq'[i].ack
           /\ lq'[i].sem = SemFor(t) /\ SemFor(t) \in Sems
           /\ lq'[i].type = IF thr[t].type = "CONNECT" THEN "PING"
                            ELSE thr[t].type
           /\ lcur' = Inc(i) /\ fresh' = fresh \cup {i} /\ nextId' = nextId + 1
           /\ owner' = [owner EXCEPT ![SemFor(t)] = t]
           /\ thr' = [thr EXCEPT ![t].pc = "post", ![t].ev = i,
                                 ![t].id = nextId + 1]
           /\ thr[t].pc = "lock" /\ addSem = 1 /\ fault = "none"
           /\ UNCHANGED <<lproc, rq, rcur, rproc, addSem, notify, resetX, sched>>
           /\ UNCHANGED <<reader, readPrev, toPeer, fromPeer, nRemote, wire>>
           /\ UNCHANGED <<link, session, fault>>
           /\ lapped => lapped'
           /\ ~lapped' => i = lcur /\ ~InUse(i) /\ Inc(i) # lproc
<1> DEFINE i == NextWithState(lq, lcur, "SERVED")
           e == [lq[i] EXCEPT !.sem = SemFor(t), !.id = nextId + 1,
                   !.type = IF thr[t].type = "CONNECT" THEN "PING"
                            ELSE thr[t].type,
                   !.ack = TRUE, !.block = FALSE]
<1>1. i \in Slots /\ lq[i].st = "SERVED"
  BY NextWithStateFinds, NoneOutside DEF AddEvent, TypeOK, RingsOK
<1>2. lq' = [lq EXCEPT ![i] = e]
  BY DEF AddEvent
<1>3. lq \in [Slots -> Slot]
  BY DEF TypeOK, RingsOK
<1>4. e.st = "SERVED" /\ e.id = nextId + 1 /\ e.sem = SemFor(t) /\ e.ack
      /\ e.type = IF thr[t].type = "CONNECT" THEN "PING" ELSE thr[t].type
  BY <1>1, <1>3 DEF Slot
<1>5. lapped' = (lapped \/ InUse(lcur) \/ Inc(lcur) = lproc)
  BY DEF AddEvent
<1>6. ~InUse(lcur) => i = lcur
  BY NextIsHere DEF InUse, TypeOK, RingsOK
<1>7. SemFor(t) \in Sems
  BY SemForType DEF AddEvent
<1>8. /\ lcur' = Inc(i) /\ fresh' = fresh \cup {i} /\ nextId' = nextId + 1
      /\ owner' = [owner EXCEPT ![SemFor(t)] = t]
      /\ thr' = [thr EXCEPT ![t].pc = "post", ![t].ev = i, ![t].id = nextId + 1]
      /\ thr[t].pc = "lock" /\ addSem = 1 /\ fault = "none"
      /\ UNCHANGED <<lproc, rq, rcur, rproc, addSem, notify, resetX, sched>>
      /\ UNCHANGED <<reader, readPrev, toPeer, fromPeer, nRemote, wire>>
      /\ UNCHANGED <<link, session, fault>>
  BY DEF AddEvent, remoteVars, wireVars, envVars
<1> HIDE DEF i, e
<1>9. \A j \in Slots : lq'[j] = IF j = i THEN e ELSE lq[j]
  BY <1>1, <1>2, <1>3
<1>10. QED
  BY <1>1, <1>4, <1>5, <1>6, <1>7, <1>8, <1>9

\* What the first connection finds and what it leaves.
LEMMA ConnectMoves ==
  ASSUME TypeOK, BeforeFirst, NEW t \in Threads, Connect(t), session' <= 1
  PROVE  /\ session = 0 /\ link = "NONE" /\ sched.pc = "dead" /\ PC
         /\ \A i \in Slots : /\ lq'[i].id = lq[i].id /\ lq'[i].type = lq[i].type
                             /\ lq'[i].sem = None /\ lq'[i].st = "SERVED"
         /\ lcur' = 0 /\ lproc' = 0 /\ fresh' = {} /\ rcur' = 0 /\ rproc' = 0
         /\ \A u \in Threads : thr[u].pc = "idle"
         /\ thr' = [thr EXCEPT ![t] = [IdleThread EXCEPT !.pc = "lock",
                                                         !.type = "CONNECT"]]
         /\ sched' = ToFetch("fetch") /\ reader' = [pc |-> "read", ev |-> None]
         /\ resetX' = FALSE /\ addSem' = 1 /\ notify' = 0
         /\ refs' = [s \in Sems |-> -1] /\ toPeer' = <<>> /\ fromPeer' = <<>>
         /\ UNCHANGED <<lapped, rq, owner, posted, nextId, link, fault>>
         /\ session' = 1
<1>1. session = 0 /\ PC /\ session' = 1
  BY DEF Connect, TypeOK, WireOK
<1>2. \A i \in Slots : lq[i] \in Slot
  BY DEF TypeOK, RingsOK
<1>3. \A i \in Slots : /\ lq'[i].id = lq[i].id /\ lq'[i].type = lq[i].type
                       /\ lq'[i].sem = lq[i].sem /\ lq'[i].st = "SERVED"
  BY <1>2 DEF Connect, Slot
<1>4. QED
  BY <1>1, <1>3 DEF Connect, BeforeFirst, ToFetch

\* A slot whose event was added and not fetched: nobody has touched it.
Untouched(i) ==
  /\ lq[i].st = "SERVED" /\ ~Handling(i) /\ ~Marking(i)
  /\ ~(reader.pc = "mark" /\ reader.ev = i)

\* The events that wait fill the ring from curProc to cur, in the order in
\* which they were added.
RingShape ==
  /\ fresh = {i \in Slots : Waiting(i, lproc) < Waiting(lcur, lproc)}
  /\ \A i \in fresh : Untouched(i)
  /\ \A i, j \in fresh :
       Waiting(i, lproc) < Waiting(j, lproc) => lq[i].id < lq[j].id

RingInv ==
  /\ sched.pc = "mark" => sched.ring = "l"
  /\ \A i \in Slots : lq[i].id <= nextId
  /\ Orderly => RingShape

\* A step that keeps the ring and touches no slot that waits.
LEMMA ShapeKept ==
  ASSUME RingShape, UNCHANGED <<fresh, lproc, lcur>>,
         \A i \in Slots : lq'[i].id = lq[i].id, fresh \subseteq Slots,
         \A i \in fresh : Untouched(i)'
  PROVE  RingShape'
BY DEF RingShape, Waiting

LEMMA AddShape ==
  ASSUME TypeOK, RingInv, NEW t \in Threads, AddEvent(t), Orderly'
  PROVE  RingShape'
<1>1. PICK i \in Slots :
        /\ \A j \in Slots : j # i => lq'[j] = lq[j]
        /\ lq'[i].st = "SERVED" /\ lq'[i].id = nextId + 1
        /\ lcur' = Inc(i) /\ fresh' = fresh \cup {i}
        /\ UNCHANGED <<lproc, sched, reader, session>>
        /\ lapped => lapped'
        /\ ~lapped' => i = lcur /\ ~InUse(i) /\ Inc(i) # lproc
  BY AddMoves
<1>2. Orderly
  BY <1>1 DEF Orderly
<1>3. i = lcur /\ ~InUse(i) /\ Inc(i) # lproc /\ RingShape
  BY <1>1, <1>2 DEF Orderly, RingInv
<1>4. lproc \in Slots /\ fresh \subseteq Slots /\ nextId \in Nat
      /\ \A j \in Slots : lq[j].id \in Nat /\ lq[j].id <= nextId
  BY DEF TypeOK, RingsOK, SemsOK, RingInv, Slot
<1> DEFINE W(j) == Waiting(j, lproc)
<1>5. /\ \A j \in Slots : W(j) \in 0 .. MaxEvents - 1
      /\ \A j, k \in Slots : W(j) = W(k) => j = k
      /\ W(Inc(i)) = W(i) + 1
  BY <1>3, <1>4, Distance
<1>6. fresh = {j \in Slots : W(j) < W(i)}
  BY <1>3 DEF RingShape
<1> HIDE DEF W
<1>7. MaxEvents \in Nat
  BY DispatcherAssumption DEF DispatcherAssumption
<1>8. fresh' = {j \in Slots : W(j) < W(Inc(i))}
  BY <1>1, <1>5, <1>6, <1>7
<1>9. \A j \in fresh' : Untouched(j)'
  <2>1. i \notin fresh
    BY <1>5, <1>6, <1>7
  <2>2. \A j \in fresh : Untouched(j)'
    BY <1>1, <1>3, <1>4, <2>1 DEF RingShape, Untouched, Handling, Marking
  <2>3. Untouched(i)'
    BY <1>1, <1>3 DEF InUse, Untouched, Handling, Marking, RingInv
  <2>4. QED
    BY <1>1, <2>2, <2>3
<1>10. \A j, k \in fresh' : W(j) < W(k) => lq'[j].id < lq'[k].id
  <2> SUFFICES ASSUME NEW j \in fresh', NEW k \in fresh', W(j) < W(k)
               PROVE  lq'[j].id < lq'[k].id
    OBVIOUS
  <2>1. j # i
    BY <1>1, <1>5, <1>6, <1>7
  <2>2. j \in fresh /\ lq'[j] = lq[j]
    BY <1>1, <1>4, <2>1
  <2>3. CASE k = i
    BY <1>1, <1>4, <2>2, <2>3
  <2>4. CASE k # i
    BY <1>1, <1>3, <1>4, <2>2, <2>4 DEF RingShape, W
  <2>5. QED
    BY <2>3, <2>4
<1>11. QED
  BY <1>1, <1>8, <1>9, <1>10 DEF RingShape, Waiting, W

\* The slot that is taken is the one at curProc.
LEMMA TakeIsFirst ==
  ASSUME TypeOK, RingShape, lcur # lproc
  PROVE  /\ NextWithState(lq, lproc, "SERVED") = lproc /\ lproc \in fresh
         /\ \A j \in fresh : lq[lproc].id <= lq[j].id
<1>1. lcur \in Slots /\ lproc \in Slots
  BY DEF TypeOK, RingsOK
<1>2. Waiting(lproc, lproc) = 0 /\ Waiting(lcur, lproc) > 0
  BY <1>1, Distance, DispatcherAssumption DEF DispatcherAssumption
<1>3. lproc \in fresh
  BY <1>1, <1>2 DEF RingShape
<1>4. lq[lproc].st = "SERVED"
  BY <1>3 DEF RingShape, Untouched
<1>5. NextWithState(lq, lproc, "SERVED") = lproc
  BY <1>1, <1>4, NextIsHere
<1>6. ASSUME NEW j \in fresh PROVE lq[lproc].id <= lq[j].id
  <2>1. j \in Slots /\ lq[j].id \in Nat
    BY DEF TypeOK, RingsOK, Slot
  <2>2. CASE j = lproc
    BY <2>1, <2>2
  <2>3. CASE j # lproc
    <3>1. Waiting(j, lproc) > 0
      BY <1>1, <2>1, <2>3, Distance, DispatcherAssumption
      DEF DispatcherAssumption
    <3>2. lq[lproc].id < lq[j].id /\ lq[lproc].id \in Nat
      BY <1>1, <1>2, <1>3, <3>1 DEF RingShape, TypeOK, RingsOK, Slot
    <3>3. QED
      BY <2>1, <3>2
  <2>4. QED
    BY <2>2, <2>3
<1>7. QED
  BY <1>3, <1>5, <1>6

LEMMA TakeShape ==
  ASSUME TypeOK, RingInv, RingShape, NEW from \in {"fetch", "drain"},
         FetchNext(from)
  PROVE  RingShape'
<1>1. /\ UNCHANGED <<lq, lcur, reader>> /\ sched.pc = from
      /\ TakesLocal(from) \/ TakesRemote(from) \/ TakesNone(from)
  BY FetchMoves
<1>2. lcur \in Slots /\ lproc \in Slots /\ fresh \subseteq Slots
  BY DEF TypeOK, RingsOK
<1>3. CASE TakesLocal(from)
  <2>1. /\ lproc' = Inc(lproc) /\ fresh' = fresh \ {lproc} /\ lcur # lproc
        /\ Fetched(from, "l", lproc)
    BY <1>3, TakeIsFirst DEF TakesLocal
  <2> DEFINE W(j) == Waiting(j, lproc)
             V(j) == Waiting(j, Inc(lproc))
  <2>2. /\ \A j \in Slots : j # lproc => V(j) = W(j) - 1
        /\ V(lproc) = MaxEvents - 1
        /\ \A j \in Slots : W(j) \in 0 .. MaxEvents - 1
        /\ MaxEvents \in Nat
    BY <1>2, Distance, DispatcherAssumption DEF DispatcherAssumption
  <2>3. fresh = {j \in Slots : W(j) < W(lcur)}
    BY DEF RingShape
  <2>4. \A j, k \in fresh : W(j) < W(k) => lq[j].id < lq[k].id
    BY DEF RingShape
  <2> HIDE DEF W, V
  <2>5. fresh' = {j \in Slots : V(j) < V(lcur)}
    BY <1>2, <2>1, <2>2, <2>3
  <2>6. \A j, k \in fresh' : V(j) < V(k) => lq'[j].id < lq'[k].id
    BY <1>1, <1>2, <2>1, <2>2, <2>4
  <2>7. \A j \in fresh' : Untouched(j)'
    BY <1>1, <2>1 DEF Fetched, RingShape, Untouched, Handling, Marking
  <2>8. QED
    BY <1>1, <2>1, <2>5, <2>6, <2>7 DEF RingShape, Waiting, V
<1>4. CASE TakesRemote(from) \/ TakesNone(from)
  <2>1. \A j \in fresh : Untouched(j)'
    BY <1>1, <1>4 DEF TakesRemote, TakesNone, Fetched, RingShape, Untouched,
       Handling, Marking, ToFetch
  <2>2. QED
    BY <1>1, <1>2, <1>4, <2>1, ShapeKept DEF TakesRemote, TakesNone
<1>5. QED
  BY <1>1, <1>3, <1>4

LEMMA RingStep == TypeOK /\ BeforeFirst /\ RingInv /\ [Next]_vars => RingInv'
<1> SUFFICES ASSUME TypeOK, BeforeFirst, RingInv, [Next]_vars PROVE RingInv'
  OBVIOUS
<1>a. fresh \subseteq Slots /\ nextId \in Nat
      /\ \A i \in Slots : lq[i].id \in Nat /\ lq[i].id <= nextId
  BY DEF TypeOK, RingsOK, SemsOK, Slot, RingInv
<1>b. ASSUME UNCHANGED <<ringVars, sched, reader, session>>,
             nextId' \in Nat, nextId <= nextId'
      PROVE  RingInv'
  <2>1. Orderly' => RingShape'
    BY <1>a, <1>b, ShapeKept DEF ringVars, cursors, Orderly, RingInv, RingShape,
       Untouched, Handling, Marking
  <2>2. QED
    BY <1>a, <1>b, <2>1 DEF RingInv, ringVars
<1>1. CASE \E t \in Threads : Thread(t)
  <2> PICK t \in Threads : Thread(t)
    BY <1>1
  <2>1. CASE AddEvent(t)
    <3>1. /\ sched' = sched /\ nextId' = nextId + 1
          /\ \E i \in Slots : /\ \A j \in Slots : j # i => lq'[j] = lq[j]
                              /\ lq'[i].id = nextId + 1
      BY <2>1, AddMoves
    <3>2. QED
      BY <1>a, <2>1, <3>1, AddShape DEF RingInv
  <2>2. CASE Connect(t)
    <3>1. sched'.pc = "fetch"
      BY <2>2 DEF Connect
    <3>2. \A i \in Slots : lq'[i].id = lq[i].id
      BY <2>2 DEF Connect, TypeOK, RingsOK, Slot
    <3>3. nextId' = nextId
      BY <2>2 DEF Connect
    <3>4. fresh' = {} /\ lcur' = 0 /\ lproc' = 0
      BY <2>2 DEF Connect
    <3>5. RingShape'
      <4>1. ~(Waiting(0, 0) < Waiting(0, 0))
        BY Distance, NoneOutside, DispatcherAssumption DEF DispatcherAssumption
      <4>2. \A j \in Slots : ~(Waiting(j, 0) < Waiting(0, 0))
        BY Distance, NoneOutside, DispatcherAssumption DEF DispatcherAssumption
      <4>3. QED
        BY <3>4, <4>2 DEF RingShape, Waiting
    <3>6. QED
      BY <1>a, <3>1, <3>2, <3>3, <3>5 DEF RingInv
  <2>3. CASE ~AddEvent(t) /\ ~Connect(t)
    <3>1. UNCHANGED <<ringVars, remoteVars, sched, reader, session>>
      BY <2>3, ThreadMoves
    <3>2. nextId' \in Nat /\ nextId <= nextId'
      <4>1. nextId' = nextId \/ nextId' = nextId + 1
        BY <2>3 DEF Thread, Call, CallNoLink, AddNoSem, Post, Lookup, Wait,
           Return, Disconnect
      <4>2. QED
        BY <1>a, <4>1
    <3>3. QED
      BY <1>b, <3>1, <3>2
  <2>4. QED
    BY <2>1, <2>2, <2>3
<1>2. CASE Scheduler
  <2>1. SameEvents /\ UNCHANGED <<lapped, session, reader, nextId>>
    BY <1>2, SchedulerMoves
  <2>2. \A i \in Slots : lq'[i].id <= nextId'
    BY <1>a, <2>1 DEF SameEvents
  <2>3. Orderly' => Orderly /\ RingShape
    BY <2>1 DEF Orderly, RingInv
  <2>4. CASE \E from \in {"fetch", "drain"} : FetchNext(from)
    <3>1. sched'.pc # "mark"
      BY <2>4, FetchMoves DEF TakesLocal, TakesRemote, TakesNone, Fetched, ToFetch
    <3>2. QED
      BY <2>2, <2>3, <2>4, <3>1, TakeShape DEF RingInv
  <2>5. CASE \/ \E i \in Slots : Blocks(i) \/ Pends(i) \/ Serves(i)
             \/ TakesReady \/ Unblocks \/ Marks \/ Aborts \/ Resets
    <3>1. UNCHANGED <<fresh, lproc, lcur>> /\ (sched'.pc = "mark" =>
            sched'.ring = "l")
      BY <2>5 DEF Blocks, Pends, Serves, ServesFor, TakesReady, Unblocks,
         HandlingRemote, Marks, Aborts, Resets, Quiet, RingInv, ToFetch
    <3>2. ASSUME NEW i \in fresh, Orderly PROVE Untouched(i)'
      <4>1. Untouched(i) /\ i \in Slots
        BY <1>a, <3>2 DEF RingInv, RingShape
      <4>2. CASE \E j \in Slots : Blocks(j) \/ Pends(j)
        BY <2>1, <4>1, <4>2
        DEF Untouched, Handling, Marking, Blocks, Pends, Becomes, ToFetch
      <4>3. CASE \E j \in Slots : Serves(j)
        BY <2>1, <4>1, <4>3
        DEF Untouched, Handling, Marking, Serves, ServesFor, SameStates
      <4>4. CASE TakesReady \/ Aborts
        BY <2>1, <4>1, <4>4
        DEF Untouched, Handling, Marking, TakesReady, Aborts, HandlingRemote
      <4>5. CASE Unblocks
        BY <2>1, <4>1, <4>5
        DEF Untouched, Handling, Marking, Unblocks, HandlingRemote, ToFetch
      <4>6. CASE Marks
        BY <2>1, <4>1, <4>6
        DEF Untouched, Handling, Marking, Marks, Becomes, ToFetch, TypeOK, SchedOK
      <4>7. CASE Resets
        BY <2>1, <4>1, <4>7 DEF Untouched, Handling, Marking, Resets, ToFetch
      <4>8. QED
        BY <2>5, <4>2, <4>3, <4>4, <4>5, <4>6, <4>7
    <3>3. Orderly' => RingShape'
      BY <1>a, <2>1, <2>3, <3>1, <3>2, ShapeKept DEF SameEvents
    <3>4. QED
      BY <2>2, <3>1, <3>3 DEF RingInv
  <2>6. QED
    BY <1>2, <2>4, <2>5, SchedulerMoves
<1>3. CASE Reader
  <2>1. /\ SameEvents /\ UNCHANGED <<lcur, lproc, fresh, session, sched, nextId>>
        /\ lapped => lapped'
        /\ Listens \/ (\E i \in Slots : GivesUp(i)) \/ ReaderMarks
    BY <1>3, ReaderMoves
  <2>2. Orderly' => Orderly /\ RingShape
    BY <2>1 DEF Orderly, RingInv
  <2>3. ASSUME NEW i \in fresh, Orderly PROVE Untouched(i)'
    <3>1. Untouched(i) /\ i \in Slots
      BY <1>a, <2>3 DEF RingInv, RingShape
    <3>2. QED
      BY <2>1, <3>1 DEF Listens, GivesUp, ReaderMarks, SameStates, Becomes,
         Untouched, Handling, Marking
  <2>4. Orderly' => RingShape'
    BY <1>a, <2>1, <2>2, <2>3, ShapeKept DEF SameEvents
  <2>5. QED
    BY <1>a, <2>1, <2>4 DEF RingInv, SameEvents
<1>4. CASE Peer \/ LinkFails
  BY <1>4, <1>a, <1>b, PeerMoves
<1>5. CASE UNCHANGED vars
  BY <1>5, <1>a, <1>b DEF vars, envVars
<1>6. QED
  BY <1>1, <1>2, <1>3, <1>4, <1>5 DEF Next

LEMMA RingInit == Init => RingInv
<1> SUFFICES ASSUME Init PROVE RingInv
  OBVIOUS
<1>1. \A j \in Slots : ~(Waiting(j, 0) < Waiting(0, 0))
  BY Distance, NoneOutside, DispatcherAssumption DEF DispatcherAssumption
<1>2. QED
  BY <1>1 DEF Init, RingInv, RingShape, ToFetch, NewSlot

LEMMA BeforeFirstHolds == Spec => []BeforeFirst
<1>1. Init => BeforeFirst
  BY InitSems DEF SemInv
<1>2. TypeOK /\ BeforeFirst /\ [Next]_vars => BeforeFirst'
  <2>1. TypeOK /\ BeforeFirst /\ Next => BeforeFirst'
    BY BeforeFirstKept
  <2>2. BeforeFirst /\ UNCHANGED vars => BeforeFirst'
    BY DEF vars, ringVars, cursors, envVars, BeforeFirst
  <2>3. QED
    BY <2>1, <2>2
<1>3. QED
  BY <1>1, <1>2, TypeCorrect, PTL DEF Spec

LEMMA RingHolds == Spec => []RingInv
BY RingInit, RingStep, TypeCorrect, BeforeFirstHolds, PTL DEF Spec

\* Every event is taken from the ring once and in the order in which the
\* threads added it, as long as no event is put where there is no room for it:
\* the scheduler takes without the semaphore that orders the threads, and a
\* slot looks the same before its event is taken and after it is served
\* (getNextQueueElemToProc, addNextQueueElemToProc).
THEOREM EventsInOrder == Spec => []EachEventOnce
<1>1. TypeOK /\ RingInv => EachEventOnce
  BY TakeIsFirst DEF RingInv, EachEventOnce
<1>2. QED
  BY <1>1, RingHolds, TypeCorrect, PTL

-----------------------------------------------------------------------------
(* The notifications of the scheduler.                                       *)

PostingThreads == {t \in Threads : thr[t].pc = "post"}
Draining == IF sched.pc = "drain" THEN 1 ELSE 0
ReaderPosting == IF reader.pc = "post" THEN 1 ELSE 0

LEMMA PostingIs ==
  /\ Posting = Cardinality(PostingThreads) + ReaderPosting
  /\ \A S \in SUBSET Threads : IsFiniteSet(S) /\ Cardinality(S) \in Nat
  /\ PostingThreads \in SUBSET Threads
<1>1. PostingThreads \in SUBSET Threads
  BY DEF PostingThreads
<1>2. ASSUME NEW S \in SUBSET Threads
      PROVE  IsFiniteSet(S) /\ Cardinality(S) \in Nat
  BY FS_Subset, FS_CardinalityType, DispatcherAssumption
  DEF DispatcherAssumption
<1>3. QED
  BY <1>1, <1>2 DEF Posting, PostingThreads, ReaderPosting

LEMMA FreshFinite ==
  ASSUME TypeOK
  PROVE  IsFiniteSet(fresh) /\ Cardinality(fresh) \in Nat
<1>1. IsFiniteSet(Slots)
  BY FS_Interval, DispatcherAssumption DEF Slots, DispatcherAssumption
<1>2. QED
  BY <1>1, FS_Subset, FS_CardinalityType DEF TypeOK, RingsOK

\* A thread that begins or ends to post an event changes the count by one.
LEMMA PostingChanges ==
  ASSUME TypeOK, NEW t \in Threads,
         \A u \in Threads : u # t => thr'[u].pc = thr[u].pc
  PROVE  /\ thr[t].pc # "post" /\ thr'[t].pc # "post" =>
              PostingThreads' = PostingThreads
         /\ thr[t].pc # "post" /\ thr'[t].pc = "post" =>
              Cardinality(PostingThreads)' = Cardinality(PostingThreads) + 1
         /\ thr[t].pc = "post" /\ thr'[t].pc # "post" =>
              Cardinality(PostingThreads)' = Cardinality(PostingThreads) - 1
<1>1. thr[t].pc # "post" /\ thr'[t].pc # "post" =>
        PostingThreads' = PostingThreads
  BY DEF PostingThreads
<1>2. ASSUME thr[t].pc # "post", thr'[t].pc = "post"
      PROVE  Cardinality(PostingThreads)' = Cardinality(PostingThreads) + 1
  <2>1. PostingThreads' = PostingThreads \cup {t} /\ t \notin PostingThreads
    BY <1>2 DEF PostingThreads
  <2>2. QED
    BY <2>1, PostingIs, FS_AddElement
<1>3. ASSUME thr[t].pc = "post", thr'[t].pc # "post"
      PROVE  Cardinality(PostingThreads)' = Cardinality(PostingThreads) - 1
  <2>1. PostingThreads' = PostingThreads \ {t} /\ t \in PostingThreads
    BY <1>3 DEF PostingThreads
  <2>2. QED
    BY <2>1, PostingIs, FS_RemoveElement
<1>4. QED
  BY <1>1, <1>2, <1>3

\* No event waits when cur and curProc are the same.
LEMMA EmptyRing ==
  ASSUME TypeOK, RingShape
  PROVE  /\ lcur = lproc => fresh = {}
         /\ lcur \notin fresh
<1>1. lcur \in Slots /\ lproc \in Slots
  BY DEF TypeOK, RingsOK
<1>2. /\ \A i \in Slots : Waiting(i, lproc) \in Nat
      /\ lcur = lproc => Waiting(lcur, lproc) = 0
  BY <1>1, Distance, DispatcherAssumption DEF DispatcherAssumption
<1>3. QED
  BY <1>1, <1>2 DEF RingShape

\* Steps that change no count.
LEMMA WakeupKept ==
  ASSUME NoLostWakeup, UNCHANGED <<notify, fresh, rcur, rproc>>,
         Orderly' => Orderly,
         PostingThreads' = PostingThreads, ReaderPosting' = ReaderPosting,
         Draining' = Draining
  PROVE  NoLostWakeup'
BY DEF NoLostWakeup, Posting, PostingThreads, ReaderPosting, Draining, Waiting

LEMMA ThreadWakeup ==
  ASSUME TypeOK, BeforeFirst, RingInv, NoLostWakeup, NEW t \in Threads, Thread(t)
  PROVE  NoLostWakeup'
<1> DEFINE P == Cardinality(PostingThreads)
           C == Cardinality(fresh)
<1>1. P \in Nat /\ C \in Nat /\ notify \in Nat
  BY PostingIs, FreshFinite DEF TypeOK, SemsOK
<1>2. CASE AddEvent(t)
  <2> SUFFICES ASSUME Orderly' PROVE NoLostWakeup'
    BY DEF NoLostWakeup
  <2>1. PICK i \in Slots :
          /\ fresh' = fresh \cup {i}
          /\ thr' = [thr EXCEPT ![t].pc = "post", ![t].ev = i,
                                ![t].id = nextId + 1]
          /\ thr[t].pc = "lock"
          /\ UNCHANGED <<notify, rcur, rproc, sched, reader, session>>
          /\ lapped => lapped'
          /\ ~lapped' => i = lcur
    BY <1>2, AddMoves, ZenonT(30)
  <2>2. Orderly /\ i = lcur
    BY <2>1 DEF Orderly
  <2>3. C' = C + 1
    BY <2>1, <2>2, EmptyRing, FreshFinite, FS_AddElement DEF RingInv
  <2>4. P' = P + 1
    BY <2>1, PostingChanges DEF TypeOK, ThreadsOK
  <2>5. Posting = P + ReaderPosting /\ Posting' = P' + ReaderPosting'
    BY PostingIs DEF Posting, PostingThreads, ReaderPosting
  <2>6. /\ ReaderPosting' = ReaderPosting /\ ReaderPosting \in Nat
        /\ Draining' = Draining /\ Draining \in Nat
        /\ Waiting(rcur, rproc)' = Waiting(rcur, rproc)
        /\ Waiting(rcur, rproc) \in Nat
    BY <2>1, Distance DEF ReaderPosting, Draining, Waiting, TypeOK, RingsOK
  <2>7. notify + Posting = C + Waiting(rcur, rproc) + Draining
    BY <2>2 DEF NoLostWakeup, Draining
  <2> HIDE DEF P, C
  <2>8. notify' + Posting' = C' + Waiting(rcur, rproc)' + Draining'
    BY <1>1, <2>1, <2>3, <2>4, <2>5, <2>6, <2>7
  <2>9. QED
    BY <2>8 DEF NoLostWakeup, Draining, C
<1>3. CASE Connect(t)
  <2> SUFFICES ASSUME Orderly' PROVE NoLostWakeup'
    BY DEF NoLostWakeup
  <2>1. /\ fresh' = {} /\ rcur' = 0 /\ rproc' = 0 /\ notify' = 0
        /\ thr' = [thr EXCEPT ![t] = [IdleThread EXCEPT !.pc = "lock",
                                                        !.type = "CONNECT"]]
        /\ \A u \in Threads : thr[u].pc = "idle"
        /\ sched' = ToFetch("fetch") /\ reader' = [pc |-> "read", ev |-> None]
    BY <1>3, ConnectMoves DEF Orderly
  <2>2. PostingThreads' = {}
    BY <2>1 DEF PostingThreads, IdleThread, TypeOK, ThreadsOK
  <2>3. Waiting(rcur, rproc)' = 0
    BY <2>1, Distance, NoneOutside DEF Waiting
  <2>4. Posting' = Cardinality(PostingThreads)' + ReaderPosting'
    BY DEF Posting, PostingThreads, ReaderPosting
  <2>5. Posting' = 0
    BY <2>1, <2>2, <2>4, FS_EmptySet DEF ReaderPosting
  <2>6. QED
    BY <2>1, <2>3, <2>5, FS_EmptySet DEF NoLostWakeup, ToFetch
<1>4. CASE Post(t)
  <2>1. /\ thr[t].pc = "post" /\ notify' = notify + 1
        /\ thr' = [thr EXCEPT ![t].pc = "lookup"]
        /\ UNCHANGED <<ringVars, remoteVars, sched, reader, session>>
    BY <1>4 DEF Post, envVars
  <2>2. P' = P - 1
    BY <2>1, PostingChanges DEF TypeOK, ThreadsOK
  <2>3. Posting = P + ReaderPosting /\ Posting' = P' + ReaderPosting'
    BY PostingIs DEF Posting, PostingThreads, ReaderPosting
  <2>4. /\ Orderly' = Orderly /\ C' = C /\ ReaderPosting' = ReaderPosting
        /\ Waiting(rcur, rproc)' = Waiting(rcur, rproc) /\ Draining' = Draining
    BY <2>1 DEF Orderly, ringVars, cursors, remoteVars, ReaderPosting, Waiting,
       Draining
  <2>5. Waiting(rcur, rproc) \in Nat /\ ReaderPosting \in Nat /\ Draining \in Nat
    BY Distance DEF TypeOK, RingsOK, ReaderPosting, Draining
  <2>6. Orderly => notify + Posting = C + Waiting(rcur, rproc) + Draining
    BY DEF NoLostWakeup, Draining
  <2> HIDE DEF P, C
  <2>7. Orderly' => notify' + Posting' = C' + Waiting(rcur, rproc)' + Draining'
    BY <1>1, <2>1, <2>2, <2>3, <2>4, <2>5, <2>6
  <2>8. QED
    BY <2>7 DEF NoLostWakeup, Draining, C
<1>5. CASE ~AddEvent(t) /\ ~Connect(t) /\ ~Post(t)
  <2>1. UNCHANGED <<ringVars, remoteVars, sched, reader, session>>
    BY <1>5, ThreadMoves
  <2>2. /\ notify' = notify
        /\ \A u \in Threads : u # t => thr'[u] = thr[u]
        /\ (thr[t].pc # "post" /\ thr'[t].pc # "post") \/ thr' = thr
    <3>1. CASE \E ty \in LocalTypes : Call(t, ty)
      BY <3>1 DEF Call, TypeOK, ThreadsOK, IdleThread
    <3>2. CASE CallNoLink(t) \/ Disconnect(t)
      BY <3>2 DEF CallNoLink, Disconnect
    <3>3. CASE AddNoSem(t) \/ Wait(t)
      BY <3>3 DEF AddNoSem, Wait, TypeOK, ThreadsOK
    <3>4. CASE Lookup(t)
      BY <3>4 DEF Lookup, TypeOK, ThreadsOK
    <3>5. CASE Return(t)
      BY <3>5 DEF Return, TypeOK, ThreadsOK, IdleThread
    <3>6. QED
      BY <1>5, <3>1, <3>2, <3>3, <3>4, <3>5 DEF Thread
  <2>3. PostingThreads' = PostingThreads
    BY <2>2 DEF PostingThreads
  <2>4. QED
    BY <2>1, <2>2, <2>3, WakeupKept
    DEF ringVars, cursors, remoteVars, Orderly, ReaderPosting, Draining
<1>6. QED
  BY <1>2, <1>3, <1>4, <1>5

LEMMA FetchWakeup ==
  ASSUME TypeOK, RingInv, NoLostWakeup, NEW from \in {"fetch", "drain"},
         FetchNext(from), Orderly'
  PROVE  NoLostWakeup'
<1> DEFINE C == Cardinality(fresh)
           R == Waiting(rcur, rproc)
<1>1. /\ UNCHANGED <<lapped, rcur, thr, reader, session>> /\ sched.pc = from
      /\ notify > 0 /\ notify' = notify - 1
      /\ TakesLocal(from) \/ TakesRemote(from) \/ TakesNone(from)
  BY FetchMoves
<1>2. Orderly /\ RingShape
  BY <1>1 DEF Orderly, RingInv
<1>3. /\ C \in Nat /\ Posting \in Nat /\ notify \in Nat /\ Posting' = Posting
      /\ R \in Nat /\ rproc \in Slots /\ rcur \in Slots
  BY <1>1, PostingIs, FreshFinite, Distance
  DEF TypeOK, SemsOK, RingsOK, Posting, ReaderPosting
<1>4. notify + Posting = C + R + Draining
  BY <1>2 DEF NoLostWakeup, Draining
<1>5. CASE TakesLocal(from)
  <2>1. fresh' = fresh \ {lproc} /\ lproc \in fresh /\ rproc' = rproc
        /\ (sched'.pc # "drain" <=> from # "drain")
    BY <1>1, <1>2, <1>5, TakeIsFirst DEF TakesLocal, Fetched
  <2>2. C' = C - 1
    BY <2>1, FreshFinite, FS_RemoveElement
  <2>3. R' = R /\ Draining' = Draining
    BY <1>1, <2>1 DEF Draining, Waiting
  <2> HIDE DEF C, R
  <2>4. QED
    BY <1>1, <1>3, <1>4, <2>2, <2>3 DEF NoLostWakeup, Draining, C, R
<1>6. CASE TakesRemote(from)
  <2>1. /\ rcur # rproc /\ rproc' = Inc(rproc) /\ fresh' = fresh
        /\ (sched'.pc # "drain" <=> from # "drain")
    BY <1>1, <1>6 DEF TakesRemote, Fetched
  <2>2. R' = R - 1
    BY <1>1, <1>3, <2>1, Distance DEF Waiting
  <2>3. C' = C /\ Draining' = Draining
    BY <1>1, <2>1 DEF Draining
  <2> HIDE DEF C, R
  <2>4. QED
    BY <1>1, <1>3, <1>4, <2>2, <2>3 DEF NoLostWakeup, Draining, C, R
<1>7. CASE TakesNone(from)
  <2>1. fresh = {} /\ rcur = rproc /\ UNCHANGED <<fresh, rproc>>
    BY <1>2, <1>7, EmptyRing DEF TakesNone
  <2>2. C = 0 /\ C' = 0 /\ R = 0 /\ R' = 0
    BY <1>1, <1>3, <2>1, FS_EmptySet, Distance DEF Waiting
  <2>3. from = "drain" /\ sched' = ToFetch("flush")
    BY <1>1, <1>3, <1>4, <1>7, <2>2 DEF TakesNone, Draining
  <2> HIDE DEF C, R
  <2>4. QED
    BY <1>1, <1>3, <1>4, <2>2, <2>3
    DEF NoLostWakeup, Draining, ToFetch, C, R
<1>8. QED
  BY <1>1, <1>5, <1>6, <1>7

LEMMA SchedulerWakeup ==
  ASSUME TypeOK, RingInv, DrainInv, NoLostWakeup, Scheduler
  PROVE  NoLostWakeup'
<1> SUFFICES ASSUME Orderly' PROVE NoLostWakeup'
  BY DEF NoLostWakeup
<1>1. UNCHANGED <<lapped, rcur, session, thr, reader>>
  BY SchedulerMoves
<1>2. /\ Orderly /\ PostingThreads' = PostingThreads
      /\ ReaderPosting' = ReaderPosting
  BY <1>1 DEF Orderly, PostingThreads, ReaderPosting
<1>3. CASE \E from \in {"fetch", "drain"} : FetchNext(from)
  BY <1>3, FetchWakeup
<1>4. CASE \/ \E i \in Slots : Blocks(i) \/ Pends(i) \/ Serves(i)
           \/ TakesReady \/ Unblocks \/ Marks \/ Aborts
  <2>1. UNCHANGED <<notify, fresh, rproc>>
    BY <1>4 DEF Blocks, Pends, Serves, ServesFor, TakesReady, Unblocks,
       HandlingRemote, Marks, Aborts, Quiet
  <2>2. Draining' = Draining
    BY <1>4 DEF Blocks, Pends, Serves, ServesFor, TakesReady, Unblocks,
       HandlingRemote, Marks, Aborts, Handling, ToFetch, Draining, DrainInv
  <2>3. QED
    BY <1>1, <1>2, <2>1, <2>2, WakeupKept
<1>5. CASE Resets
  <2>1. /\ fresh' = fresh /\ rproc' = rproc
        /\ \/ sched.pc = "join" /\ sched'.pc = "drain" /\ notify' = notify + 1
           \/ sched.pc = "flush" /\ sched'.pc = "dead" /\ notify' = notify
    BY <1>5 DEF Resets, ToFetch
  <2>2. /\ Cardinality(fresh) \in Nat /\ Posting \in Nat /\ notify \in Nat
        /\ Waiting(rcur, rproc) \in Nat
    BY PostingIs, FreshFinite, Distance
    DEF TypeOK, SemsOK, RingsOK, ReaderPosting
  <2>3. Posting' = Posting /\ Waiting(rcur, rproc)' = Waiting(rcur, rproc)
    BY <1>1, <2>1 DEF Posting, Waiting
  <2>4. QED
    BY <1>1, <1>2, <2>1, <2>2, <2>3 DEF NoLostWakeup
<1>6. QED
  BY <1>3, <1>4, <1>5, SchedulerMoves

LEMMA ReaderWakeup ==
  ASSUME TypeOK, NoLostWakeup, Reader
  PROVE  NoLostWakeup'
<1> SUFFICES ASSUME Orderly' PROVE NoLostWakeup'
  BY DEF NoLostWakeup
<1>1. /\ UNCHANGED <<fresh, rproc, session, thr, sched>>
      /\ lapped => lapped'
  BY ReaderMoves
<1>2. Orderly /\ PostingThreads' = PostingThreads /\ Draining' = Draining
  BY <1>1 DEF Orderly, PostingThreads, Draining
<1>3. /\ Cardinality(fresh) \in Nat /\ Cardinality(PostingThreads) \in Nat
      /\ notify \in Nat /\ Waiting(rcur, rproc) \in Nat
      /\ Posting = Cardinality(PostingThreads) + ReaderPosting
      /\ Posting' = Cardinality(PostingThreads)' + ReaderPosting'
  BY PostingIs, FreshFinite, Distance
  DEF TypeOK, SemsOK, RingsOK, ReaderPosting, Posting, PostingThreads
<1>4. CASE Receive
  <2>1. notify' = notify /\ reader.pc = "read"
    BY <1>4 DEF Receive
  <2>2. CASE rcur' = rcur /\ reader'.pc # "post"
    <3>1. ReaderPosting' = ReaderPosting
      BY <2>1, <2>2 DEF ReaderPosting
    <3>2. QED
      BY <1>1, <1>2, <2>1, <2>2, <3>1, WakeupKept
  <2>3. CASE rcur' = Inc(rcur) /\ reader'.pc = "post" /\ Inc(rcur) # rproc
    <3>1. Waiting(rcur, rproc)' = Waiting(rcur, rproc) + 1
      BY <1>1, <2>3, Distance DEF TypeOK, RingsOK, Waiting
    <3>2. ReaderPosting = 0 /\ ReaderPosting' = 1
      BY <2>1, <2>3 DEF ReaderPosting
    <3>3. QED
      BY <1>1, <1>2, <1>3, <2>1, <3>1, <3>2 DEF NoLostWakeup, Draining
  <2>4. \/ rcur' = rcur /\ reader'.pc # "post"
        \/ /\ rcur' = Inc(rcur) /\ reader'.pc = "post"
           /\ lapped' = (lapped \/ Inc(rcur) = rproc)
    <3>1. CASE Head(fromPeer) = readPrev
      BY <1>4, <2>1, <3>1 DEF Receive
    <3>2. CASE Head(fromPeer) # readPrev /\ resetX
      BY <1>4, <3>2 DEF Receive
    <3>3. CASE Head(fromPeer) # readPrev /\ ~resetX
      BY <1>4, <3>3 DEF Receive
    <3>4. QED
      BY <3>1, <3>2, <3>3
  <2>5. QED
    BY <2>2, <2>3, <2>4 DEF Orderly
<1>5. CASE ReaderPost
  <2>1. /\ reader.pc = "post" /\ reader'.pc = "next" /\ notify' = notify + 1
        /\ rcur' = rcur
    BY <1>5 DEF ReaderPost, remoteVars, TypeOK, ReaderOK
  <2>2. ReaderPosting = 1 /\ ReaderPosting' = 0
    BY <2>1 DEF ReaderPosting
  <2>3. QED
    BY <1>1, <1>2, <1>3, <2>1, <2>2 DEF NoLostWakeup, Draining, Waiting
<1>6. CASE ReaderNext \/ ReceiveFails \/ ReaderGivesUp \/ ReaderMark
  <2>1. /\ reader.pc # "post" /\ reader'.pc # "post" /\ notify' = notify
        /\ rcur' = rcur
    BY <1>6 DEF ReaderNext, ReceiveFails, ReaderGivesUp, ReaderMark, remoteVars,
       TypeOK, ReaderOK
  <2>2. ReaderPosting' = ReaderPosting
    BY <2>1 DEF ReaderPosting
  <2>3. QED
    BY <1>1, <1>2, <2>1, <2>2, WakeupKept
<1>7. QED
  BY <1>4, <1>5, <1>6 DEF Reader

LEMMA WakeupStep ==
  TypeOK /\ BeforeFirst /\ DrainInv /\ RingInv /\ NoLostWakeup /\ [Next]_vars
    => NoLostWakeup'
<1> SUFFICES ASSUME TypeOK, BeforeFirst, DrainInv, RingInv, NoLostWakeup,
                    [Next]_vars
             PROVE  NoLostWakeup'
  OBVIOUS
<1>1. CASE \E t \in Threads : Thread(t)
  BY <1>1, ThreadWakeup
<1>2. CASE Scheduler
  BY <1>2, SchedulerWakeup
<1>3. CASE Reader
  BY <1>3, ReaderWakeup
<1>4. CASE UNCHANGED <<ringVars, remoteVars, notify, session, thr, sched,
                       reader>>
  BY <1>4, WakeupKept DEF ringVars, cursors, remoteVars, Orderly,
     PostingThreads, ReaderPosting, Draining
<1>5. CASE Peer \/ LinkFails
  BY <1>4, <1>5, PeerMoves
<1>6. CASE UNCHANGED vars
  BY <1>4, <1>6 DEF vars, envVars
<1>7. QED
  BY <1>1, <1>2, <1>3, <1>5, <1>6 DEF Next

LEMMA DrainHolds == Spec => []DrainInv
<1>1. Init => DrainInv
  BY DEF Init, DrainInv, DrainFindsNoReady, ToFetch, NoReady, NewSlot
<1>2. QED
  BY <1>1, TypeCorrect, DrainStep, PTL DEF Spec

\* Every event that waits has its notification, given or about to be given, in
\* both rings and whatever the threads, the reader and the scheduler do in
\* between (dispatcherAddEvent, dispatcherGetNextEvent, dispatcherReset).
THEOREM WakeupsKept == Spec => []NoLostWakeup
<1>1. Init => NoLostWakeup
  <2> SUFFICES ASSUME Init PROVE NoLostWakeup
    OBVIOUS
  <2>1. PostingThreads = {} /\ fresh = {}
    BY DEF Init, PostingThreads, IdleThread
  <2>2. Waiting(rcur, rproc) = 0
    BY Distance, NoneOutside DEF Init
  <2>3. Posting = 0
    <3>1. ReaderPosting = 0
      BY DEF Init, ReaderPosting
    <3>2. QED
      BY <2>1, <3>1, FS_EmptySet, PostingIs
  <2>4. QED
    BY <2>1, <2>2, <2>3, FS_EmptySet DEF Init, NoLostWakeup, ToFetch
<1>2. QED
  BY <1>1, WakeupStep, TypeCorrect, BeforeFirstHolds, DrainHolds, RingHolds, PTL
  DEF Spec

-----------------------------------------------------------------------------
(* The semaphores of the threads that wait.                                  *)

\* The steps of a thread other than AddEvent and Connect.
Same(t) == /\ thr'[t].ev = thr[t].ev /\ thr'[t].id = thr[t].id
           /\ thr'[t].type = thr[t].type
Starts(t) ==
  /\ thr[t].pc = "idle" /\ thr'[t].pc = IF resetX THEN "lookup" ELSE "lock"
  /\ link = "UP" /\ thr'[t].ev = None /\ thr'[t].sem = None
  /\ thr'[t].type \in LocalTypes
  /\ UNCHANGED <<posted, addSem, link>>
Refused(t) ==
  /\ thr[t].pc = "lock" /\ thr'[t].pc = "lookup" /\ Same(t)
  /\ thr'[t].sem = thr[t].sem /\ SemFor(t) = None /\ addSem' = 0
  /\ UNCHANGED <<posted, link>>
Posts(t) ==
  /\ thr[t].pc = "post" /\ thr'[t].pc = "lookup" /\ Same(t)
  /\ thr'[t].sem = thr[t].sem /\ UNCHANGED <<posted, addSem, link>>
Looks(t) ==
  /\ thr[t].pc = "lookup" /\ Same(t) /\ thr'[t].sem = CurrentSem(t)
  /\ thr'[t].pc = IF CurrentSem(t) = None THEN "return" ELSE "wait"
  /\ UNCHANGED <<posted, addSem, link>>
Wakes(t) ==
  /\ thr[t].pc = "wait" /\ thr'[t].pc = "return" /\ Same(t)
  /\ thr'[t].sem = thr[t].sem /\ thr[t].sem \in Sems /\ posted[thr[t].sem] > 0
  /\ posted' = [posted EXCEPT ![thr[t].sem] = @ - 1]
  /\ UNCHANGED <<addSem, link>>
Returns(t) ==
  /\ thr[t].pc = "return" /\ thr'[t].pc = "idle" /\ thr'[t].ev = None
  /\ thr'[t].sem = None /\ thr'[t].type = "PING"
  /\ link' = IF thr[t].type = "CONNECT" THEN "UP" ELSE link
  /\ UNCHANGED <<posted, addSem>>
Stays == thr' = thr /\ UNCHANGED <<posted, addSem, link>>

LEMMA ThreadKinds ==
  ASSUME TypeOK, NEW t \in Threads, Thread(t), ~AddEvent(t), ~Connect(t)
  PROVE  /\ \A u \in Threads : u # t => thr'[u] = thr[u]
         /\ \/ Starts(t) \/ Refused(t) \/ Posts(t) \/ Looks(t) \/ Wakes(t)
            \/ Returns(t) \/ Stays
<1> USE DEF TypeOK, ThreadsOK, semVars, envVars, Same
<1>1. CASE \E ty \in LocalTypes : Call(t, ty)
  BY <1>1 DEF Call, Starts, IdleThread
<1>2. CASE CallNoLink(t) \/ Disconnect(t)
  BY <1>2 DEF CallNoLink, Disconnect, Stays
<1>3. CASE AddNoSem(t)
  BY <1>3 DEF AddNoSem, Refused
<1>4. CASE Post(t)
  BY <1>4 DEF Post, Posts
<1>5. CASE Lookup(t)
  BY <1>5 DEF Lookup, Looks, Stays
<1>6. CASE Wait(t)
  BY <1>6 DEF Wait, Wakes
<1>7. CASE Return(t)
  BY <1>7 DEF Return, Returns, Stays, IdleThread
<1>8. QED
  BY <1>1, <1>2, <1>3, <1>4, <1>5, <1>6, <1>7 DEF Thread

\* A semaphore that a slot points at is live.
LEMMA ReferredIsLive ==
  ASSUME TypeOK, SemRefsMatch, session <= 1, NEW i \in Slots, lq[i].sem \in Sems
  PROVE  refs[lq[i].sem] > 0
<1>1. Refs(lq[i].sem) # {}
  BY DEF Refs
<1>2. Cardinality(Refs(lq[i].sem)) # 0 /\ Cardinality(Refs(lq[i].sem)) \in Nat
  BY <1>1, RefsFinite, FS_EmptySet, FS_CardinalityType
<1>3. QED
  BY <1>1, <1>2 DEF SemRefsMatch, RefCounts

\* A thread that owns a live semaphore is given it.
LEMMA OwnerFinds ==
  ASSUME NEW t, NEW s \in Sems, owner[s] = t, refs[s] > 0
  PROVE  CurrentSem(t) # None
<1> DEFINE mine == {r \in Sems : owner[r] = t /\ refs[r] > 0}
<1>1. mine # {} /\ mine \subseteq Nat
  BY NoneOutside
<1>2. SetMin(mine) \in mine
  BY <1>1, SetMinIsLeast
<1>3. SetMin(mine) # None
  BY <1>2, NoneOutside
<1>4. CurrentSem(t) = SetMin(mine)
  BY <1>1 DEF CurrentSem
<1>5. QED
  BY <1>3, <1>4

\* The semaphore a new event is given is its thread's own or a free one.
LEMMA SemForOwn ==
  ASSUME TypeOK, NEW t \in Threads, SemFor(t) \in Sems
  PROVE  \/ /\ CurrentSem(t) = SemFor(t) /\ refs[SemFor(t)] > 0
            /\ owner[SemFor(t)] = t
         \/ /\ CurrentSem(t) = None /\ refs[SemFor(t)] < 0
            /\ \A s \in Sems : ~(owner[s] = t /\ refs[s] > 0)
<1>1. CASE CurrentSem(t) # None
  BY <1>1, CurrentSemFinds DEF SemFor
<1>2. CASE CurrentSem(t) = None
  <2>1. SemFor(t) = FreeSem /\ FreeSem # None
    BY <1>2, NoneOutside DEF SemFor
  <2>2. refs[SemFor(t)] < 0
    BY <2>1, FreeSemFinds
  <2>3. \A s \in Sems : ~(owner[s] = t /\ refs[s] > 0)
    BY <1>2, OwnerFinds
  <2>4. QED
    BY <1>2, <2>2, <2>3
<1>3. QED
  BY <1>1, <1>2

\* An add makes no semaphore live but that of its event.
LEMMA AddKeepsDead ==
  ASSUME TypeOK, NEW t \in Threads, AddEvent(t), NEW s \in Sems, s # SemFor(t),
         refs'[s] > 0
  PROVE  refs[s] > 0
<1> DEFINE w == RefsWith(t, SemFor(t))
           old == lq[NextWithState(lq, lcur, "SERVED")].sem
<1>1. refs' = Unref(w, old)
  BY DEF AddEvent
<1>2. SemFor(t) \in Sems /\ refs \in [Sems -> Int]
  BY SemForType DEF AddEvent, TypeOK, SemsOK
<1>3. w \in [Sems -> Int] /\ w[s] = refs[s]
  BY <1>2 DEF RefsWith
<1> HIDE DEF w, old
<1>4. QED
  BY <1>1, <1>3 DEF Unref

\* A thread inside a call has its event in the slot it remembers, with a
\* semaphore of its own; it owns no other live one.
Own(t) ==
  /\ thr[t].pc \in {"idle", "lock"} => thr[t].ev = None
  /\ thr[t].ev # None =>
       /\ lq[thr[t].ev].id = thr[t].id
       /\ lq[thr[t].ev].sem \in Sems /\ owner[lq[thr[t].ev].sem] = t
       /\ thr[t].pc = "wait" => thr[t].sem = lq[thr[t].ev].sem

OneSem ==
  \A s, r \in Sems : refs[s] > 0 /\ refs[r] > 0 /\ owner[s] = owner[r] => s = r

OwnInv == Orderly => OneSem /\ \A t \in Threads : Own(t)

\* A step that keeps the thread, its slot and the owners.
LEMMA OwnKept ==
  ASSUME TypeOK, SameEvents, owner' = owner, NEW t \in Threads, Own(t),
         thr'[t] = thr[t]
  PROVE  Own(t)'
BY DEF Own, SameEvents, TypeOK, ThreadsOK

LEMMA OwnAdd ==
  ASSUME TypeOK, SemRefsMatch, OwnInv, NEW t \in Threads, AddEvent(t), Orderly'
  PROVE  OneSem' /\ \A u \in Threads : Own(u)'
<1> DEFINE s == SemFor(t)
<1>1. PICK i \in Slots :
        /\ \A j \in Slots : j # i => lq'[j] = lq[j]
        /\ lq'[i].id = nextId + 1 /\ lq'[i].sem = s /\ s \in Sems
        /\ owner' = [owner EXCEPT ![s] = t]
        /\ thr' = [thr EXCEPT ![t].pc = "post", ![t].ev = i,
                              ![t].id = nextId + 1]
        /\ thr[t].pc = "lock" /\ UNCHANGED session
        /\ lapped => lapped'
        /\ ~lapped' => i = lcur /\ ~InUse(i) /\ Inc(i) # lproc
  BY AddMoves
<1>2. Orderly /\ ~InUse(i) /\ session <= 1
  BY <1>1 DEF Orderly
<1>3. OneSem /\ \A u \in Threads : Own(u)
  BY <1>2 DEF OwnInv
<1>4. owner \in [Sems -> Threads \cup {None}]
  BY DEF TypeOK, SemsOK
<1>5. \/ refs[s] > 0 /\ owner[s] = t
      \/ refs[s] < 0 /\ \A r \in Sems : ~(owner[r] = t /\ refs[r] > 0)
  BY <1>1, SemForOwn
<1>6. \A r \in Sems : r # s /\ refs'[r] > 0 => refs[r] > 0
  BY AddKeepsDead
<1> HIDE DEF s
<1>7. OneSem'
  <2> SUFFICES ASSUME NEW x \in Sems, NEW y \in Sems, refs'[x] > 0,
                      refs'[y] > 0, owner'[x] = owner'[y]
               PROVE  x = y
    BY DEF OneSem
  <2>1. CASE x # s /\ y # s
    BY <1>1, <1>3, <1>4, <1>6, <2>1 DEF OneSem
  <2>2. CASE x = s /\ y # s
    BY <1>1, <1>3, <1>4, <1>5, <1>6, <2>2 DEF OneSem
  <2>3. CASE x # s /\ y = s
    BY <1>1, <1>3, <1>4, <1>5, <1>6, <2>3 DEF OneSem
  <2>4. QED
    BY <2>1, <2>2, <2>3
<1>8. ASSUME NEW u \in Threads, u # t PROVE Own(u)'
  <2>1. thr'[u] = thr[u] /\ Own(u)
    BY <1>1, <1>3, <1>8 DEF TypeOK, ThreadsOK
  <2>2. CASE thr[u].ev = None
    BY <2>1, <2>2 DEF Own
  <2>3. CASE thr[u].ev # None
    <3> DEFINE j == thr[u].ev
    <3>1. j \in Slots /\ thr[u].pc # "idle"
      BY <2>1, <2>3 DEF Own, TypeOK, ThreadsOK
    <3>2. j # i
      BY <1>2, <3>1 DEF InUse
    <3>3. lq[j].sem \in Sems /\ owner[lq[j].sem] = u /\ lq'[j] = lq[j]
      BY <1>1, <2>1, <2>3, <3>1, <3>2 DEF Own
    <3>4. refs[lq[j].sem] > 0
      BY <1>2, <3>1, <3>3, ReferredIsLive
    <3>5. lq[j].sem # s
      <4>1. \A x \in Int : ~(x > 0 /\ x < 0)
        OBVIOUS
      <4>2. refs[s] \in Int
        BY <1>1 DEF TypeOK, SemsOK
      <4>3. QED
        BY <1>5, <1>8, <3>3, <3>4, <4>1, <4>2
    <3>6. owner'[lq[j].sem] = u
      BY <1>1, <1>4, <3>3, <3>5
    <3>7. QED
      BY <2>1, <3>3, <3>6 DEF Own
  <2>4. QED
    BY <2>2, <2>3
<1>9. Own(t)'
  <2>1. /\ thr'[t].pc = "post" /\ thr'[t].ev = i /\ thr'[t].id = nextId + 1
        /\ owner'[s] = t
    BY <1>1, <1>4 DEF TypeOK, ThreadsOK
  <2>2. QED
    BY <1>1, <2>1 DEF Own
<1>10. QED
  BY <1>7, <1>8, <1>9

LEMMA OwnThread ==
  ASSUME TypeOK, SemRefsMatch, OwnInv, NEW t \in Threads, Thread(t),
         ~AddEvent(t), ~Connect(t), Orderly'
  PROVE  OneSem' /\ \A u \in Threads : Own(u)'
<1>1. /\ UNCHANGED <<ringVars, session, refs, owner>>
      /\ \A u \in Threads : u # t => thr'[u] = thr[u]
      /\ \/ Starts(t) \/ Refused(t) \/ Posts(t) \/ Looks(t) \/ Wakes(t)
         \/ Returns(t) \/ Stays
  BY ThreadMoves, ThreadKinds
<1>2. Orderly /\ SameEvents /\ session <= 1
  BY <1>1 DEF Orderly, ringVars, cursors, SameEvents
<1>3. OneSem /\ \A u \in Threads : Own(u)
  BY <1>2 DEF OwnInv
<1>4. OneSem'
  BY <1>1, <1>3 DEF OneSem
<1>5. ASSUME NEW u \in Threads, u # t PROVE Own(u)'
  BY <1>1, <1>2, <1>3, <1>5, OwnKept
<1>6. CASE Starts(t) \/ Returns(t)
  <2>1. Own(t)'
    BY <1>6 DEF Starts, Returns, Own
  <2>2. QED
    BY <1>4, <1>5, <2>1
<1>7. CASE Refused(t) \/ Posts(t) \/ Wakes(t)
  <2>1. Own(t)'
    BY <1>1, <1>3, <1>7 DEF Refused, Posts, Wakes, Same, Own, ringVars
  <2>2. QED
    BY <1>4, <1>5, <2>1
<1>8. CASE Looks(t)
  <2>1. CASE thr[t].ev = None
    BY <1>4, <1>5, <1>8, <2>1 DEF Looks, Same, Own
  <2>2. CASE thr[t].ev # None
    <3> DEFINE r == lq[thr[t].ev].sem
    <3>1. r \in Sems /\ owner[r] = t /\ thr[t].ev \in Slots
      BY <1>3, <2>2 DEF Own, TypeOK, ThreadsOK
    <3>2. refs[r] > 0
      BY <1>2, <3>1, ReferredIsLive
    <3>3. CurrentSem(t) \in Sems /\ owner[CurrentSem(t)] = t
          /\ refs[CurrentSem(t)] > 0
      BY <3>1, <3>2, OwnerFinds, CurrentSemFinds
    <3>4. CurrentSem(t) = r
      BY <1>3, <3>1, <3>2, <3>3 DEF OneSem
    <3>5. Own(t)'
      BY <1>1, <1>3, <1>8, <3>4 DEF Looks, Same, Own, ringVars
    <3>6. QED
      BY <1>4, <1>5, <3>5
  <2>3. QED
    BY <2>1, <2>2
<1>9. CASE Stays
  BY <1>2, <1>3, <1>4, <1>5, <1>9, <1>1, OwnKept DEF Stays
<1>10. QED
  BY <1>1, <1>6, <1>7, <1>8, <1>9

LEMMA OwnStep ==
  TypeOK /\ BeforeFirst /\ SemRefsMatch /\ OwnInv /\ [Next]_vars => OwnInv'
<1> SUFFICES ASSUME TypeOK, BeforeFirst, SemRefsMatch, OwnInv, [Next]_vars,
                    Orderly'
             PROVE  OneSem' /\ \A t \in Threads : Own(t)'
  BY DEF OwnInv
<1>a. ASSUME SameEvents, UNCHANGED <<refs, owner, thr, session>>,
             lapped => lapped'
      PROVE  OneSem' /\ \A t \in Threads : Own(t)'
  <2>1. OneSem /\ \A t \in Threads : Own(t)
    BY <1>a DEF OwnInv, Orderly
  <2>2. QED
    BY <1>a, <2>1, OwnKept DEF OneSem
<1>1. CASE \E t \in Threads : Thread(t)
  <2> PICK t \in Threads : Thread(t)
    BY <1>1
  <2>1. CASE Connect(t)
    <3>1. /\ \A u \in Threads : thr[u].pc = "idle"
          /\ thr' = [thr EXCEPT ![t] = [IdleThread EXCEPT !.pc = "lock",
                                                          !.type = "CONNECT"]]
          /\ refs' = [s \in Sems |-> -1] /\ session = 0
          /\ UNCHANGED lapped
      BY <2>1, ConnectMoves DEF Orderly
    <3>2. OneSem'
      BY <3>1 DEF OneSem
    <3>3. \A u \in Threads : Own(u)
      BY <3>1 DEF OwnInv, Orderly
    <3>4. \A u \in Threads : thr'[u].ev = None
      BY <3>1, <3>3 DEF Own, IdleThread, TypeOK, ThreadsOK
    <3>5. QED
      BY <3>2, <3>4 DEF Own
  <2>2. QED
    BY <2>1, OwnAdd, OwnThread
<1>2. CASE Scheduler
  BY <1>2, <1>a, SchedulerMoves
<1>3. CASE Reader
  BY <1>3, <1>a, ReaderMoves
<1>4. CASE Peer \/ LinkFails
  BY <1>4, <1>a, PeerMoves DEF ringVars, cursors, semVars, SameEvents
<1>5. CASE UNCHANGED vars
  BY <1>5, <1>a DEF vars, ringVars, cursors, semVars, envVars, SameEvents
<1>6. QED
  BY <1>1, <1>2, <1>3, <1>4, <1>5 DEF Next

LEMMA OwnHolds == Spec => []OwnInv
<1>1. Init => OwnInv
  BY DEF Init, OwnInv, OneSem, Own, IdleThread
<1>2. QED
  BY <1>1, OwnStep, TypeCorrect, BeforeFirstHolds, SemCounts, PTL DEF Spec

\* A thread that waits for its event waits on the semaphore with which the
\* event will be served, live and its own, although it looks the semaphore up
\* after the add, outside of addEventSem (dispatcherWaitEventComplete), and
\* other threads' adds drop references and make semaphores of freed entries.
THEOREM WaitersKeepSems == Spec => []WaiterKeepsSem
<1>1. TypeOK /\ SemRefsMatch /\ OwnInv => WaiterKeepsSem
  <2> SUFFICES ASSUME TypeOK, SemRefsMatch, OwnInv, Orderly, NEW t \in Threads,
                      thr[t].pc = "wait", thr[t].ev # None
               PROVE  /\ refs[thr[t].sem] > 0 /\ owner[thr[t].sem] = t
                      /\ lq[thr[t].ev].sem = thr[t].sem
    BY DEF WaiterKeepsSem
  <2>1. Own(t) /\ thr[t].ev \in Slots /\ session <= 1
    BY DEF OwnInv, Orderly, TypeOK, ThreadsOK
  <2>2. QED
    BY <2>1, ReferredIsLive DEF Own
<1>2. QED
  BY <1>1, OwnHolds, SemCounts, TypeCorrect, PTL

=============================================================================
