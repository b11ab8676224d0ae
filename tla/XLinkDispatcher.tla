--------------------------- MODULE XLinkDispatcher ---------------------------
(***************************************************************************)
(* The event dispatcher of XLink (ncsdk2/XLinkDispatcher.cpp): application *)
(* threads add events to a ring of slots and wait on a semaphore each; one *)
(* scheduler thread takes the events out, hands them to the protocol       *)
(* handlers, sends them and completes them; one reader thread turns the    *)
(* messages of the peer into events of a second ring.                      *)
(*                                                                         *)
(* The protocol handlers are known here only by their outcome (served      *)
(* locally, blocked, refused, sent); XLinkStream says what decides it.     *)
(***************************************************************************)
EXTENDS Integers, Sequences, FiniteSets

CONSTANTS
  Threads,        \* application threads that call the XLink API
  MaxEvents,      \* MAX_EVENTS, slots of a ring
  MaxSemaphores,  \* MAXIMUM_SEMAPHORES, completion semaphores of a scheduler
  PC,             \* TRUE when __PC__ is defined (the host build)
  LocalTypes,     \* types of the requests the threads issue
  RemoteTypes,    \* types of the requests the peer issues
  MaxCalls,       \* bound on the events the threads add
  MaxRemote,      \* bound on the requests the peer sends
  MaxSessions,    \* bound on the connections over this scheduler slot
  LinkMayFail,    \* whether the USB transfer may fail
  None            \* no slot, no semaphore

(***************************************************************************)
(* What the handler of XLink.cpp may do with a local request of each type: *)
(* READ takes a packet or blocks, WRITE is refused on a closed stream,     *)
(* blocks without credit or is sent, CLOSE blocks while the peer holds     *)
(* data, RESET and PING (which stands for the create and release requests, *)
(* too) are always sent.                                                   *)
(***************************************************************************)
Outcomes == [PING  |-> {"send"},
             RESET |-> {"send"},
             READ  |-> {"serve", "block"},
             WRITE |-> {"send", "block", "refuse"},
             CLOSE |-> {"send", "block"}]

ASSUME DispatcherAssumption ==
  /\ IsFiniteSet(Threads)
  /\ MaxEvents \in Nat \ {0}
  /\ MaxSemaphores \in Nat \ {0} /\ MaxSemaphores < MaxEvents
  /\ PC \in BOOLEAN /\ LinkMayFail \in BOOLEAN
  /\ LocalTypes \subseteq DOMAIN Outcomes
  /\ RemoteTypes \subseteq {"PING", "WRITE", "REL", "RESET"}
  /\ MaxCalls \in Nat /\ MaxRemote \in Nat /\ MaxSessions \in Nat
  /\ None \notin Int

Slots == 0 .. MaxEvents - 1
Sems  == 1 .. MaxSemaphores
States == {"SERVED", "PENDING", "BLOCKED", "READY"}
Types == DOMAIN Outcomes \cup RemoteTypes

VARIABLES
  lq,        \* lQueue.q: the local ring of [st, sem, id, type, ack,
             \* block]
  lcur,      \* lQueue.cur, where the next event is added
  lproc,     \* lQueue.curProc, the next event to process
  fresh,     \* history: local slots added and not yet fetched
  lapped,    \* history: a ring was given an event it had no room for
  rq,        \* rQueue.q: the remote ring; its slots are always SERVED
  rcur,      \* rQueue.cur
  rproc,     \* rQueue.curProc
  refs,      \* eventSemaphores[].refs
  owner,     \* eventSemaphores[].threadId
  posted,    \* the value of each completion semaphore
  semaphores,\* number of completion semaphores in use
  addSem,    \* the value of addEventSem
  notify,    \* the value of notifyDispatcherSem
  resetX,    \* resetXLink
  nextId,    \* the counter of createUniqueID
  sched,     \* scheduler thread: [pc, ring, ev, then]
  reader,    \* reader thread: [pc, ev]
  readPrev,  \* prevEvent of dispatcherEventReceive
  thr,       \* application threads: [pc, type, ev, id, sem]
  toPeer,    \* messages on the wire
  fromPeer,
  nRemote,   \* requests the peer has sent
  wire,      \* the USB connection: up, down (failed) or closed (by the host)
  link,      \* the link: NONE (not yet), UP, DOWN, GONE (fully closed)
  session,   \* how many times dispatcherStart ran for this slot
  fault      \* the first failed assertion or invalid access

cursors == <<lcur, lproc, fresh, lapped>>
ringVars == <<lq, cursors>>
remoteVars == <<rq, rcur, rproc>>
semVars == <<refs, owner, posted, semaphores>>
wireVars == <<toPeer, fromPeer, nRemote>>
envVars == <<wire, link, session>>
vars == <<ringVars, remoteVars, semVars, addSem, notify, resetX, nextId,
          sched, reader, readPrev, thr, wireVars, envVars, fault>>

-----------------------------------------------------------------------------
(* Rings.                                                                    *)

SetMin(S) == CHOOSE i \in S : \A j \in S : i <= j

\* Mutant of Inc: the cursor never comes back to the base of the ring.
IncNoWrap(i) == i + 1

\* CIRCULAR_INCREMENT.
Inc(i) == IF i + 1 = MaxEvents THEN 0 ELSE i + 1

\* getNextElementWithState: the first slot in state st from start on, round
\* the ring once; None for the NULL it returns when there is none.
NextWithState(q, start, st) ==
  LET hits  == {i \in Slots : q[i].st = st}
      after == {i \in hits : i >= start}
  IN  IF hits = {} THEN None
      ELSE IF after # {} THEN SetMin(after) ELSE SetMin(hits)

NewSlot == [st |-> "SERVED", sem |-> None, id |-> 0, type |-> "PING",
            ack |-> FALSE, block |-> FALSE]
NoMsg == [kind |-> "none", type |-> "PING", id |-> 0]

-----------------------------------------------------------------------------
(* Completion semaphores.                                                    *)

\* getCurrentSem: the live semaphore that the thread owns.
CurrentSem(t) ==
  LET mine == {s \in Sems : owner[s] = t /\ refs[s] > 0}
  IN  IF mine = {} THEN None ELSE SetMin(mine)

\* Mutant of FreeSem: the entry's reference count is not looked at.
FreeSemAny == IF semaphores < MaxSemaphores THEN SetMin(Sems) ELSE None

\* The entry createSem takes, None when the limit is reached.
FreeSem ==
  LET free == {s \in Sems : refs[s] < 0}
  IN  IF semaphores < MaxSemaphores /\ free # {} THEN SetMin(free) ELSE None

\* The semaphore of a new event of thread t.
SemFor(t) == IF CurrentSem(t) # None THEN CurrentSem(t) ELSE FreeSem

\* refs after getCurrentSem(.., 1) or createSem.
RefsWith(t, s) ==
  [refs EXCEPT ![s] = IF CurrentSem(t) = s THEN @ + 1 ELSE 1]

\* Mutant of Unref: the count goes down but the entry is never freed.
UnrefNoFree(r, o) == IF o = None THEN r ELSE [r EXCEPT ![o] = @ - 1]

\* unrefSem: one reference fewer; the entry is freed at zero.
Unref(r, o) ==
  IF o = None THEN r
  ELSE [r EXCEPT ![o] = IF @ - 1 = 0 THEN -1 ELSE @ - 1]

-----------------------------------------------------------------------------
(* Application threads: an API call of XLink.cpp is Call, then               *)
(* dispatcherAddEvent (AddEvent, AddNoSem, Post), then                       *)
(* dispatcherWaitEventComplete (Lookup, Wait), then the read of the flags of *)
(* the event it was handed (Return).                                         *)

IdleThread == [pc |-> "idle", type |-> "PING", ev |-> None, id |-> 0,
               sem |-> None]

\* The call finds the link up; dispatcherAddEvent refuses it once the link is
\* being reset, and the caller goes on to wait all the same.
Call(t, ty) ==
  /\ fault = "none"
  /\ thr[t].pc = "idle"
  /\ link = "UP"
  /\ nextId + Cardinality({u \in Threads : thr[u].pc = "lock"}) < MaxCalls
  /\ thr' = [thr EXCEPT ![t] = [IdleThread EXCEPT
                !.pc = IF resetX THEN "lookup" ELSE "lock", !.type = ty]]
  /\ UNCHANGED <<ringVars, remoteVars, semVars, addSem, notify, resetX,
                 nextId, sched, reader, readPrev, wireVars, envVars, fault>>

\* getLinkById finds no link any more: ASSERT_X_LINK(link != NULL).
CallNoLink(t) ==
  /\ fault = "none"
  /\ thr[t].pc = "idle"
  /\ link = "GONE"
  /\ fault' = "noLink"
  /\ UNCHANGED <<ringVars, remoteVars, semVars, addSem, notify, resetX,
                 nextId, sched, reader, readPrev, thr, wireVars, envVars>>

\* A slot is in use from the add of its event until the caller has returned
\* and the scheduler and the reader are done with it.
InUse(i) ==
  \/ lq[i].st # "SERVED"
  \/ sched.pc \in {"handle", "mark"} /\ sched.ring = "l" /\ sched.ev = i
  \/ reader.pc = "mark" /\ reader.ev = i
  \/ \E t \in Threads : thr[t].pc # "idle" /\ thr[t].ev = i

\* The critical section of addEventSem for a local event. The slot keeps the
\* state SERVED until the scheduler handles the event. addNextQueueElemToProc
\* does not test whether it found a slot: see AddFindsSlot.
AddEvent(t) ==
  LET i == NextWithState(lq, lcur, "SERVED")
      s == SemFor(t)
      old == lq[i].sem
      made == CurrentSem(t) = None
      r == Unref(RefsWith(t, s), old)
  IN
  /\ fault = "none"
  /\ thr[t].pc = "lock" /\ addSem = 1
  /\ i # None /\ s # None
  /\ nextId' = nextId + 1
  /\ refs' = r
  /\ owner' = [owner EXCEPT ![s] = t]
  /\ posted' = [posted EXCEPT ![s] = IF made /\ refs[s] = -1 THEN 0 ELSE @]
  /\ semaphores' = semaphores + (IF made THEN 1 ELSE 0)
                   - (IF old # None /\ RefsWith(t, s)[old] = 1 THEN 1 ELSE 0)
  /\ lq' = [lq EXCEPT ![i] = [@ EXCEPT !.sem = s, !.id = nextId + 1,
               !.type = IF thr[t].type = "CONNECT" THEN "PING" ELSE thr[t].type,
               !.ack = TRUE, !.block = FALSE]]
  /\ lcur' = Inc(i)
  /\ fresh' = fresh \cup {i}
  /\ lapped' = (lapped \/ InUse(lcur) \/ Inc(lcur) = lproc)
  /\ thr' = [thr EXCEPT ![t].pc = "post", ![t].ev = i, ![t].id = nextId + 1]
  /\ UNCHANGED <<lproc, remoteVars, addSem, notify, resetX, sched, reader,
                 readPrev, wireVars, envVars, fault>>

\* No semaphore is left: the early return, which keeps addEventSem.
AddNoSem(t) ==
  /\ fault = "none"
  /\ thr[t].pc = "lock" /\ addSem = 1
  /\ SemFor(t) = None
  /\ addSem' = 0
  /\ nextId' = nextId + 1
  /\ thr' = [thr EXCEPT ![t].pc = "lookup"]
  /\ UNCHANGED <<ringVars, remoteVars, semVars, notify, resetX, sched, reader,
                 readPrev, wireVars, envVars, fault>>

\* Mutant of Post: the scheduler is notified only of the first event.
PostFirst(t) ==
  /\ fault = "none"
  /\ thr[t].pc = "post"
  /\ notify' = IF notify = 0 THEN 1 ELSE notify
  /\ thr' = [thr EXCEPT ![t].pc = "lookup"]
  /\ UNCHANGED <<ringVars, remoteVars, semVars, addSem, resetX, nextId, sched,
                 reader, readPrev, wireVars, envVars, fault>>

Post(t) ==
  /\ fault = "none"
  /\ thr[t].pc = "post"
  /\ notify' = notify + 1
  /\ thr' = [thr EXCEPT ![t].pc = "lookup"]
  /\ UNCHANGED <<ringVars, remoteVars, semVars, addSem, resetX, nextId, sched,
                 reader, readPrev, wireVars, envVars, fault>>

\* dispatcherWaitEventComplete: it asserts that the scheduler exists and
\* returns at once, without waiting, when the thread owns no semaphore.
Lookup(t) ==
  /\ fault = "none"
  /\ thr[t].pc = "lookup"
  /\ IF sched.pc = "dead"
     THEN /\ fault' = "noScheduler"
          /\ UNCHANGED thr
     ELSE /\ thr' = [thr EXCEPT
                ![t].pc = IF CurrentSem(t) = None THEN "return" ELSE "wait",
                ![t].sem = CurrentSem(t)]
          /\ UNCHANGED fault
  /\ UNCHANGED <<ringVars, remoteVars, semVars, addSem, notify, resetX,
                 nextId, sched, reader, readPrev, wireVars, envVars>>

Wait(t) ==
  /\ fault = "none"
  /\ thr[t].pc = "wait"
  /\ posted[thr[t].sem] > 0
  /\ posted' = [posted EXCEPT ![thr[t].sem] = @ - 1]
  /\ thr' = [thr EXCEPT ![t].pc = "return"]
  /\ UNCHANGED <<ringVars, remoteVars, refs, owner, semaphores, addSem, notify,
                 resetX, nextId, sched, reader, readPrev, wireVars, envVars,
                 fault>>

\* The caller of a read, write or close looks at ev->header.flags, the flags
\* now in the slot; XLinkConnect sets the link up; the others just return.
Return(t) ==
  /\ fault = "none"
  /\ thr[t].pc = "return"
  /\ \/ /\ thr[t].type \in {"READ", "WRITE", "CLOSE", "PING"} /\ thr[t].ev = None
        /\ fault' = "nullEvent"
        /\ UNCHANGED <<thr, link>>
     \/ /\ thr[t].type \in {"READ", "WRITE", "CLOSE"} => thr[t].ev # None
        /\ thr' = [thr EXCEPT ![t] = IdleThread]
        /\ link' = IF thr[t].type = "CONNECT" THEN "UP" ELSE link
        /\ UNCHANGED fault
  /\ UNCHANGED <<ringVars, remoteVars, semVars, addSem, notify, resetX,
                 nextId, sched, reader, readPrev, wireVars, wire, session>>

\* XLinkConnect up to its dispatcherAddEvent. dispatcherStart resets the
\* states of the slots and the reference counts, not the semaphores that the
\* slots refer to.
Connect(t) ==
  /\ fault = "none"
  /\ PC
  /\ thr[t].pc = "idle"
  /\ sched.pc = "dead" /\ session < MaxSessions
  /\ session' = session + 1
  /\ semaphores' = 0 /\ refs' = [s \in Sems |-> -1]
  /\ resetX' = FALSE /\ addSem' = 1 /\ notify' = 0
  /\ lq' = [i \in Slots |-> [lq[i] EXCEPT !.st = "SERVED"]]
  /\ lcur' = 0 /\ lproc' = 0 /\ fresh' = {} /\ rcur' = 0 /\ rproc' = 0
  /\ sched' = [pc |-> "fetch", ring |-> "l", ev |-> None, then |-> "fetch"]
  /\ reader' = [pc |-> "read", ev |-> None]
  /\ wire' = "up" /\ toPeer' = <<>> /\ fromPeer' = <<>>
  /\ thr' = [thr EXCEPT ![t] = [IdleThread EXCEPT
                !.pc = "lock", !.type = "CONNECT"]]
  /\ UNCHANGED <<lapped, rq, owner, posted, nextId, readPrev, nRemote, link,
                 fault>>

\* XLinkDisconnect: hostClosedFD is set and the device handle is closed.
Disconnect(t) ==
  /\ fault = "none"
  /\ LinkMayFail
  /\ thr[t].pc = "idle" /\ link \in {"UP", "DOWN"} /\ wire # "closed"
  /\ wire' = "closed"
  /\ UNCHANGED <<ringVars, remoteVars, semVars, addSem, notify, resetX,
                 nextId, sched, reader, readPrev, thr, wireVars, link, session,
                 fault>>

Thread(t) ==
  \/ \E ty \in LocalTypes : Call(t, ty)
  \/ CallNoLink(t) \/ AddEvent(t) \/ AddNoSem(t) \/ Post(t)
  \/ Lookup(t) \/ Wait(t) \/ Return(t) \/ Connect(t) \/ Disconnect(t)

-----------------------------------------------------------------------------
(* The scheduler thread: eventSchedulerRun.                                  *)

\* Put a message on the wire; eventSend's failure is ignored by its caller.
Send(m) == toPeer' = IF wire = "up" THEN Append(toPeer, m) ELSE toPeer

ToFetch(next) == [pc |-> next, ring |-> "l", ev |-> None, then |-> next]

\* markEventServed, its first half: the waiter is posted before the slot is
\* marked (FinishServe).
PostSem(i) == posted' = IF lq[i].sem = None THEN posted
                        ELSE [posted EXCEPT ![lq[i].sem] = @ + 1]
StartServe(i, next) ==
  /\ PostSem(i)
  /\ sched' = [pc |-> "mark", ring |-> "l", ev |-> i, then |-> next]

\* Mutant of FinishServe: the slot is not given back.
FinishServeKept ==
  /\ fault = "none"
  /\ sched.pc = "mark"
  /\ sched' = ToFetch(sched.then)
  /\ UNCHANGED <<ringVars, remoteVars, semVars, addSem, notify,
                 resetX, nextId, reader, readPrev, thr, wireVars, envVars,
                 fault>>

FinishServe ==
  /\ fault = "none"
  /\ sched.pc = "mark"
  /\ lq' = [lq EXCEPT ![sched.ev].st = "SERVED"]
  /\ sched' = ToFetch(sched.then)
  /\ UNCHANGED <<cursors, remoteVars, semVars, addSem, notify,
                 resetX, nextId, reader, readPrev, thr, wireVars, envVars,
                 fault>>

\* Mutant of NoReady: searchForReadyEvent never finds an event.
NoReadyEver == TRUE

NoReady == \A i \in Slots : lq[i].st # "READY"

\* searchForReadyEvent, from the base of the ring, without waiting.
FetchReady ==
  /\ fault = "none"
  /\ sched.pc = "fetch" /\ ~NoReady
  /\ sched' = [sched EXCEPT !.pc = "handle", !.ring = "l",
                            !.ev = NextWithState(lq, 0, "READY")]
  /\ UNCHANGED <<ringVars, remoteVars, semVars, addSem, notify, resetX,
                 nextId, reader, readPrev, thr, wireVars, envVars, fault>>

\* Mutant of TakeLocal: curProc is left on the event that was taken.
TakeLocalStay ==
  LET i == NextWithState(lq, lproc, "SERVED")
  IN  /\ lcur # lproc /\ i # None
      /\ lproc' = i
      /\ fresh' = fresh \ {i}
      /\ UNCHANGED <<lq, lcur, lapped, remoteVars, fault>>

\* getNextQueueElemToProc on the local ring: the next SERVED slot, not tested
\* either.
TakeLocal ==
  LET i == NextWithState(lq, lproc, "SERVED")
  IN  /\ lcur # lproc /\ i # None
      /\ lproc' = Inc(i)
      /\ fresh' = fresh \ {i}
      /\ UNCHANGED <<lq, lcur, lapped, remoteVars, fault>>

TakeRemote ==
  /\ lcur = lproc /\ rcur # rproc
  /\ rproc' = Inc(rproc)
  /\ UNCHANGED <<ringVars, rq, rcur, fault>>

\* Neither ring has an event: dispatcherGetNextEvent returns NULL.
TakeNone ==
  /\ lcur = lproc /\ rcur = rproc
  /\ UNCHANGED <<ringVars, remoteVars, fault>>

\* dispatcherGetNextEvent when no event is ready; in dispatcherReset's drain
\* the events are dropped, and the first NULL ends it.
FetchNext(from) ==
  /\ fault = "none"
  /\ sched.pc = from /\ NoReady
  /\ notify > 0 /\ notify' = notify - 1
  /\ \/ /\ TakeLocal
        /\ sched' = IF from = "drain" THEN sched
                    ELSE [sched EXCEPT !.pc = "handle", !.ring = "l",
                            !.ev = NextWithState(lq, lproc, "SERVED")]
     \/ /\ TakeRemote
        /\ sched' = IF from = "drain" THEN sched
                    ELSE [sched EXCEPT !.pc = "handle", !.ring = "r",
                                       !.ev = rproc]
     \/ /\ TakeNone
        /\ sched' = IF from = "drain" THEN ToFetch("flush") ELSE sched
  /\ UNCHANGED <<semVars, addSem, resetX, nextId, reader, readPrev, thr,
                 wireVars, envVars>>

HandlingLocal(o) ==
  /\ fault = "none"
  /\ sched.pc = "handle" /\ sched.ring = "l"
  /\ o \in Outcomes[lq[sched.ev].type]

\* A READ finds a packet: served here.
HandleServe ==
  /\ HandlingLocal("serve")
  /\ lq' = [lq EXCEPT ![sched.ev].ack = TRUE, ![sched.ev].block = FALSE]
  /\ StartServe(sched.ev, "fetch")
  /\ UNCHANGED <<cursors, remoteVars, refs, owner, semaphores,
                 addSem, notify, resetX, nextId, reader, readPrev, thr,
                 wireVars, envVars, fault>>

\* A WRITE on a stream closed for writing: nack, not sent, and served, unless
\* it was blocked before: the handler leaves the block flag as it was, and
\* dispatcherRequestServe tests that flag first.
HandleRefuse ==
  LET i == sched.ev
  IN
  /\ HandlingLocal("refuse")
  /\ IF lq[i].block THEN /\ lq' = [lq EXCEPT ![i] =
                                     [@ EXCEPT !.ack = FALSE, !.st = "BLOCKED"]]
                         /\ sched' = ToFetch("fetch")
                         /\ UNCHANGED posted
                    ELSE /\ lq' = [lq EXCEPT ![i].ack = FALSE]
                         /\ StartServe(i, "fetch")
  /\ UNCHANGED <<cursors, remoteVars, refs, owner, semaphores,
                 addSem, notify, resetX, nextId, reader, readPrev, thr,
                 wireVars, envVars, fault>>

\* Mutant of HandleBlock: the waiter is posted although the event is blocked.
HandleBlockPost ==
  /\ HandlingLocal("block")
  /\ PostSem(sched.ev)
  /\ lq' = [lq EXCEPT ![sched.ev].st = "BLOCKED", ![sched.ev].block = TRUE]
  /\ sched' = ToFetch("fetch")
  /\ UNCHANGED <<cursors, remoteVars, refs, owner, semaphores, addSem,
                 notify, resetX, nextId, reader, readPrev, thr, wireVars,
                 envVars, fault>>

HandleBlock ==
  /\ HandlingLocal("block")
  /\ lq' = [lq EXCEPT ![sched.ev].st = "BLOCKED", ![sched.ev].block = TRUE]
  /\ sched' = ToFetch("fetch")
  /\ UNCHANGED <<cursors, remoteVars, semVars, addSem, notify,
                 resetX, nextId, reader, readPrev, thr, wireVars, envVars,
                 fault>>

\* Mutant of HandleSend: the event is completed when it is sent.
HandleSendServed ==
  LET i == sched.ev
  IN
  /\ HandlingLocal("send")
  /\ StartServe(i, "fetch")
  /\ lq' = [lq EXCEPT ![i].ack = TRUE, ![i].block = FALSE]
  /\ Send([kind |-> "req", type |-> lq[i].type, id |-> lq[i].id])
  /\ UNCHANGED <<cursors, remoteVars, refs, owner, semaphores,
                 addSem, notify, resetX, nextId, reader, readPrev, thr,
                 fromPeer, nRemote, envVars, fault>>

\* dispatcherRequestServe makes the event pending and only then is it sent;
\* an event already marked nack is completed, and sent all the same.
HandleSend ==
  LET i == sched.ev
      ok == lq[i].type = "WRITE" \/ lq[i].ack
  IN
  /\ HandlingLocal("send")
  /\ IF ok THEN /\ lq' = [lq EXCEPT ![i] =
                               [@ EXCEPT !.st = "PENDING", !.ack = TRUE,
                                         !.block = FALSE]]
                /\ sched' = ToFetch("fetch")
                /\ UNCHANGED posted
           ELSE /\ lq' = [lq EXCEPT ![i].block = FALSE]
                /\ StartServe(i, "fetch")
  /\ Send([kind |-> "req", type |-> lq[i].type, id |-> lq[i].id])
  /\ UNCHANGED <<cursors, remoteVars, refs, owner, semaphores,
                 addSem, notify, resetX, nextId, reader, readPrev, thr,
                 fromPeer, nRemote, envVars, fault>>

\* dispatcherUnblockEvent: the first blocked event of the type is made ready.
Unblock(q, ty) ==
  LET hits == {i \in Slots : q[i].st = "BLOCKED" /\ q[i].type = ty}
  IN  IF hits = {} THEN q ELSE [q EXCEPT ![SetMin(hits)].st = "READY"]

\* A request of the peer: data unblocks a READ, a release unblocks a WRITE and
\* perhaps a CLOSE; the answer is sent; RESET ends the loop.
HandleRemoteRequest ==
  LET m == rq[sched.ev]
      released == Unblock(lq, "WRITE")
  IN
  /\ fault = "none"
  /\ sched.pc = "handle" /\ sched.ring = "r" /\ m.kind = "req"
  /\ CASE m.type = "WRITE" -> lq' = Unblock(lq, "READ")
       [] m.type = "REL" -> lq' \in {released, Unblock(released, "CLOSE")}
       [] OTHER -> UNCHANGED lq
  /\ Send([m EXCEPT !.kind = "resp"])
  /\ resetX' = (resetX \/ m.type = "RESET")
  /\ sched' = ToFetch(IF m.type = "RESET" THEN "join" ELSE "fetch")
  /\ UNCHANGED <<cursors, remoteVars, semVars, addSem, notify,
                 nextId, reader, readPrev, thr, fromPeer, nRemote, envVars,
                 fault>>

\* The local requests that a response of the peer answers.
Answered(m) ==
  {i \in Slots : lq[i].st = "PENDING" /\ lq[i].id = m.id /\ lq[i].type = m.type}

\* dispatcherResponseServe: complete the pending request, or abort.
HandleResponse ==
  LET m == rq[sched.ev]
  IN
  /\ fault = "none"
  /\ sched.pc = "handle" /\ sched.ring = "r" /\ m.kind = "resp"
  /\ IF Answered(m) # {}
     THEN StartServe(SetMin(Answered(m)), "fetch") /\ UNCHANGED fault
     ELSE fault' = "noRequest" /\ UNCHANGED <<posted, sched>>
  /\ UNCHANGED <<ringVars, remoteVars, refs, owner, semaphores, addSem, notify,
                 resetX, nextId, reader, readPrev, thr, wireVars, envVars>>

\* pthread_join, then dispatcherReset: the link is closed, one notification
\* is posted to get a NULL event, and the rings are drained.
StartReset ==
  /\ fault = "none"
  /\ sched.pc = "join" /\ reader.pc = "exited"
  /\ link' = "GONE"
  /\ notify' = notify + 1
  /\ sched' = ToFetch("drain")
  /\ UNCHANGED <<ringVars, remoteVars, semVars, addSem, resetX, nextId, reader,
                 readPrev, thr, wireVars, wire, session, fault>>

\* Then every pending event is served, and only those.
FlushPending ==
  LET i == NextWithState(lq, 0, "PENDING")
  IN
  /\ fault = "none"
  /\ sched.pc = "flush" /\ i # None
  /\ StartServe(i, "flush")
  /\ UNCHANGED <<ringVars, remoteVars, refs, owner, semaphores, addSem, notify,
                 resetX, nextId, reader, readPrev, thr, wireVars, envVars,
                 fault>>

\* resetDevice closes the device; the scheduler slot is given up.
FinishReset ==
  /\ fault = "none"
  /\ sched.pc = "flush" /\ NextWithState(lq, 0, "PENDING") = None
  /\ wire' = "closed"
  /\ sched' = ToFetch("dead")
  /\ UNCHANGED <<ringVars, remoteVars, semVars, addSem, notify, resetX, nextId,
                 reader, readPrev, thr, wireVars, link, session, fault>>

Scheduler ==
  \/ FetchReady \/ FetchNext("fetch") \/ FetchNext("drain")
  \/ HandleServe \/ HandleRefuse \/ HandleBlock \/ HandleSend
  \/ HandleRemoteRequest \/ HandleResponse \/ FinishServe
  \/ StartReset \/ FlushPending \/ FinishReset

-----------------------------------------------------------------------------
(* The reader thread: eventReader, dispatcherEventReceive.                   *)

\* A message arrives and becomes an event of the remote ring, within
\* addEventSem; dispatcherAddEvent drops it when the link is being reset.
\* The same message twice in a row trips the assertion.
Receive ==
  LET m == Head(fromPeer)
  IN
  /\ fault = "none"
  /\ reader.pc = "read" /\ fromPeer # <<>> /\ wire = "up"
  /\ IF m = readPrev
     THEN /\ fault' = "duplicateId"
          /\ UNCHANGED <<lapped, rq, rcur, reader, readPrev, fromPeer>>
     ELSE /\ addSem = 1 \/ resetX
          /\ readPrev' = m
          /\ fromPeer' = Tail(fromPeer)
          /\ reader' = [pc |-> IF resetX THEN "next" ELSE "post", ev |-> None]
          /\ IF resetX THEN UNCHANGED <<lapped, rq, rcur>>
             ELSE /\ rq' = [rq EXCEPT ![rcur] = m] /\ rcur' = Inc(rcur)
                  /\ lapped' = (lapped \/ Inc(rcur) = rproc)
          /\ UNCHANGED fault
  /\ UNCHANGED <<lq, lcur, lproc, fresh, rproc, semVars, addSem, notify, resetX,
                 nextId, sched, thr, toPeer, nRemote, envVars>>

ReaderPost ==
  /\ fault = "none"
  /\ reader.pc = "post"
  /\ notify' = notify + 1
  /\ reader' = [reader EXCEPT !.pc = "next"]
  /\ UNCHANGED <<ringVars, remoteVars, semVars, addSem, resetX, nextId, sched,
                 readPrev, thr, wireVars, envVars, fault>>

\* After a reset request dispatcherEventReceive returns -1; otherwise the loop
\* tests resetXLink.
ReaderNext ==
  /\ fault = "none"
  /\ reader.pc = "next"
  /\ reader' = [reader EXCEPT !.pc =
       IF readPrev.kind = "req" /\ readPrev.type = "RESET" THEN "failed"
       ELSE IF resetX THEN "exited" ELSE "read"]
  /\ UNCHANGED <<ringVars, remoteVars, semVars, addSem, notify, resetX, nextId,
                 sched, readPrev, thr, wireVars, envVars, fault>>

\* The read fails: quietly after a reset response or when the host closed the
\* device, otherwise as an error.
ReceiveFails ==
  /\ fault = "none"
  /\ reader.pc = "read" /\ wire # "up"
  /\ reader' = [reader EXCEPT !.pc =
       IF wire = "closed" \/ (readPrev.kind = "resp" /\ readPrev.type = "RESET")
       THEN "exited" ELSE "failed"]
  /\ UNCHANGED <<ringVars, remoteVars, semVars, addSem, notify, resetX, nextId,
                 sched, readPrev, thr, wireVars, envVars, fault>>

\* The host build takes the link down and nacks one blocked event, the first
\* from cur on; the other builds leave everything as it is.
ReaderGivesUp ==
  LET i == IF PC THEN NextWithState(lq, lcur, "BLOCKED") ELSE None
  IN
  /\ fault = "none"
  /\ reader.pc = "failed"
  /\ link' = IF PC /\ link = "UP" THEN "DOWN" ELSE link
  /\ IF i = None
     THEN /\ reader' = [pc |-> "exited", ev |-> None]
          /\ UNCHANGED <<lq, posted>>
     ELSE /\ reader' = [pc |-> "mark", ev |-> i]
          /\ lq' = [lq EXCEPT ![i].ack = FALSE]
          /\ PostSem(i)
  /\ UNCHANGED <<cursors, remoteVars, refs, owner, semaphores,
                 addSem, notify, resetX, nextId, sched, readPrev, thr, wireVars,
                 wire, session, fault>>

\* Mutant of ReaderMark: the event is given to the scheduler again.
ReaderMarkReady ==
  /\ fault = "none"
  /\ reader.pc = "mark"
  /\ lq' = [lq EXCEPT ![reader.ev].st = "READY"]
  /\ reader' = [pc |-> "exited", ev |-> None]
  /\ UNCHANGED <<cursors, remoteVars, semVars, addSem, notify,
                 resetX, nextId, sched, readPrev, thr, wireVars, envVars, fault>>

ReaderMark ==
  /\ fault = "none"
  /\ reader.pc = "mark"
  /\ lq' = [lq EXCEPT ![reader.ev].st = "SERVED"]
  /\ reader' = [pc |-> "exited", ev |-> None]
  /\ UNCHANGED <<cursors, remoteVars, semVars, addSem, notify,
                 resetX, nextId, sched, readPrev, thr, wireVars, envVars, fault>>

Reader == Receive \/ ReaderPost \/ ReaderNext \/ ReceiveFails \/ ReaderGivesUp
          \/ ReaderMark

-----------------------------------------------------------------------------
(* The peer answers the requests in order and sends requests of its own.     *)

PeerAnswer ==
  LET m == Head(toPeer)
  IN
  /\ fault = "none"
  /\ wire = "up" /\ toPeer # <<>>
  /\ toPeer' = Tail(toPeer)
  /\ fromPeer' = IF m.kind = "req" THEN Append(fromPeer, [m EXCEPT !.kind = "resp"])
                 ELSE fromPeer
  /\ UNCHANGED <<ringVars, remoteVars, semVars, addSem, notify, resetX, nextId,
                 sched, reader, readPrev, thr, nRemote, envVars, fault>>

PeerRequest(ty) ==
  /\ fault = "none"
  /\ wire = "up" /\ nRemote < MaxRemote
  /\ nRemote' = nRemote + 1
  /\ fromPeer' = Append(fromPeer, [kind |-> "req", type |-> ty, id |-> nRemote + 1])
  /\ UNCHANGED <<ringVars, remoteVars, semVars, addSem, notify, resetX, nextId,
                 sched, reader, readPrev, thr, toPeer, envVars, fault>>

LinkFails ==
  /\ fault = "none"
  /\ LinkMayFail /\ wire = "up"
  /\ wire' = "down"
  /\ UNCHANGED <<ringVars, remoteVars, semVars, addSem, notify, resetX, nextId,
                 sched, reader, readPrev, thr, wireVars, link, session, fault>>

Peer == PeerAnswer \/ (\E ty \in RemoteTypes : PeerRequest(ty))

-----------------------------------------------------------------------------
(* dispatcherInitialize: the host build starts no scheduler before the first *)
(* XLinkConnect; the others start one with the program.                      *)

Init ==
  /\ lq = [i \in Slots |-> NewSlot] /\ lcur = 0 /\ lproc = 0 /\ fresh = {}
  /\ lapped = FALSE
  /\ rq = [i \in Slots |-> NoMsg] /\ rcur = 0 /\ rproc = 0
  /\ refs = [s \in Sems |-> -1] /\ semaphores = 0
  /\ owner = [s \in Sems |-> None] /\ posted = [s \in Sems |-> 0]
  /\ addSem = 1 /\ notify = 0 /\ resetX = FALSE /\ nextId = 0
  /\ sched = ToFetch(IF PC THEN "dead" ELSE "fetch")
  /\ reader = [pc |-> IF PC THEN "exited" ELSE "read", ev |-> None]
  /\ readPrev = NoMsg
  /\ thr = [t \in Threads |-> IdleThread]
  /\ toPeer = <<>> /\ fromPeer = <<>> /\ nRemote = 0
  /\ wire = IF PC THEN "closed" ELSE "up"
  /\ link = IF PC THEN "NONE" ELSE "UP"
  /\ session = IF PC THEN 0 ELSE 1
  /\ fault = "none"

\* A failed assertion aborts the process: every action requires that none has.
Next ==
  (\E t \in Threads : Thread(t)) \/ Scheduler \/ Reader \/ Peer \/ LinkFails

Spec == Init /\ [][Next]_vars

\* The steps of a thread inside an API call: the operating system runs every
\* thread, and a semaphore that stays available is obtained.
Inside(t) == AddEvent(t) \/ AddNoSem(t) \/ Post(t)
             \/ Lookup(t) \/ Wait(t) \/ Return(t)

\* Fairness of the operating system's scheduler and of a peer that answers.
\* The peer need not send requests and the link need not fail.
FairSpec ==
  /\ Spec
  /\ \A t \in Threads : WF_vars(Inside(t))
  /\ WF_vars(Scheduler)
  /\ WF_vars(Reader)
  /\ WF_vars(PeerAnswer)

-----------------------------------------------------------------------------
(* Properties.                                                               *)

Messages == [kind : {"req", "resp", "none"}, type : Types, id : Nat]

Slot == [st : States, sem : Sems \cup {None}, id : Nat, type : Types,
         ack : BOOLEAN, block : BOOLEAN]

RingsOK ==
  /\ lq \in [Slots -> Slot] /\ lcur \in Slots /\ lproc \in Slots
  /\ fresh \subseteq Slots /\ lapped \in BOOLEAN
  /\ rq \in [Slots -> Messages] /\ rcur \in Slots /\ rproc \in Slots

SemsOK ==
  /\ refs \in [Sems -> Int] /\ owner \in [Sems -> Threads \cup {None}]
  /\ posted \in [Sems -> Nat] /\ semaphores \in Int
  /\ addSem \in {0, 1} /\ notify \in Nat /\ resetX \in BOOLEAN /\ nextId \in Nat

SchedOK ==
  /\ sched \in [pc : {"fetch", "handle", "mark", "join", "drain", "flush", "dead"},
                ring : {"l", "r"}, ev : Slots \cup {None},
                then : {"fetch", "join", "drain", "flush", "dead"}]
  /\ sched.pc \in {"handle", "mark"} => sched.ev \in Slots

ReaderOK ==
  /\ reader \in [pc : {"read", "post", "next", "failed", "mark", "exited"},
                 ev : Slots \cup {None}]
  /\ reader.pc = "mark" => reader.ev \in Slots
  /\ readPrev \in Messages

ThreadsOK ==
  /\ thr \in [Threads -> [pc : {"idle", "lock", "post", "lookup", "wait", "return"},
                          type : Types \cup {"CONNECT"}, ev : Slots \cup {None},
                          id : Nat, sem : Sems \cup {None}]]
  /\ \A t \in Threads : thr[t].pc = "wait" => thr[t].sem \in Sems

WireOK ==
  /\ toPeer \in Seq(Messages) /\ fromPeer \in Seq(Messages) /\ nRemote \in Nat
  /\ wire \in {"up", "down", "closed"} /\ link \in {"NONE", "UP", "DOWN", "GONE"}
  /\ session \in Nat
  /\ fault \in {"none", "noLink", "noScheduler", "noRequest", "nullEvent",
                "duplicateId"}

\* Type invariant of the dispatcher's state (XLinkDispatcher.cpp:61-89): the
\* cursors stay in the rings, and a thread that handles, completes or waits for
\* something has a slot or a semaphore to do it with.
TypeOK == RingsOK /\ SemsOK /\ SchedOK /\ ReaderOK /\ ThreadsOK /\ WireOK

Refs(s) == {i \in Slots : lq[i].sem = s}

RefCounts ==
  \A s \in Sems : refs[s] = IF Refs(s) = {} THEN -1 ELSE Cardinality(Refs(s))
SemCount == semaphores = Cardinality({s \in Sems : refs[s] > 0})
\* The reference count of a completion semaphore is the number of slots that
\* point at it, whatever the order in which threads add events and slots are
\* reused: a slot never points at a destroyed semaphore (createSem, unrefSem,
\* addNextQueueElemToProc). dispatcherStart breaks this for a second
\* connection, so it is stated for the first.
SemRefsMatch == session <= 1 => RefCounts /\ SemCount

\* What the code relies on and nowhere tests: the first connection, and no
\* event has been put into a ring without room for it, beside or over one that
\* is still in use (addNextQueueElemToProc).
Orderly == session <= 1 /\ ~lapped

\* The link has neither failed nor been reset.
Serving == link \in {"NONE", "UP"} /\ ~resetX

\* A thread that waits for its event in dispatcherWaitEventComplete waits on
\* the live semaphore that the event will be served with: no other thread's
\* add destroys it under the waiter, nor gives it to another thread.
WaiterKeepsSem ==
  Orderly =>
    \A t \in Threads : thr[t].pc = "wait" /\ thr[t].ev # None =>
      /\ refs[thr[t].sem] > 0 /\ owner[thr[t].sem] = t
      /\ lq[thr[t].ev].sem = thr[t].sem

\* The event the scheduler would take next is one that it has never taken, and
\* the oldest of those: each event is processed once and in the order of the
\* calls (getNextQueueElemToProc, addNextQueueElemToProc).
EachEventOnce ==
  Orderly /\ lcur # lproc =>
    LET i == NextWithState(lq, lproc, "SERVED")
    IN  i \in fresh /\ \A j \in fresh : lq[i].id <= lq[j].id

\* A thread that has a completion semaphore finds a slot for its event:
\* addNextQueueElemToProc, which uses the slot it looks for without a test for
\* NULL, never comes to a full ring. It rests on there being fewer semaphores
\* than slots, and on every slot coming back before its thread calls again.
AddFindsSlot ==
  Orderly =>
    \A t \in Threads : thr[t].pc = "lock" /\ addSem = 1 /\ SemFor(t) # None =>
      NextWithState(lq, lcur, "SERVED") # None

Posting == Cardinality({t \in Threads : thr[t].pc = "post"})
           + (IF reader.pc = "post" THEN 1 ELSE 0)
Waiting(cur, proc) == IF cur >= proc THEN cur - proc ELSE MaxEvents + cur - proc

\* Every event still to process has its notification, given or about to be
\* given, and the drain has one more for its NULL event: the scheduler neither
\* sleeps on a queued event nor wakes up for nothing (dispatcherAddEvent,
\* dispatcherGetNextEvent, dispatcherReset).
NoLostWakeup ==
  Orderly => notify + Posting = Cardinality(fresh) + Waiting(rcur, rproc)
                                + (IF sched.pc = "drain" THEN 1 ELSE 0)

\* A call that really waited returns after its own event was served, and the
\* flags it reads are those of its own event (dispatcherWaitEventComplete,
\* XLinkWriteData's use of ev).
CompletionSound ==
  Orderly /\ Serving =>
    \A t \in Threads : thr[t].pc = "return" /\ thr[t].sem # None =>
      LET i == thr[t].ev IN
      /\ i # None /\ lq[i].id = thr[t].id
      /\ i \notin fresh
      /\ lq[i].st = "SERVED" \/ (sched.pc = "mark" /\ sched.ev = i)

\* Every response of the peer finds its pending request: the assertion in
\* dispatcherResponseServe never fails.
ResponseHasRequest == Orderly => fault # "noRequest"

\* "Duplicate id detected" (XLink.cpp:264-271): two messages in a row never
\* carry the same identifier and type, because every request has an
\* identifier of its own and is sent and answered once.
NoDuplicateId == fault # "duplicateId"

\* XLink.h says of XLinkConnect that it "starts dispatcher and pings remote":
\* when it returns the ping was taken from the ring and served.
ConnectPinged ==
  \A t \in Threads : thr[t].pc = "return" /\ thr[t].type = "CONNECT" =>
    LET i == thr[t].ev
    IN  i # None => /\ i \notin fresh
                    /\ lq[i].st = "SERVED" \/ (sched.pc = "mark" /\ sched.ev = i)

\* An event that was unblocked is handled again: the scheduler looks for it
\* before it waits for a notification (dispatcherGetNextEvent).
ReadyIsHandled ==
  \A i \in Slots : (lq[i].st = "READY") ~> (lq[i].st # "READY")

\* A request that the peer always answers comes back, even while calls of the
\* other threads are blocked on the same link (dispatcherWaitEventComplete).
PingReturns ==
  \A t \in Threads :
    (thr[t].pc = "lock" /\ thr[t].type = "PING") ~> (thr[t].pc = "idle")

\* When the scheduler leaves its loop to reset the link no event is ready, so
\* that the drain of dispatcherReset, which asks for ready events first and
\* never handles them, comes to its NULL event.
DrainFindsNoReady ==
  sched.pc \in {"join", "drain"} => \A i \in Slots : lq[i].st # "READY"

=============================================================================
