------------------------------ MODULE XLinkStream ------------------------------
(***************************************************************************)
(* One stream of an XLink connection between two peers that both run       *)
(* ncsdk2/XLink.cpp: the descriptors of the two ends (streamDesc_t), their *)
(* credits, the packets, the handlers of the requests and of the responses,*)
(* and the application threads that open, write, read, release and close.  *)
(*                                                                         *)
(* The dispatcher is taken as XLinkDispatcher shows it to be: a request    *)
(* is handled once, in the order it was added, unblocked requests first,   *)
(* local ones before the peer's; it is completed by its own response. The  *)
(* size of a ring and of the semaphore pool play no part here.             *)
(***************************************************************************)
EXTENDS Integers, Sequences, FiniteSets, Totals

CONSTANTS
  Peers,        \* the two ends of the link
  Threads,      \* application threads of each peer
  Uses,         \* how the API may be used: each element is a record
                \*   ops[p][t]     the operations of thread t of peer p
                \*   open[p]       sizes that XLinkOpenStream asks for
                \*   calls[p][op]  bound on the opens, writes and closes
                \*   careful       what the applications agree on, see Agreed
  Sizes,        \* sizes of a packet
  MaxPackets,   \* USB_LINK_MAX_PACKETS_PER_STREAM
  None

AllOps == {"OPEN", "WRITE", "READ", "REL", "CLOSE"}

ASSUME StreamAssumption ==
  /\ \E p, q \in Peers : p # q /\ Peers = {p, q}
  /\ \A u \in Uses :
       /\ u.ops \in [Peers -> [Threads -> SUBSET (AllOps \cup {"LOOKUP"})]]
       /\ u.open \in [Peers -> SUBSET (Nat \ {0})]
       /\ u.calls \in [Peers -> [{"OPEN", "WRITE", "CLOSE"} -> Nat]]
       /\ u.careful \subseteq {"local", "peer"}
  /\ Sizes \subseteq Nat \ {0}
  /\ MaxPackets \in Nat \ {0}
  /\ None \notin Int

Other(p) == CHOOSE q \in Peers : q # p

VARIABLES
  usage,    \* the element of Uses that this behaviour follows
  stream,   \* the descriptor: [id, ws, rs, rfill, rpkts, lfill, closing, sem]
  avail,    \* sizes of the packets that were received and not read
  held,     \* sizes of the packets that were read and not released
  nextSid,  \* nextUniqueStreamId
  thr,      \* [pc, op, size, id, block]: a thread and its request
  queue,    \* local requests that were added and not handled yet
  inq,      \* messages of the peer that the reader has queued
  rd,       \* reader: reading, or waiting for the semaphore of the stream
  wire,     \* messages sent by the peer and not read yet
  known,    \* the stream id that each application thread has
  holds,    \* packets that each thread has read and not released
  calls,    \* calls of each operation so far
  fault

data == <<stream, avail, held, nextSid>>
app == <<usage, known, holds, calls>>
vars == <<data, thr, queue, inq, rd, wire, app, fault>>

NoStream == [id |-> None, ws |-> 0, rs |-> 0, rfill |-> 0, rpkts |-> 0,
             lfill |-> 0, closing |-> FALSE, sem |-> 0]
IdleThread == [pc |-> "idle", op |-> "OPEN", size |-> 0, id |-> None,
               block |-> FALSE]
Msg(kind, op, id, size, t) ==
  [kind |-> kind, op |-> op, id |-> id, size |-> size, t |-> t]

-----------------------------------------------------------------------------
(* Application threads. A call adds a request and waits; the thread goes on  *)
(* when the request is completed.                                            *)

Busy(p, ops) == \E u \in Threads : thr[p][u].pc # "idle" /\ thr[p][u].op \in ops

Add(p, t, op, size) ==
  /\ thr' = [thr EXCEPT ![p][t] = [pc |-> "queued", op |-> op, size |-> size,
                                   id |-> known[p][t], block |-> FALSE]]
  /\ queue' = [queue EXCEPT ![p] = Append(@, t)]

Counted(p, op) ==
  /\ op \in DOMAIN usage.calls[p] => calls[p][op] < usage.calls[p][op]
  /\ calls' = [calls EXCEPT ![p][op] = @ + 1]

\* What careful applications agree on. Locally: nobody opens or writes while the
\* stream is being closed, reading goes on. With the peer: no end opens while the other
\* closes, and a reader looks up and reads only what was written, on the stream
\* that it knows.
Unread(p) == calls[p]["READ"] < calls[Other(p)]["WRITE"]
Agreed(p, t, op) ==
  /\ "local" \in usage.careful =>
       /\ op \notin {"READ", "REL"} => ~Busy(p, {"CLOSE"})
       /\ op = "CLOSE" => ~Busy(p, {"OPEN", "WRITE"})
  /\ "peer" \in usage.careful =>
       /\ op = "OPEN" => ~Busy(Other(p), {"CLOSE"})
       /\ op = "CLOSE" => ~Busy(Other(p), {"OPEN"})
       /\ op = "LOOKUP" => ~Busy(Other(p), {"CLOSE"}) \/ Unread(p)
       /\ op = "READ" => Unread(p) /\ known[p][t] = stream[p].id

\* A call on behalf of the application, which has the stream's id.
Calls(p, t, op) ==
  /\ fault = "none" /\ op \in usage.ops[p][t]
  /\ thr[p][t].pc = "idle"
  /\ op \notin {"OPEN", "LOOKUP"} => known[p][t] # None
  /\ Agreed(p, t, op)

\* XLinkOpenStream: with a size it asks the peer for a buffer first, without
\* one it only looks the name up.
CallOpen(p, t) ==
  /\ Calls(p, t, "OPEN") /\ Counted(p, "OPEN")
  /\ \E size \in usage.open[p] : Add(p, t, "OPEN", size)
  /\ UNCHANGED <<usage, data, inq, rd, wire, known, holds, fault>>

CallLookup(p, t) ==
  /\ Calls(p, t, "LOOKUP")
  /\ thr' = [thr EXCEPT ![p][t] = [IdleThread EXCEPT !.pc = "lookup"]]
  /\ UNCHANGED <<data, queue, inq, rd, wire, app, fault>>

CallWrite(p, t) ==
  /\ Calls(p, t, "WRITE") /\ Counted(p, "WRITE")
  /\ \E size \in Sizes : Add(p, t, "WRITE", size)
  /\ UNCHANGED <<usage, data, inq, rd, wire, known, holds, fault>>

CallRead(p, t) ==
  /\ Calls(p, t, "READ") /\ holds[p][t] = 0 /\ Counted(p, "READ")
  /\ Add(p, t, "READ", 0)
  /\ UNCHANGED <<usage, data, inq, rd, wire, known, holds, fault>>

\* XLinkReleaseData, "called after ReadData": the thread has read a packet.
CallRelease(p, t) ==
  /\ Calls(p, t, "REL") /\ holds[p][t] > 0
  /\ Add(p, t, "REL", 0)
  /\ holds' = [holds EXCEPT ![p][t] = @ - 1]
  /\ UNCHANGED <<usage, data, inq, rd, wire, known, calls, fault>>

\* A careful thread forgets the id of a stream that it closes.
CallClose(p, t) ==
  /\ Calls(p, t, "CLOSE") /\ Counted(p, "CLOSE")
  /\ Add(p, t, "CLOSE", 0)
  /\ known' = [known EXCEPT ![p][t] = IF "local" \in usage.careful THEN None ELSE @]
  /\ UNCHANGED <<usage, data, inq, rd, wire, holds, fault>>

\* getStreamIdByName: find the stream, wait for its semaphore, read its id. The
\* threads of an application share it.
Share(p, id) == known' = [known EXCEPT ![p] = [t \in Threads |-> id]]
Lookup(p, t) ==
  /\ fault = "none" /\ thr[p][t].pc = "lookup"
  /\ IF stream[p].id = None
     THEN /\ thr' = [thr EXCEPT ![p][t] = IdleThread]
          /\ Share(p, None)
     ELSE /\ thr' = [thr EXCEPT ![p][t].pc = "locking"]
          /\ UNCHANGED known
  /\ UNCHANGED <<usage, data, queue, inq, rd, wire, holds, calls, fault>>

LookupLock(p, t) ==
  /\ fault = "none" /\ thr[p][t].pc = "locking"
  /\ stream[p].sem = 1
  /\ thr' = [thr EXCEPT ![p][t] = IdleThread]
  /\ Share(p, stream[p].id)
  /\ UNCHANGED <<usage, data, queue, inq, rd, wire, holds, calls, fault>>

Application(p, t) ==
  \/ CallOpen(p, t) \/ CallLookup(p, t) \/ CallWrite(p, t) \/ CallRead(p, t)
  \/ CallRelease(p, t) \/ CallClose(p, t) \/ Lookup(p, t) \/ LookupLock(p, t)

-----------------------------------------------------------------------------
(* Descriptors.                                                              *)

\* getStreamById: the stream has the id and its semaphore is free. When no
\* stream has the id the handlers abort (NotFound).
Locks(p, id) == stream[p].id = id /\ id # None /\ stream[p].sem = 1
NotFound(p, id) == id = None \/ stream[p].id # id

\* Mutant of SpaceFor: the bytes are not counted.
SpaceForPackets(s, size) == s.rpkts < MaxPackets

\* isStreamSpaceEnoughFor.
SpaceFor(s, size) == s.rpkts < MaxPackets /\ s.rfill + size <= s.ws

\* Mutants of Allocate: an existing stream is released without having been
\* waited for; a new one is not released.
AllocateUnlocked(p, ws, rs, forced) ==
  LET s == stream[p]
      new == [NoStream EXCEPT !.id = IF forced = None THEN nextSid[p] ELSE forced,
                !.ws = ws, !.rs = rs]
      old == [s EXCEPT !.rs = IF @ = 0 THEN rs ELSE @,
                       !.ws = IF @ = 0 THEN ws ELSE @]
  IN
  /\ stream' = [stream EXCEPT ![p] = [(IF s.id = None THEN new ELSE old) EXCEPT
                                       !.sem = s.sem + 1]]
  /\ nextSid' = [nextSid EXCEPT ![p] = IF s.id = None THEN @ + 1 ELSE @]
AllocateLocked(p, ws, rs, forced) ==
  LET s == stream[p]
      new == [NoStream EXCEPT !.id = IF forced = None THEN nextSid[p] ELSE forced,
                !.ws = ws, !.rs = rs]
  IN
  /\ s.id = None
  /\ stream' = [stream EXCEPT ![p] = new]
  /\ nextSid' = [nextSid EXCEPT ![p] = @ + 1]

\* allocateNewStream. A stream of that name whose buffer is too small is left
\* locked, and the id is invalid; otherwise a missing size is filled in.
Allocate(p, ws, rs, forced) ==
  LET s == stream[p]
      new == [NoStream EXCEPT !.id = IF forced = None THEN nextSid[p] ELSE forced,
                !.ws = ws, !.rs = rs, !.sem = s.sem + 1]
      small == (s.ws # 0 /\ ws > s.ws) \/ (s.rs # 0 /\ rs > s.rs)
  IN
  IF s.id = None
  THEN /\ stream' = [stream EXCEPT ![p] = new]
       /\ nextSid' = [nextSid EXCEPT ![p] = @ + 1]
  ELSE /\ s.sem = 1
       /\ stream' = [stream EXCEPT ![p] =
            IF small THEN [s EXCEPT !.sem = 0]
            ELSE [s EXCEPT !.rs = IF @ = 0 THEN rs ELSE @,
                           !.ws = IF @ = 0 THEN ws ELSE @]]
       /\ UNCHANGED nextSid

\* The id that allocateNewStream returns.
AllocatedId(p) == IF stream'[p].sem = 1 THEN stream'[p].id ELSE None

-----------------------------------------------------------------------------
(* The scheduler: local requests (dispatcherLocalEventGetResponse and        *)
(* dispatcherRequestServe).                                                  *)

Ready(p) == {t \in Threads : thr[p][t].pc = "ready"}

\* The next event is a request of thread t: one that was unblocked, or else
\* the oldest one.
Turn(p, t, op) ==
  /\ fault = "none"
  /\ thr[p][t].op = op
  /\ IF Ready(p) # {} THEN t \in Ready(p) /\ UNCHANGED queue
     ELSE /\ queue[p] # <<>> /\ t = Head(queue[p])
          /\ queue' = [queue EXCEPT ![p] = Tail(@)]
  /\ UNCHANGED <<usage, inq, rd, known, calls>>

Found(p, t) == Locks(p, thr[p][t].id) /\ UNCHANGED fault

Pending(p, t, size) ==
  /\ thr' = [thr EXCEPT ![p][t].pc = "pending", ![p][t].block = FALSE]
  /\ wire' = [wire EXCEPT ![p] =
       Append(@, Msg("req", thr[p][t].op, thr[p][t].id, size, t))]
Blocked(p, t) ==
  thr' = [thr EXCEPT ![p][t].pc = "blocked", ![p][t].block = TRUE]
Done(p, t) == thr' = [thr EXCEPT ![p][t] = IdleThread]

\* The peer chooses the id of a new stream.
LocalCreate(p, t) ==
  /\ Turn(p, t, "OPEN")
  /\ thr' = [thr EXCEPT ![p][t].pc = "pending"]
  /\ wire' = [wire EXCEPT ![p] =
       Append(@, Msg("req", "OPEN", None, thr[p][t].size, t))]
  /\ UNCHANGED <<data, holds, fault>>

\* ASSERT_X_LINK(stream) in the handlers of a write, a read, a release and a
\* close.
LocalNotFound(p, t) ==
  /\ \E op \in AllOps \ {"OPEN"} : Turn(p, t, op)
  /\ NotFound(p, thr[p][t].id)
  /\ fault' = "noStream"
  /\ UNCHANGED <<data, thr, wire, holds>>

\* Mutant of LocalWrite: the packet is not counted.
LocalWriteUncounted(p, t) ==
  LET s == stream[p]
      size == thr[p][t].size
  IN
  /\ Turn(p, t, "WRITE") /\ Found(p, t)
  /\ IF SpaceFor(s, size)
     THEN /\ stream' = [stream EXCEPT ![p].rfill = @ + size]
          /\ Pending(p, t, size)
     ELSE Blocked(p, t) /\ UNCHANGED <<stream, wire>>
  /\ UNCHANGED <<avail, held, nextSid, holds>>

\* A write on a stream closed for writing is refused; but if it was blocked
\* before, its block flag is still set and it is blocked again.
LocalWrite(p, t) ==
  LET s == stream[p]
      size == thr[p][t].size
  IN
  /\ Turn(p, t, "WRITE") /\ Found(p, t)
  /\ \/ /\ s.ws = 0
        /\ IF thr[p][t].block THEN Blocked(p, t) ELSE Done(p, t)
        /\ UNCHANGED <<stream, wire>>
     \/ /\ s.ws # 0 /\ ~SpaceFor(s, size)
        /\ Blocked(p, t)
        /\ UNCHANGED <<stream, wire>>
     \/ /\ s.ws # 0 /\ SpaceFor(s, size)
        /\ stream' = [stream EXCEPT ![p].rfill = @ + size, ![p].rpkts = @ + 1]
        /\ Pending(p, t, size)
  /\ UNCHANGED <<avail, held, nextSid, holds>>

LocalRead(p, t) ==
  /\ Turn(p, t, "READ") /\ Found(p, t)
  /\ IF avail[p] = <<>>
     THEN Blocked(p, t) /\ UNCHANGED <<avail, held, holds>>
     ELSE /\ avail' = [avail EXCEPT ![p] = Tail(@)]
          /\ held' = [held EXCEPT ![p] = Append(@, Head(avail[p]))]
          /\ holds' = [holds EXCEPT ![p][t] = @ + 1]
          /\ Done(p, t)
  /\ UNCHANGED <<stream, nextSid, wire>>

\* Mutant of LocalRelease: localFillLevel is not reduced.
LocalReleaseKept(p, t) ==
  /\ Turn(p, t, "REL") /\ Found(p, t)
  /\ held[p] # <<>>
  /\ held' = [held EXCEPT ![p] = Tail(@)]
  /\ Pending(p, t, Head(held[p]))
  /\ UNCHANGED <<stream, avail, nextSid, holds>>

\* releasePacketFromStream frees the oldest packet, whoever read it.
LocalRelease(p, t) ==
  /\ Turn(p, t, "REL") /\ Found(p, t)
  /\ held[p] # <<>>
  /\ stream' = [stream EXCEPT ![p].lfill = @ - Head(held[p])]
  /\ held' = [held EXCEPT ![p] = Tail(@)]
  /\ Pending(p, t, Head(held[p]))
  /\ UNCHANGED <<avail, nextSid, holds>>

\* Mutant of LocalClose: it does not wait for the peer.
LocalCloseAtOnce(p, t) ==
  /\ Turn(p, t, "CLOSE") /\ Found(p, t)
  /\ Pending(p, t, 0)
  /\ UNCHANGED <<stream, avail, held, nextSid, holds>>

\* A close waits until the peer has released everything.
LocalClose(p, t) ==
  /\ Turn(p, t, "CLOSE") /\ Found(p, t)
  /\ IF stream[p].rfill # 0
     THEN /\ stream' = [stream EXCEPT ![p].closing = TRUE]
          /\ Blocked(p, t)
          /\ UNCHANGED wire
     ELSE Pending(p, t, 0) /\ UNCHANGED stream
  /\ UNCHANGED <<avail, held, nextSid, holds>>

LocalRequest(p, t) ==
  \/ LocalCreate(p, t) \/ LocalNotFound(p, t) \/ LocalWrite(p, t)
  \/ LocalRead(p, t) \/ LocalRelease(p, t) \/ LocalClose(p, t)

-----------------------------------------------------------------------------
(* The scheduler: messages of the peer (dispatcherRemoteEventGetResponse and *)
(* dispatcherResponseServe).                                                 *)

\* The next event is the peer's message m: no local one waits.
Incoming(p, kind, op) ==
  /\ fault = "none"
  /\ Ready(p) = {} /\ queue[p] = <<>>
  /\ inq[p] # <<>> /\ Head(inq[p]).kind = kind /\ Head(inq[p]).op = op
  /\ inq' = [inq EXCEPT ![p] = Tail(@)]
  /\ UNCHANGED <<avail, held, queue, rd, app>>

Respond(p, m) == wire' = [wire EXCEPT ![p] = Append(@, [m EXCEPT !.kind = "resp"])]

BlockedOn(p, op, id) ==
  {t \in Threads : thr[p][t].pc = "blocked" /\ thr[p][t].op = op /\ thr[p][t].id = id}

\* dispatcherUnblockEvent for each of ops: one request of the type, if any.
Unblock(p, ops, id) ==
  LET wakes(t) == thr[p][t].op \in ops /\ t \in BlockedOn(p, thr[p][t].op, id)
      woken == {t \in Threads : wakes(t)}
  IN
  \E chosen \in SUBSET woken :
    /\ \A op \in ops : Cardinality({t \in chosen : thr[p][t].op = op}) =
         (IF BlockedOn(p, op, id) = {} THEN 0 ELSE 1)
    /\ thr' = [thr EXCEPT ![p] = [t \in Threads |->
                 IF t \in chosen THEN [@[t] EXCEPT !.pc = "ready"] ELSE @[t]]]

RemoteWrite(p) ==
  LET m == Head(inq[p])
  IN
  /\ Incoming(p, "req", "WRITE")
  /\ Unblock(p, {"READ"}, m.id)
  /\ Respond(p, m)
  /\ UNCHANGED <<stream, nextSid, fault>>

\* Mutants of RemoteRelease: no write goes on; no close goes on.
RemoteReleaseNoWrite(p) ==
  LET m == Head(inq[p])
      s == stream[p]
  IN
  /\ Incoming(p, "req", "REL")
  /\ Locks(p, m.id)
  /\ stream' = [stream EXCEPT ![p].rfill = @ - m.size, ![p].rpkts = @ - 1]
  /\ Unblock(p, IF s.closing /\ s.lfill = 0 THEN {"CLOSE"} ELSE {}, m.id)
  /\ Respond(p, m)
  /\ UNCHANGED <<nextSid, fault>>
RemoteReleaseNoClose(p) ==
  LET m == Head(inq[p])
      s == stream[p]
  IN
  /\ Incoming(p, "req", "REL")
  /\ Locks(p, m.id)
  /\ stream' = [stream EXCEPT ![p].rfill = @ - m.size, ![p].rpkts = @ - 1]
  /\ Unblock(p, {"WRITE"}, m.id)
  /\ Respond(p, m)
  /\ UNCHANGED <<nextSid, fault>>

\* The peer has released a packet: a write may go on, and a close if nothing
\* is left on this side either.
RemoteRelease(p) ==
  LET m == Head(inq[p])
      s == stream[p]
  IN
  /\ Incoming(p, "req", "REL")
  /\ Locks(p, m.id)
  /\ stream' = [stream EXCEPT ![p].rfill = @ - m.size, ![p].rpkts = @ - 1]
  /\ Unblock(p, IF s.closing /\ s.lfill = 0 THEN {"WRITE", "CLOSE"} ELSE {"WRITE"},
             m.id)
  /\ Respond(p, m)
  /\ UNCHANGED <<nextSid, fault>>

RemoteReleaseNotFound(p) ==
  /\ Incoming(p, "req", "REL")
  /\ NotFound(p, Head(inq[p]).id)
  /\ fault' = "noStream"
  /\ UNCHANGED <<stream, nextSid, thr, wire>>

\* The peer's write size is this side's read size.
RemoteCreate(p) ==
  LET m == Head(inq[p])
  IN
  /\ Incoming(p, "req", "OPEN")
  /\ Allocate(p, 0, m.size, None)
  /\ Respond(p, [m EXCEPT !.id = AllocatedId(p)])
  /\ UNCHANGED <<thr, fault>>

\* Mutants of RemoteClose: the data that is left is not looked at; the read size
\* is not reset.
RemoteCloseAny(p) ==
  LET m == Head(inq[p])
      s == stream[p]
  IN
  /\ Incoming(p, "req", "CLOSE")
  /\ \/ NotFound(p, m.id) /\ UNCHANGED stream
     \/ /\ Locks(p, m.id)
        /\ stream' = [stream EXCEPT ![p] =
             IF s.ws = 0 THEN [s EXCEPT !.rs = 0, !.id = None, !.sem = 0]
                         ELSE [s EXCEPT !.rs = 0]]
  /\ Respond(p, m)
  /\ UNCHANGED <<nextSid, thr, fault>>
RemoteCloseKept(p) ==
  LET m == Head(inq[p])
      s == stream[p]
  IN
  /\ Incoming(p, "req", "CLOSE")
  /\ \/ NotFound(p, m.id) /\ UNCHANGED stream
     \/ /\ Locks(p, m.id)
        /\ stream' = [stream EXCEPT ![p] =
             IF s.lfill # 0 THEN [s EXCEPT !.closing = TRUE] ELSE s]
  /\ Respond(p, m)
  /\ UNCHANGED <<nextSid, thr, fault>>

\* The peer closes: with data left this side only notes it and nacks;
\* otherwise the read side is freed (deallocateStream), and the whole stream
\* when it is not open for writing, its semaphore staying taken.
RemoteClose(p) ==
  LET m == Head(inq[p])
      s == stream[p]
      freed == IF s.rs # 0 THEN [s EXCEPT !.rs = 0, !.closing = FALSE] ELSE s
      gone == [freed EXCEPT !.id = None, !.sem = 0]
  IN
  /\ Incoming(p, "req", "CLOSE")
  /\ \/ NotFound(p, m.id) /\ UNCHANGED stream
     \/ /\ Locks(p, m.id)
        /\ stream' = [stream EXCEPT ![p] =
             IF s.lfill # 0 THEN [s EXCEPT !.closing = TRUE]
             ELSE IF s.ws = 0 THEN gone ELSE freed]
  /\ Respond(p, m)
  /\ UNCHANGED <<nextSid, thr, fault>>

\* The response completes the request that waits for it.
ResponseDone(p) == Done(p, Head(inq[p]).t) /\ UNCHANGED <<wire, fault>>

Response(p) ==
  /\ \E op \in {"WRITE", "REL"} : Incoming(p, "resp", op)
  /\ ResponseDone(p)
  /\ UNCHANGED <<stream, nextSid>>

\* The stream gets the id that the peer gave it; XLinkOpenStream then looks
\* the name up.
ResponseCreate(p) ==
  LET m == Head(inq[p])
  IN
  /\ Incoming(p, "resp", "OPEN")
  /\ Allocate(p, m.size, 0, m.id)
  /\ thr' = [thr EXCEPT ![p][m.t].pc = "lookup"]
  /\ UNCHANGED <<wire, fault>>

\* Closed for writing, whether the peer agreed or not; gone when it is not open
\* for reading either.
ResponseClose(p) ==
  LET m == Head(inq[p])
      s == [stream[p] EXCEPT !.ws = 0]
  IN
  /\ Incoming(p, "resp", "CLOSE")
  /\ \/ NotFound(p, m.id) /\ UNCHANGED stream
     \/ /\ Locks(p, m.id)
        /\ stream' = [stream EXCEPT ![p] =
             IF s.rs = 0 THEN [s EXCEPT !.id = None, !.sem = 0] ELSE s]
  /\ ResponseDone(p)
  /\ UNCHANGED nextSid

RemoteEvent(p) ==
  \/ RemoteWrite(p) \/ RemoteRelease(p) \/ RemoteReleaseNotFound(p)
  \/ RemoteCreate(p) \/ RemoteClose(p) \/ Response(p) \/ ResponseCreate(p)
  \/ ResponseClose(p)

Scheduler(p) == (\E t \in Threads : LocalRequest(p, t)) \/ RemoteEvent(p)

-----------------------------------------------------------------------------
(* The reader: dispatcherEventReceive and handleIncomingEvent.               *)

Queues(p, m) ==
  /\ wire' = [wire EXCEPT ![Other(p)] = Tail(@)]
  /\ inq' = [inq EXCEPT ![p] = Append(@, m)]

\* Every message becomes a remote event; for the data of a write the reader
\* looks the stream up first, and aborts without one.
Receive(p) ==
  LET m == Head(wire[Other(p)])
  IN
  /\ fault = "none"
  /\ rd[p] = "read" /\ wire[Other(p)] # <<>>
  /\ IF m.kind = "req" /\ m.op = "WRITE"
     THEN /\ IF NotFound(p, m.id) THEN fault' = "noStream" /\ UNCHANGED rd
             ELSE rd' = [rd EXCEPT ![p] = "locking"] /\ UNCHANGED fault
          /\ UNCHANGED <<wire, inq>>
     ELSE Queues(p, m) /\ UNCHANGED <<rd, fault>>
  /\ UNCHANGED <<data, thr, queue, app>>

\* With the semaphore of the stream: addNewPacketToStream drops the packet
\* when the packet ring is full, and nobody is told.
ReceiveData(p) ==
  LET m == Head(wire[Other(p)])
  IN
  /\ fault = "none"
  /\ rd[p] = "locking" /\ stream[p].sem = 1
  /\ stream' = [stream EXCEPT ![p].lfill = @ + m.size]
  /\ avail' = [avail EXCEPT ![p] =
       IF Len(avail[p]) + Len(held[p]) < MaxPackets THEN Append(@, m.size) ELSE @]
  /\ rd' = [rd EXCEPT ![p] = "read"]
  /\ Queues(p, m)
  /\ UNCHANGED <<held, nextSid, thr, queue, app, fault>>

Reader(p) == Receive(p) \/ ReceiveData(p)

-----------------------------------------------------------------------------

Init ==
  /\ usage \in Uses
  /\ stream = [p \in Peers |-> NoStream]
  /\ avail = [p \in Peers |-> <<>>] /\ held = [p \in Peers |-> <<>>]
  /\ nextSid = [p \in Peers |-> 0]
  /\ thr = [p \in Peers |-> [t \in Threads |-> IdleThread]]
  /\ queue = [p \in Peers |-> <<>>] /\ inq = [p \in Peers |-> <<>>]
  /\ rd = [p \in Peers |-> "read"]
  /\ wire = [p \in Peers |-> <<>>]
  /\ known = [p \in Peers |-> [t \in Threads |-> None]]
  /\ holds = [p \in Peers |-> [t \in Threads |-> 0]]
  /\ calls = [p \in Peers |-> [op \in AllOps |-> 0]]
  /\ fault = "none"

Next ==
  \E p \in Peers :
    (\E t \in Threads : Application(p, t)) \/ Scheduler(p) \/ Reader(p)

Spec == Init /\ [][Next]_vars

\* The peers' threads run, and what the application must do for the stream to
\* move: a thread that reads finds the stream, keeps reading and releases what
\* it has read.
FairSpec ==
  /\ Spec
  /\ \A p \in Peers :
       /\ WF_vars(Scheduler(p)) /\ WF_vars(Reader(p))
       /\ \A t \in Threads :
            /\ WF_vars(Lookup(p, t) \/ LookupLock(p, t))
            /\ WF_vars(known[p][t] # stream[p].id /\ CallLookup(p, t))
            /\ SF_vars(CallRead(p, t) \/ CallRelease(p, t))

-----------------------------------------------------------------------------
(* Properties.                                                               *)

Ids == Nat \cup {None}
Messages == [kind : {"req", "resp"}, op : AllOps, id : Ids, size : Nat, t : Threads]

\* Type invariant of the two descriptors (XLinkPrivateDefines.h:61-82), the
\* requests and the messages; a fill level that would be stored negative, and
\* wrap around as an unsigned number, is not in Nat.
TypeOK ==
  /\ usage \in Uses
  /\ stream \in [Peers -> [id : Ids, ws : Nat, rs : Nat, rfill : Nat, rpkts : Nat,
                           lfill : Nat, closing : BOOLEAN, sem : {0, 1}]]
  /\ avail \in [Peers -> Seq(Nat)] /\ held \in [Peers -> Seq(Nat)]
  /\ nextSid \in [Peers -> Nat]
  /\ thr \in [Peers -> [Threads ->
       [pc : {"idle", "queued", "ready", "blocked", "pending", "lookup", "locking"},
        op : AllOps, size : Nat, id : Ids, block : BOOLEAN]]]
  /\ queue \in [Peers -> Seq(Threads)]
  /\ inq \in [Peers -> Seq(Messages)] /\ wire \in [Peers -> Seq(Messages)]
  /\ rd \in [Peers -> {"read", "locking"}]
  /\ known \in [Peers -> [Threads -> Ids]]
  /\ holds \in [Peers -> [Threads -> Nat]] /\ calls \in [Peers -> [AllOps -> Nat]]
  /\ fault \in {"none", "noStream"}

\* The sizes of the requests of a type among messages: partial[n] has those of the
\* first n.
Partial(msgs, op) ==
  LET partial[n \in 0 .. Len(msgs)] ==
        IF n = 0 THEN <<>>
        ELSE IF msgs[n].kind = "req" /\ msgs[n].op = op
             THEN Append(partial[n - 1], msgs[n].size) ELSE partial[n - 1]
  IN partial
Requests(msgs, op) == Partial(msgs, op)[Len(msgs)]

\* The messages of p that its peer has not handled yet, in their order.
Line(p) == inq[Other(p)] \o wire[p]

\* The writer's credit is exact: what it believes the peer's buffer to hold is
\* what is there, plus the data on its way, plus the releases on their way
\* back, in bytes and in packets. No interleaving of the reader thread with the
\* scheduler on either side loses or invents credit (isStreamSpaceEnoughFor,
\* handleIncomingEvent, the release handlers).
CreditExact ==
  fault = "none" => \A p \in Peers : LET q == Other(p) IN
    /\ stream[p].rfill = stream[q].lfill + Total(Requests(wire[p], "WRITE"))
                         + Total(Requests(Line(q), "REL"))
    /\ stream[p].rpkts = Len(avail[q]) + Len(held[q])
                         + Len(Requests(wire[p], "WRITE"))
                         + Len(Requests(Line(q), "REL"))

\* The fill level of an end is the size of the packets it keeps
\* (localFillLevel against availablePackets and blockedPackets).
LevelExact ==
  \A p \in Peers : stream[p].lfill = Total(avail[p]) + Total(held[p])

\* No handler looks for a stream that is gone: ASSERT_X_LINK(stream) never
\* fails for threads that use no stream that is being closed.
StreamFound == fault # "noStream"

\* A stream in use is not left locked between two steps: whoever calls
\* getStreamById next gets it (releaseStream on every path). allocateNewStream keeps
\* a stream that is opened again with a larger size; the property is about ends
\* that open with one size.
OneSize == \A p \in Peers : \A x, y \in usage.open[p] : x = y
SemReturned ==
  OneSize => \A p \in Peers : stream[p].id # None => stream[p].sem = 1

\* What was received is not lost: an end that a close has freed keeps no packet
\* that nobody read or released, whatever write raced with the close
\* (handleIncomingEvent in the reader against dispatcherRemoteEventGetResponse
\* in the scheduler).
FreedIsEmpty ==
  \A p \in Peers : stream[p].rs = 0 => avail[p] = <<>> /\ held[p] = <<>>

\* No open and no close is in progress.
Quiet ==
  \A p \in Peers :
    /\ \A t \in Threads : thr[p][t].op \in {"OPEN", "CLOSE"} =>
                            thr[p][t].pc \in {"idle", "lookup", "locking"}

\* While no open and no close is in progress the two ends agree: the write
\* size of one is the read size of the other, and an open stream has the same
\* id at both (nextUniqueStreamId is kept aligned without being exchanged). For
\* applications that do not write to a stream that they are closing.
EndsAgree ==
  usage.careful # {} /\ Quiet =>
    \A p \in Peers : LET q == Other(p) IN
      /\ stream[p].ws = stream[q].rs
      /\ stream[p].ws # 0 => stream[p].id = stream[q].id

\* The stream as StreamChannel promises it: in the direction of a writer, data
\* on the wire has been accepted and is not read yet.
Channel ==
  INSTANCE StreamChannel WITH
    Writers <- Peers,
    capacity <- [p \in Peers |-> stream[p].ws],
    queue <- [p \in Peers |->
                avail[Other(p)] \o Requests(wire[p], "WRITE")],
    held <- [p \in Peers |-> held[Other(p)]]

\* Each direction of a stream is a bounded FIFO: the receiver's buffer never
\* overflows, no packet is dropped or overtakes another, and a direction closes
\* only when it is empty (addNewPacketToStream, isStreamSpaceEnoughFor, the
\* handlers of a close): every step is one of StreamChannel, for applications
\* that do not write to a stream that they are closing.
IsChannel ==
  Channel!Init /\ []["local" \in usage.careful => Channel!Next]_(Channel!chan)

\* A write returns, as long as the peer reads and releases.
WriteReturns ==
  \A p \in Peers, t \in Threads :
    (thr[p][t].pc = "queued" /\ thr[p][t].op = "WRITE")
      ~> (thr[p][t].pc = "idle" \/ fault # "none")

\* A close returns, as long as the peer reads and releases: "Stream will be
\* deallocated when all pending data has been released" (XLink.h:44).
CloseReturns ==
  \A p \in Peers, t \in Threads :
    (thr[p][t].pc = "queued" /\ thr[p][t].op = "CLOSE")
      ~> (thr[p][t].pc = "idle" \/ fault # "none")

=============================================================================
