-------------------------------- MODULE MCStream --------------------------------
(* Instances of XLinkStream for TLC: a host and a device, and what their       *)
(* threads do.                                                                 *)
EXTENDS XLinkStream, TLC

CONSTANTS host, device, t1, t2

Both == {host, device}

\* What the threads do, the sizes of the ends' buffers, the bounds on each end's
\* calls, and the discipline of the applications.
Use(ops, open, opens, writes, closes, careful) ==
  [ops |-> ops, open |-> open, careful |-> careful,
   calls |-> [p \in Both |-> [OPEN |-> opens, WRITE |-> writes, CLOSE |-> closes]]]

HostOpens == host :> {3} @@ device :> {}
BothOpen == [p \in Both |-> {2}]

Writer == t1 :> {"OPEN", "WRITE", "CLOSE"} @@ t2 :> {}
Reader1 == t1 :> {"LOOKUP", "READ", "REL"} @@ t2 :> {}
Duplex == t1 :> {"OPEN", "WRITE", "CLOSE"} @@ t2 :> {"READ", "REL"}

\* The host opens, writes and closes with one thread, in up to three lives of the
\* stream; the device looks the stream up, reads and releases.
OneWay == Use(host :> Writer @@ device :> Reader1, HostOpens, 3, 5, 3, {"local", "peer"})

\* Both directions, one thread to write and close and one to read on each side.
TwoWay == Use([p \in Both |-> Duplex], BothOpen, 1, 2, 1, {"local", "peer"})

\* The host closes with another thread than the one that writes.
Racing == Use(host :> (t1 :> {"OPEN", "WRITE"} @@ t2 :> {"CLOSE"}) @@ device :> Reader1,
              HostOpens, 1, 3, 1, {})

\* The host writes; the device opens and closes its direction and never writes.
Answering == Use(host :> Writer @@
                 device :> (t1 :> {"OPEN", "CLOSE"} @@ t2 :> {"LOOKUP", "READ", "REL"}),
                 BothOpen, 1, 1, 1, {"local", "peer"})

\* Both directions; an end may open while the other closes.
Crossing == Use([p \in Both |-> Duplex], BothOpen, 2, 3, 2, {"local"})

UseOneWay == {OneWay}
UseTwoWayOrRacing == {TwoWay, Racing}
UseAnswering == {Answering}
UseCrossing == {Crossing}

=============================================================================
