----------------------------- MODULE StreamChannel -----------------------------
(***************************************************************************)
(* What an XLink stream promises: in the direction of each writer a FIFO   *)
(* of packets whose total size never exceeds the buffer that was opened    *)
(* for it. A packet takes room from the moment the writer's end accepts it *)
(* until the reader releases it; a direction is closed only when it is     *)
(* empty.                                                                  *)
(***************************************************************************)
EXTENDS Naturals, Sequences, Totals

CONSTANTS
  Writers,      \* the ends that write
  Sizes,        \* sizes of a packet, in units of the buffer
  MaxPackets    \* packets in flight at most

VARIABLES
  capacity,     \* size of the buffer, 0 when the direction is closed
  queue,        \* sizes of the packets accepted and not yet read
  held          \* sizes of the packets read and not yet released

chan == <<capacity, queue, held>>

Used(w) == Total(queue[w]) + Total(held[w])

Init ==
  /\ capacity = [w \in Writers |-> 0]
  /\ queue = [w \in Writers |-> <<>>] /\ held = [w \in Writers |-> <<>>]

Open(w) ==
  /\ capacity[w] = 0
  /\ capacity'[w] \in Nat \ {0}
  /\ capacity' = [capacity EXCEPT ![w] = capacity'[w]]
  /\ UNCHANGED <<queue, held>>

Write(w, size) ==
  /\ Used(w) + size <= capacity[w]
  /\ Len(queue[w]) + Len(held[w]) < MaxPackets
  /\ queue' = [queue EXCEPT ![w] = Append(@, size)]
  /\ UNCHANGED <<capacity, held>>

Read(w) ==
  /\ queue[w] # <<>>
  /\ queue' = [queue EXCEPT ![w] = Tail(@)]
  /\ held' = [held EXCEPT ![w] = Append(@, Head(queue[w]))]
  /\ UNCHANGED capacity

Release(w) ==
  /\ held[w] # <<>>
  /\ held' = [held EXCEPT ![w] = Tail(@)]
  /\ UNCHANGED <<capacity, queue>>

Close(w) ==
  /\ queue[w] = <<>> /\ held[w] = <<>>
  /\ capacity' = [capacity EXCEPT ![w] = 0]
  /\ UNCHANGED <<queue, held>>

Next ==
  \E w \in Writers :
    \/ Open(w) \/ (\E size \in Sizes : Write(w, size))
    \/ Read(w) \/ Release(w) \/ Close(w)

Spec == Init /\ [][Next]_chan

=============================================================================
