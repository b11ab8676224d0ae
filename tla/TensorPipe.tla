------------------------------ MODULE TensorPipe ------------------------------
(* What the first API promises of a graph: a queue of at most two tensors,     *)
(* whose results are returned in the order in which the tensors were loaded,   *)
(* each of them once. When the graph is deleted, or a result is given up or    *)
(* fails, nothing is promised of the tensors in flight.                        *)
EXTENDS Naturals, Sequences

CONSTANTS Tensors, None

VARIABLES
  pipe,     \* tensors that are loaded and whose result was not returned
  result    \* the tensor whose result is in the output buffer

Init == pipe = <<>> /\ result = None

\* A tensor that was not loaded before is loaded after all others.
Load(n) ==
  /\ Len(pipe) < 2
  /\ \A i \in 1..Len(pipe) : pipe[i] # n
  /\ pipe' = Append(pipe, n)
  /\ UNCHANGED result

\* The result of the first tensor is fetched.
Fetch ==
  /\ pipe # <<>>
  /\ result' = Head(pipe)
  /\ UNCHANGED pipe

\* The result of the first tensor is returned.
Return ==
  /\ pipe # <<>> /\ result = Head(pipe)
  /\ pipe' = Tail(pipe)
  /\ UNCHANGED result

\* The output buffer is cleared.
Clear == result' = None /\ UNCHANGED pipe

\* Nothing is known of the graph any more, or it is a new one.
Abandon == pipe' = <<>> /\ result' = None

Next == (\E n \in Tensors : Load(n)) \/ Fetch \/ Return \/ Clear \/ Abandon

Spec == Init /\ [][Next]_<<pipe, result>>

=============================================================================
