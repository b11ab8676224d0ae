-------------------------------- MODULE MCMvNc --------------------------------
(* Instances of MvNcApi for TLC.                                             *)
EXTENDS MvNcApi, TLC

CONSTANTS t1, t2, t3

Use(a, b, c, failing, late, reuse) ==
  [ops |-> t1 :> a @@ t2 :> b @@ t3 :> c, failing |-> failing, late |-> late,
   reuse |-> reuse]

Others == {"ALLOC", "DEALLOC", "OPTION", "REMOVE", "ADD"}
Serial == {"ALLOC", "LOAD", "GET", "RESET", "DEALLOC"}
Faults == Exchanges \ {"send"}

\* One thread loads, one gets results, one does the rest.
Pipelined == Use({"LOAD"}, {"GET"}, Others, Faults, TRUE, FALSE)
\* One thread makes all calls on graphs, as run_test does.
Sequential == Use(Serial, {}, {"REMOVE", "ADD"}, {"output"}, FALSE, FALSE)
\* The transfer of a tensor may fail: the lock of the device is then kept; and
\* a new graph may have the address of the last one.
Broken == Use({"LOAD"}, {"GET"}, {"ALLOC", "DEALLOC", "REMOVE"}, {"send"}, FALSE, TRUE)

\* The loader is blocked until a result is taken or the graph is gone.
Live == {Use({"LOAD"}, {"GET"}, {"ALLOC", "DEALLOC", "REMOVE"}, {"output"}, FALSE, FALSE)}

AllUses == {Pipelined, Sequential, Broken}

=============================================================================
