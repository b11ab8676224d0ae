------------------------------ MODULE MCNcApi2 ------------------------------
(* Instances of NcApi2 for TLC.                                              *)
EXTENDS NcApi2, TLC

CONSTANTS t1, t2, t3, g1, g2, in, mid, out

NoCall == [op |-> "NONE", g |-> None, f |-> None, o |-> None]
C(op) == [NoCall EXCEPT !.op = op]
OnGraph(op, g) == [C(op) EXCEPT !.g = g]
OnFifo(op, f) == [C(op) EXCEPT !.f = f]
Queue(g, f, o) == [op |-> "QUEUE", g |-> g, f |-> f, o |-> o]
Calls(a, b, c) == t1 :> a @@ t2 :> b @@ t3 :> c

Cube(h, w, c) == [h |-> h, w |-> w, c |-> c]
All(td) == [f \in Fifos |-> td]
One == <<0, 127 * 2^23>>
Unit(x) == [p \in Positions(Cube(1, 1, 1)) |-> x]

Ready == [graphs |-> <<g1, g2>>, fifos |-> <<in, mid, out>>, open |-> TRUE]
Created == [graphs |-> <<>>, fifos |-> <<>>, open |-> FALSE]

Base == [calls |-> Calls({}, {}, {}), failing |-> {}, ready |-> Ready,
         type |-> (in :> "WO" @@ mid :> "RO" @@ out :> "RO"), consumers |-> 1,
         desc |-> All(Dense("CHW", Cube(1, 1, 1), "FP16")), descs |-> {},
         tensors |-> [FP16 |-> {Unit(float2half(One))}, FP32 |-> {Unit(One)}], writes |-> 2]

-----------------------------------------------------------------------------
\* One thread writes, one triggers, one reads; their transfers may fail.
Serving ==
  [Base EXCEPT !.calls = Calls({OnFifo("WRITE", in)},
                               {Queue(g1, in, out)}, {OnFifo("READ", out)}),
               !.failing = {<<"WRITE", "write">>, <<"READ", "read">>},
               !.writes = 3]

\* The output of the first graph is the input of the second.
Chain ==
  [Base EXCEPT !.calls = Calls({OnFifo("WRITE", in)},
                               {Queue(g1, in, mid), Queue(g2, mid, out)},
                               {OnFifo("READ", out)})]

\* Arguments are refused, and the read of the element between the graphs fails.
Refused ==
  [Chain EXCEPT !.failing = {<<"WRITE", "length">>, <<"QUEUE", "shape">>,
                             <<"QUEUE", "drain">>, <<"READ", "length">>},
                !.writes = 1]

\* Two consumers of each element: two graphs, and two reads.
Shared ==
  [Base EXCEPT !.calls = Calls({OnFifo("WRITE", in)},
                               {Queue(g1, in, out), Queue(g2, in, mid)},
                               {OnFifo("READ", out), OnFifo("READ", mid)}),
               !.consumers = 2]

-----------------------------------------------------------------------------
\* One thread has the device, one the graphs, one the fifos.
Owners(device, gs, fs) ==
  Calls(device, {OnGraph(op, g) : op \in {"GALLOC", "GDESTROY"}, g \in gs},
        {OnFifo(op, f) : op \in {"FALLOC", "FDESTROY"}, f \in fs})

Lives ==
  [Base EXCEPT !.calls = [Owners({C("OPEN"), C("CLOSE")}, Graphs, {in})
                                 EXCEPT ![t3] = @ \cup {OnFifo("FALLOC", out)}],
               !.ready = Created,
               !.failing = {<<"OPEN", "boot">>, <<"GALLOC", "open">>, <<"GALLOC", "refuse">>,
                            <<"FDESTROY", "write">>, <<"FDESTROY", "refuse">>}]

\* The device is destroyed while open; a graph is asked for its state meanwhile.
Once ==
  [Lives EXCEPT !.calls = Owners({C("DESTROY"), OnGraph("STATE", g2)}, {g1}, {in, out}),
                !.ready = [Ready EXCEPT !.graphs = <<g2>>, !.fifos = <<>>]]

\* Two threads have a fifo each, of one list; an allocation fails after the link and
\* is repeated.
Repeated ==
  [Lives EXCEPT !.calls = Calls({}, {OnFifo(op, in) : op \in {"FALLOC", "FDESTROY"}},
                                {OnFifo(op, mid) : op \in {"FALLOC", "FDESTROY"}}),
                !.ready = [Ready EXCEPT !.graphs = <<>>, !.fifos = <<in>>],
                !.failing = {<<"FALLOC", "send">>}]

\* Elements move while other objects come and go, and exchanges fail.
Failing ==
  [Base EXCEPT !.calls = Calls({OnFifo("WRITE", in), Queue(g1, in, out)},
                               {OnGraph("STATE", g1)},
                               {OnFifo("FALLOC", mid), OnFifo("FDESTROY", mid)}),
               !.ready = [Ready EXCEPT !.graphs = <<g1>>, !.fifos = <<in, out>>],
               !.failing = ({"FALLOC", "FDESTROY", "QUEUE", "STATE"}
                              \X {"open", "send", "check", "refuse"}),
               !.writes = 1]

\* The exits that keep a mutex.
Kept ==
  [Lives EXCEPT !.calls = Owners({C("OPEN"), OnGraph("STATE", g1)}, {g1}, {in}),
                !.failing = (Keeping \ {<<"OPEN", "android">>, <<"OPEN", "connect">>})
                              \cup {<<"GALLOC", "data">>, <<"GALLOC", "check">>}]
KeptGlobal == [Lives EXCEPT !.failing = {<<"OPEN", "android">>, <<"OPEN", "connect">>}]

-----------------------------------------------------------------------------
\* One thread sets up fifos and sends a tensor through a graph.
Formats(setup, inDesc, outDesc, descs, tensors) ==
  [Base EXCEPT !.calls = Calls(setup \cup {OnFifo("WRITE", in), Queue(g1, in, out),
                                            OnFifo("READ", out)}, {}, {}),
               !.ready = [Ready EXCEPT !.fifos =
                            IF OnFifo("FALLOC", out) \in setup THEN <<>> ELSE <<out>>],
               !.desc = (in :> inDesc @@ mid :> inDesc @@ out :> outDesc),
               !.descs = descs, !.tensors = tensors, !.writes = 1]

\* The numbers of the tensor differ.
Small(p) == <<0, 15360 + 4 * p[1] + 2 * p[2] + p[3]>>
Layered(dim, inLayout, outLayout, hosts, wrong) ==
  LET halves == [p \in Positions(dim) |-> Small(p)]
  IN Formats({OnFifo(op, f) : op \in {"SETDESC", "FALLOC"}, f \in {in, out}},
             Dense(inLayout, dim, "FP16"), Dense(outLayout, dim, "FP16"),
             {Dense(l, dim, type) : l \in hosts, type \in DataTypes} \cup wrong,
             [FP16 |-> {halves}, FP32 |-> {[p \in Positions(dim) |-> half2float(halves[p])]}])
Cubic == Dense("HWC", Cube(2, 2, 2), "FP16")
Padded == [Cubic EXCEPT !.stride.h = @ + 2, !.totalSize = @ + 4]
Wrong == {Padded, [Padded EXCEPT !.totalSize = 0], Dense("HWC", Cube(1, 1, 1), "FP16")}

\* Numbers at the edges of rounding.
Edges == {0, 1, 2, 3, 511, 512, 513, 1022, 1023, 1024, 1025, 2046, 2047, 2048, 15359, 15360,
          16383, 30719, 30720, 31742, 31743}
Floats == {half2float(<<0, h>>)[2] : h \in Edges} \cup {Halfway(h) : h \in Edges}
            \cup {Halfway(h) - 1 : h \in Edges}
            \cup {FloatInf, FloatInf + 1, FloatInf + 2^22, FloatInf - 1, 1}
Sampled ==
  Formats({OnFifo("SETTYPE", in), OnFifo("FALLOC", in)},
          Dense("CHW", Cube(1, 1, 1), "FP16"), Dense("CHW", Cube(1, 1, 1), "FP16"), {},
          [FP16 |-> {Unit(<<s, h>>) : s \in {0, 1}, h \in Edges \cup {HalfInf}},
           FP32 |-> {Unit(<<s, x>>) : s \in {0, 1}, x \in Floats}])

-----------------------------------------------------------------------------
Usages0 ==
  {Serving, Chain, Refused, Shared, Lives, Once, Repeated, Failing, Kept, KeptGlobal, Sampled,
   Layered(Cube(2, 2, 3), "CHW", "HWC", {"HCW"}, {}),
   Layered(Cube(2, 2, 2), "CWH", "WCH", {"CWH"}, Wrong)}
=============================================================================
