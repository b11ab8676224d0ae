------------------------- MODULE NcApi2PipeProofs -------------------------
(***************************************************************************)
(* Theorems about the objects of NCAPI v2 for any number of threads,       *)
(* graphs and fifos, on the types of NcApi2Proofs: that the lists of the   *)
(* host name the objects that exist, each once, and that in a pipeline     *)
(* every trigger that was accepted has its element.                        *)
(***************************************************************************)
EXTENDS NcApi2Proofs, FunctionTheorems, WellFoundedInduction

-----------------------------------------------------------------------------
(* Lists that are led through by pointers.                                   *)

\* What the pointers n lead to from h.
Led(n, h) ==
  {x \in Objs : \A S \in SUBSET Objs :
     h \in S \cup {None} /\ (\A y \in S : n[y] \in S \cup {None}) => x \in S}
Pointers == [Objs -> Objs \cup {None}]

\* Nothing leads back to the head, and nothing is led to twice.
ChainOf(n, h) ==
  /\ \A x \in Led(n, h) : n[x] # h
  /\ \A x, y \in Led(n, h) : n[x] = n[y] /\ n[x] # None => x = y

LEMMA ListLed == \A h : List(h) = Led(next, h)
  BY DEF List, Led

LEMMA ListLedNext == \A h : List(h)' = Led(next', h)
  BY DEF List, Led

LEMMA NoneApart == None \notin Objs /\ Graphs \cap Fifos = {}
  BY NcAssumption DEF Objs

LEMMA LedClosed ==
  ASSUME NEW n, NEW h \in Objs \cup {None}
  PROVE  /\ Led(n, h) \subseteq Objs /\ h \in Led(n, h) \cup {None}
         /\ \A x \in Led(n, h) : n[x] \in Objs \cup {None} => n[x] \in Led(n, h) \cup {None}
  BY DEF Led

LEMMA LedLeast ==
  ASSUME NEW n, NEW h, NEW S \in SUBSET Objs, h \in S \cup {None},
         \A y \in S : n[y] \in S \cup {None}
  PROVE  Led(n, h) \subseteq S
  BY DEF Led

LEMMA LedNone == \A n : Led(n, None) = {}
<1> TAKE n
<1>1. PICK S : S = {}
  OBVIOUS
<1>2. S \in SUBSET Objs /\ None \in S \cup {None} /\ \A y \in S : n[y] \in S \cup {None}
  BY <1>1
<1>3. Led(n, None) \subseteq S
  BY <1>2, LedLeast
<1>4. QED
  BY <1>1, <1>3

LEMMA LedSame ==
  ASSUME NEW n \in Pointers, NEW m, NEW h \in Objs \cup {None},
         \A x \in Led(n, h) : m[x] = n[x]
  PROVE  Led(m, h) = Led(n, h)
<1>1. PICK L, M : L = Led(n, h) /\ M = Led(m, h)
  OBVIOUS
<1>2. /\ L \in SUBSET Objs /\ h \in L \cup {None}
      /\ \A x \in L : n[x] \in L \cup {None}
  BY <1>1, LedClosed DEF Pointers
<1>3. M \subseteq L
  BY <1>1, <1>2, LedLeast
<1>4. M \in SUBSET Objs /\ h \in M \cup {None}
  BY <1>1, LedClosed
<1>5. \A x \in M : n[x] \in M \cup {None}
  <2> TAKE x \in M
  <2>1. m[x] = n[x] /\ m[x] \in Objs \cup {None}
    BY <1>1, <1>2, <1>3
  <2>2. QED
    BY <1>1, <2>1, LedClosed
<1>6. L \subseteq M
  BY <1>1, <1>4, <1>5, LedLeast
<1>7. QED
  BY <1>1, <1>3, <1>6

LEMMA ChainSame ==
  ASSUME NEW n \in Pointers, NEW m, NEW h \in Objs \cup {None},
         \A x \in Led(n, h) : m[x] = n[x], ChainOf(n, h)
  PROVE  ChainOf(m, h)
  BY LedSame, Zenon DEF ChainOf

\* A new head.
LEMMA LedAdd ==
  ASSUME NEW n \in Pointers, NEW m, NEW h \in Objs \cup {None}, NEW x \in Objs,
         x \notin Led(n, h), m[x] = h, \A y \in Led(n, h) : m[y] = n[y], ChainOf(n, h)
  PROVE  Led(m, x) = Led(n, h) \cup {x} /\ ChainOf(m, x)
<1>1. PICK L, M : L = Led(n, h) /\ M = Led(m, x)
  OBVIOUS
<1>2. /\ L \in SUBSET Objs /\ h \in L \cup {None}
      /\ \A y \in L : n[y] \in L \cup {None}
  BY <1>1, LedClosed DEF Pointers
<1>3. L \cup {x} \in SUBSET Objs /\ x \in (L \cup {x}) \cup {None}
      /\ \A y \in L \cup {x} : m[y] \in (L \cup {x}) \cup {None}
  BY <1>1, <1>2
<1>4. M \subseteq L \cup {x}
  <2>1. PICK S : S = L \cup {x}
    OBVIOUS
  <2>2. S \in SUBSET Objs /\ x \in S \cup {None} /\ \A y \in S : m[y] \in S \cup {None}
    BY <1>3, <2>1
  <2>3. M \subseteq S
    BY <1>1, <2>2, LedLeast
  <2>4. QED
    BY <2>1, <2>3
<1>5. Led(m, h) = L
  BY <1>1, LedSame
<1>6. x \in M /\ M \in SUBSET Objs
  BY <1>1, LedClosed, NoneApart
<1>7. h \in M \cup {None} /\ \A y \in M : m[y] \in M \cup {None}
  <2>1. \A y \in M : m[y] \in Objs \cup {None}
    BY <1>1, <1>2, <1>4
  <2>2. \A y \in M : m[y] \in M \cup {None}
    BY <1>1, <2>1, LedClosed
  <2>3. QED
    BY <1>6, <2>2
<1>8. L \subseteq M
  BY <1>5, <1>6, <1>7, LedLeast
<1>9. M = L \cup {x}
  BY <1>4, <1>6, <1>8
<1>10. /\ \A y \in L : n[y] # h
       /\ \A y, z \in L : n[y] = n[z] /\ n[y] # None => y = z
  BY <1>1 DEF ChainOf
<1>11. x # None /\ x \notin L
  BY <1>1, NoneApart
<1>12. \A y \in M : m[y] # x
  BY <1>1, <1>2, <1>9, <1>11
<1>13. \A y, z \in M : m[y] = m[z] /\ m[y] # None => y = z
  BY <1>1, <1>2, <1>9, <1>10
<1>14. QED
  BY <1>1, <1>9, <1>12, <1>13 DEF ChainOf

\* The head is taken out.
LEMMA LedBehead ==
  ASSUME NEW n \in Pointers, NEW h \in Objs, ChainOf(n, h)
  PROVE  /\ Led(n, n[h]) = Led(n, h) \ {h} /\ ChainOf(n, n[h])
         /\ n[h] \in Objs \cup {None}
<1>1. PICK L, M : L = Led(n, h) /\ M = Led(n, n[h])
  OBVIOUS
<1>2. /\ L \in SUBSET Objs /\ h \in L
      /\ \A y \in L : n[y] \in L \cup {None}
  BY <1>1, LedClosed, NoneApart DEF Pointers
<1>3. /\ \A y \in L : n[y] # h
      /\ \A y, z \in L : n[y] = n[z] /\ n[y] # None => y = z
  BY <1>1 DEF ChainOf
<1>4. n[h] \in Objs \cup {None}
  BY DEF Pointers
<1>5. /\ L \ {h} \in SUBSET Objs /\ n[h] \in (L \ {h}) \cup {None}
      /\ \A y \in L \ {h} : n[y] \in (L \ {h}) \cup {None}
  BY <1>2, <1>3
<1>6. M \subseteq L \ {h}
  <2>1. Led(n, n[h]) \subseteq L \ {h}
    BY <1>5, LedLeast
  <2>2. QED
    BY <1>1, <2>1
<1>7. /\ M \in SUBSET Objs /\ n[h] \in M \cup {None}
      /\ \A y \in M : n[y] \in M \cup {None}
  BY <1>1, <1>4, LedClosed DEF Pointers
<1>8. /\ M \cup {h} \in SUBSET Objs /\ h \in (M \cup {h}) \cup {None}
      /\ \A y \in M \cup {h} : n[y] \in (M \cup {h}) \cup {None}
  BY <1>7
<1>9. L \subseteq M \cup {h}
  BY <1>1, <1>8, LedLeast
<1>10. M = L \ {h}
  BY <1>6, <1>9
<1>11. \A y \in M : n[y] # n[h]
  <2> SUFFICES ASSUME NEW y \in M, n[y] = n[h] PROVE FALSE
    OBVIOUS
  <2>1. CASE n[h] = None
    BY <1>1, <2>1, LedNone
  <2>2. CASE n[h] # None
    BY <1>2, <1>3, <1>10, <2>2
  <2>3. QED
    BY <2>1, <2>2
<1>12. QED
  BY <1>1, <1>3, <1>4, <1>10, <1>11 DEF ChainOf

\* An object after the head is taken out.
LEMMA LedUnlink ==
  ASSUME NEW n \in Pointers, NEW h \in Objs \cup {None}, NEW x \in Objs, h # x, ChainOf(n, h),
         NEW m, x \in Led(n, h),
         m = [y \in Objs |-> IF y \in Led(n, h) /\ n[y] = x THEN n[x] ELSE n[y]]
  PROVE  Led(m, h) = Led(n, h) \ {x} /\ ChainOf(m, h)
<1>1. PICK L, M : L = Led(n, h) /\ M = Led(m, h)
  OBVIOUS
<1>2. /\ L \in SUBSET Objs /\ h \in L \cup {None}
      /\ \A y \in L : n[y] \in L \cup {None}
  BY <1>1, LedClosed DEF Pointers
<1>3. /\ \A y \in L : n[y] # h
      /\ \A y, z \in L : n[y] = n[z] /\ n[y] # None => y = z
  BY <1>1 DEF ChainOf
<1>4. x \in L /\ x # None
  BY <1>1, NoneApart
<1>5. \A y \in L : (n[y] = x => m[y] = n[x]) /\ (n[y] # x => m[y] = n[y])
  BY <1>1, <1>2
<1>6. PICK p \in L : p # x /\ n[p] = x
  <2>1. SUFFICES ASSUME \A y \in L : y # x => n[y] # x PROVE FALSE
    OBVIOUS
  <2>2. /\ L \ {x} \in SUBSET Objs /\ h \in (L \ {x}) \cup {None}
        /\ \A y \in L \ {x} : n[y] \in (L \ {x}) \cup {None}
    BY <1>2, <2>1
  <2>3. L \subseteq L \ {x}
    BY <1>1, <2>2, LedLeast
  <2>4. QED
    BY <1>4, <2>3
<1>7. n[x] # x
  BY <1>3, <1>4, <1>6
<1>8. /\ L \ {x} \in SUBSET Objs /\ h \in (L \ {x}) \cup {None}
      /\ \A y \in L \ {x} : m[y] \in (L \ {x}) \cup {None}
  BY <1>2, <1>4, <1>5, <1>7
<1>9. M \subseteq L \ {x}
  <2>1. PICK S : S = L \ {x}
    OBVIOUS
  <2>2. S \in SUBSET Objs /\ h \in S \cup {None} /\ \A y \in S : m[y] \in S \cup {None}
    BY <1>8, <2>1
  <2>3. M \subseteq S
    BY <1>1, <2>2, LedLeast
  <2>4. QED
    BY <2>1, <2>3
<1>10. M \in SUBSET Objs /\ h \in M \cup {None} /\ \A y \in M : m[y] \in M \cup {None}
  BY <1>1, <1>2, <1>8, <1>9, LedClosed
<1>11. p \in M
  <2>1. SUFFICES ASSUME p \notin M PROVE FALSE
    OBVIOUS
  <2>2. \A y \in M : n[y] \in M \cup {None}
    BY <1>3, <1>4, <1>5, <1>6, <1>9, <1>10, <2>1
  <2>3. L \subseteq M
    BY <1>1, <1>10, <2>2, LedLeast
  <2>4. QED
    BY <2>1, <2>3
<1>12. m[p] = n[x] /\ n[x] \in M \cup {None}
  BY <1>5, <1>6, <1>10, <1>11
<1>13. /\ M \cup {x} \in SUBSET Objs /\ h \in (M \cup {x}) \cup {None}
       /\ \A y \in M \cup {x} : n[y] \in (M \cup {x}) \cup {None}
  BY <1>5, <1>9, <1>10, <1>12
<1>14. L \subseteq M \cup {x}
  BY <1>1, <1>13, LedLeast
<1>15. M = L \ {x}
  BY <1>9, <1>14
<1>16. \A y \in M : m[y] # h
  BY <1>3, <1>4, <1>5, <1>15
<1>17. \A y, z \in M : m[y] = m[z] /\ m[y] # None => y = z
  BY <1>3, <1>4, <1>5, <1>15
<1>18. QED
  BY <1>1, <1>15, <1>16, <1>17 DEF ChainOf

-----------------------------------------------------------------------------
(* The list of the graphs.                                                   *)

\* One thread makes a kind of calls.
LEMMA OneCaller ==
  ASSUME HoldInv, NEW ops, Alone(ops), NEW s \in Threads, NEW t \in Threads,
         thr[s].pc # "idle", thr[s].op \in ops, thr[t].pc # "idle", thr[t].op \in ops
  PROVE  s = t
<1>1. s \in Callers(ops) /\ t \in Callers(ops) /\ Callers(ops) \subseteq Threads
  BY DEF HoldInv, ThreadInv, Calling, SameCall, Callers
<1>2. PICK C : C = Callers(ops)
  OBVIOUS
<1>3. IsFiniteSet(C)
  BY <1>1, <1>2, FS_Subset, NcAssumption
<1>4. Cardinality(C) \in Nat /\ Cardinality(C) <= 1 /\ C # {}
  BY <1>1, <1>2, <1>3, FS_CardinalityType DEF Alone
<1>5. Cardinality(C) = 1
  BY <1>3, <1>4, FS_EmptySet
<1>6. QED
  BY <1>1, <1>2, <1>3, <1>5, FS_Singleton

LEMMA InCall ==
  ASSUME HoldInv, NEW t \in Threads
  PROVE  thr[t].pc = "idle" <=> thr[t].op = "NONE"
<1>1. thr[t].pc = "idle" => thr[t].op = "NONE"
  BY DEF HoldInv, ThreadInv, Calling, Idle
<1>2. thr[t].pc # "idle" => thr[t].op # "NONE"
  BY CallHas DEF HoldInv, ThreadInv, Ops, DeviceOps, ObjectOps
<1>3. QED
  BY <1>1, <1>2

\* The lists keep graphs and fifos apart.
LEMMA ListsApart ==
  ASSUME ListsShape
  PROVE  /\ Led(next, head.graphs) \subseteq Graphs /\ Led(next, head.fifos) \subseteq Fifos
         /\ next \in Pointers
         /\ head.graphs \in Graphs \cup {None} /\ head.fifos \in Fifos \cup {None}
         /\ head.graphs \in Objs \cup {None} /\ head.fifos \in Objs \cup {None}
<1>1. /\ head.graphs \in Graphs \cup {None} /\ head.fifos \in Fifos \cup {None}
      /\ Graphs \in SUBSET Objs /\ Fifos \in SUBSET Objs
      /\ \A y \in Graphs : next[y] \in Graphs \cup {None}
      /\ \A y \in Fifos : next[y] \in Fifos \cup {None}
  BY DEF ListsShape, Objs
<1>2. Led(next, head.graphs) \subseteq Graphs
  BY <1>1, LedLeast
<1>3. Led(next, head.fifos) \subseteq Fifos
  BY <1>1, LedLeast
<1>4. QED
  BY <1>1, <1>2, <1>3 DEF ListsShape, Pointers, Objs

LEMMA GraphListSame ==
  ASSUME ListsShape, head'.graphs = head.graphs, \A g \in Graphs : next'[g] = next[g]
  PROVE  /\ Led(next', head'.graphs) = Led(next, head.graphs)
         /\ ChainOf(next, head.graphs) => ChainOf(next', head'.graphs)
<1>1. \A x \in Led(next, head.graphs) : next'[x] = next[x]
  BY ListsApart
<1>2. PICK n, h : n = next' /\ h = head.graphs
  OBVIOUS
<1>3. next \in Pointers /\ h \in Objs \cup {None} /\ \A x \in Led(next, h) : n[x] = next[x]
  BY <1>1, <1>2, ListsApart
<1>4. Led(n, h) = Led(next, h) /\ (ChainOf(next, h) => ChainOf(n, h))
  BY <1>3, LedSame, ChainSame
<1>5. QED
  BY <1>2, <1>4

LEMMA FifoListSame ==
  ASSUME ListsShape, head'.fifos = head.fifos, \A f \in Fifos : next'[f] = next[f]
  PROVE  /\ Led(next', head'.fifos) = Led(next, head.fifos)
         /\ ChainOf(next, head.fifos) => ChainOf(next', head'.fifos)
<1>1. \A x \in Led(next, head.fifos) : next'[x] = next[x]
  BY ListsApart
<1>2. PICK n, h : n = next' /\ h = head.fifos
  OBVIOUS
<1>3. next \in Pointers /\ h \in Objs \cup {None} /\ \A x \in Led(next, h) : n[x] = next[x]
  BY <1>1, <1>2, ListsApart
<1>4. Led(n, h) = Led(next, h) /\ (ChainOf(next, h) => ChainOf(n, h))
  BY <1>3, LedSame, ChainSame
<1>5. QED
  BY <1>2, <1>4

GraphLive(g) == graph[g].st \in {"allocated", "running", "waiting"}

\* What a call knows of its graph.
GraphPlaces(t) ==
  /\ thr[t].op = "GALLOC" => graph[thr[t].g].st = "created"
  /\ thr[t].op \in {"STATE", "GDESTROY"} => graph[thr[t].g].st # "freed"
  /\ thr[t].op = "STATE" /\ thr[t].pc \in {"send", "check", "running", "waiting"}
       => GraphLive(thr[t].g)

\* The list of the graphs is that of the live ones. A graph that is not allocated
\* leads nowhere, and one that is being linked leads to the head.
GraphListed ==
  /\ \A g \in Graphs : g \in Led(next, head.graphs) <=> GraphLive(g)
  /\ ChainOf(next, head.graphs)
  /\ \A g \in Graphs : graph[g].st = "created" =>
        next[g] = None \/ \E t \in Threads : At(t, "GALLOC", "linked") /\ thr[t].g = g
  /\ \A t \in Threads : At(t, "GALLOC", "linked") => next[thr[t].g] = head.graphs
  /\ \A t \in Threads : thr[t].op = "GDESTROY" /\ thr[t].pc \in {"send", "check", "free"} =>
        thr[t].g \in Led(next, head.graphs)
GraphInv ==
  /\ \A t \in Threads : GraphPlaces(t)
  /\ Alone({"GALLOC", "GDESTROY"}) => GraphListed

\* The graphs stay as they are.
GraphsStay ==
  /\ head'.graphs = head.graphs
  /\ \A g \in Graphs :
       /\ next'[g] = next[g]
       /\ graph'[g].st = "created" <=> graph[g].st = "created"
       /\ graph'[g].st = "freed" <=> graph[g].st = "freed"
       /\ GraphLive(g)' <=> GraphLive(g)

LEMMA GraphsCalm ==
  ASSUME HoldInv, ObjectShape, GraphInv, UNCHANGED usage, GraphsStay, NEW t \in Threads,
         OnlyThread(t), GraphPlaces(t)',
         ~At(t, "GALLOC", "linked"), ~At(t, "GALLOC", "linked")',
         GraphListed /\ thr'[t].op = "GDESTROY" /\ thr'[t].pc \in {"send", "check", "free"}
           => thr'[t].g \in Led(next, head.graphs)
  PROVE  GraphInv'
<1>1. ASSUME NEW s \in Threads, s # t PROVE GraphPlaces(s)'
  <2>1. thr'[s] = thr[s]
    BY <1>1 DEF OnlyThread
  <2>2. thr[s].op \in {"GALLOC", "GDESTROY", "STATE"} => thr[s].g \in Graphs
    BY <1>1, CallHas, InCall DEF HoldInv, ThreadInv
  <2>3. PICK g : g = thr[s].g
    OBVIOUS
  <2>4. GraphPlaces(s)
    BY DEF GraphInv
  <2>5. QED
    BY <2>1, <2>2, <2>3, <2>4 DEF GraphsStay, GraphPlaces, GraphLive
<1>2. ASSUME GraphListed PROVE GraphListed'
  <2>1. /\ Led(next', head'.graphs) = Led(next, head.graphs)
        /\ ChainOf(next', head'.graphs)
    BY <1>2, GraphListSame DEF ObjectShape, GraphsStay, GraphListed
  <2>2. \A g \in Graphs : g \in Led(next', head'.graphs) <=> GraphLive(g)'
    BY <1>2, <2>1 DEF GraphsStay, GraphListed
  <2>3. ASSUME NEW g \in Graphs, graph'[g].st = "created", next'[g] # None
        PROVE  \E s \in Threads : At(s, "GALLOC", "linked")' /\ thr'[s].g = g
    <3>1. PICK s \in Threads : At(s, "GALLOC", "linked") /\ thr[s].g = g
      BY <1>2, <2>3 DEF GraphsStay, GraphListed
    <3>2. thr'[s] = thr[s]
      BY <3>1 DEF OnlyThread
    <3>3. QED
      BY <3>1, <3>2 DEF At
  <2>4. ASSUME NEW s \in Threads, At(s, "GALLOC", "linked")'
        PROVE  next'[thr'[s].g] = head'.graphs
    <3>1. thr'[s] = thr[s] /\ At(s, "GALLOC", "linked")
      BY <2>4 DEF OnlyThread, At
    <3>2. thr[s].g \in Graphs
      BY <3>1, CallHas DEF HoldInv, ThreadInv, At
    <3>3. PICK g : g = thr[s].g
      OBVIOUS
    <3>4. QED
      BY <1>2, <3>1, <3>2, <3>3 DEF GraphsStay, GraphListed
  <2>5. ASSUME NEW s \in Threads, thr'[s].op = "GDESTROY",
                 thr'[s].pc \in {"send", "check", "free"}
        PROVE  thr'[s].g \in Led(next', head'.graphs)
    <3>1. CASE s = t
      BY <1>2, <2>1, <2>5, <3>1
    <3>2. CASE s # t
      BY <1>2, <2>1, <2>5, <3>2 DEF OnlyThread, GraphListed
    <3>3. QED
      BY <3>1, <3>2
  <2>6. QED
    BY <2>1, <2>2, <2>3, <2>4, <2>5 DEF GraphListed
<1>3. Alone({"GALLOC", "GDESTROY"})' => Alone({"GALLOC", "GDESTROY"})
  BY DEF Alone, Callers
<1>4. QED
  BY <1>1, <1>2, <1>3 DEF GraphInv

\* Calls that are not about graphs leave them alone.
LEMMA OthersLeaveGraphs ==
  ASSUME HoldInv, ObjectShape, NEW t \in Threads,
         \/ OpenEnter(t) \/ OpenMonitor(t) \/ CloseEnter(t) \/ Destroy(t)
         \/ FifoCalls(t) \/ Elements(t)
  PROVE  GraphsStay
<1>1. CASE \/ OpenEnter(t) \/ OpenMonitor(t) \/ CloseEnter(t) \/ Destroy(t)
           \/ SetType(t) \/ SetDesc(t) \/ FAllocRead(t) \/ FAllocSend(t) \/ FAllocCheck(t)
           \/ FDestroyCreated(t) \/ FDestroyEnter(t) \/ FDestroySend(t) \/ FDestroyCheck(t)
           \/ WriteEnter(t) \/ WriteSend(t) \/ WriteCount(t) \/ QueueEnter(t) \/ QueueIn(t)
           \/ QueueDrain(t) \/ QueueTake(t) \/ QueueOut(t) \/ QueueSend(t)
           \/ ReadEnter(t) \/ ReadWait(t) \/ ReadCount(t)
  <2>1. UNCHANGED <<head, next, graph>>
    BY <1>1, Zenon DEF OpenEnter, OpenMonitor, CloseEnter, Destroy, SetType, SetDesc,
       FAllocRead,
       FAllocSend, FAllocCheck, FDestroyCreated, FDestroyEnter, FDestroySend, FDestroyCheck,
       WriteEnter, WriteSend, WriteCount, QueueEnter, QueueIn, QueueDrain, QueueTake,
       QueueOut, QueueSend, ReadEnter, ReadWait, ReadCount
  <2>2. QED
    BY <2>1 DEF GraphsStay, GraphLive
<1>2. CASE QueueCheck(t)
  <2>1. UNCHANGED <<head, next>> /\ \A g \in Graphs : graph'[g].st = graph[g].st
    <3>1. /\ graph' = graph \/ graph' = [graph EXCEPT ![thr[t].g].started = TRUE]
          /\ UNCHANGED <<head, next>>
      BY <1>2 DEF QueueCheck
    <3>2. thr[t].g \in Graphs
      BY <1>2, CallHas DEF HoldInv, ThreadInv, QueueCheck, At
    <3>3. QED
      BY <3>1, <3>2 DEF ObjectShape, GraphShape
  <2>2. QED
    BY <2>1 DEF GraphsStay, GraphLive
<1>3. CASE FAllocFind(t) \/ FAllocLink(t)
  <2>1. thr[t].f \in Fifos
    BY <1>3, CallHas DEF HoldInv, ThreadInv, FAllocFind, FAllocLink, At
  <2>2. /\ graph' = graph /\ (head' = head \/ head' = [head EXCEPT !.fifos = thr[t].f])
        /\ next' = next \/ next' = [next EXCEPT ![thr[t].f] = head.fifos]
    BY <1>3, Zenon DEF FAllocFind, FAllocLink
  <2>3. head'.graphs = head.graphs /\ \A g \in Graphs : next'[g] = next[g]
    BY <2>1, <2>2, NcAssumption DEF ObjectShape, ListsShape, Objs
  <2>4. QED
    BY <2>2, <2>3 DEF GraphsStay, GraphLive
<1>4. CASE FDestroyFree(t)
  <2>1. thr[t].f \in Fifos
    BY <1>4, CallHas DEF HoldInv, ThreadInv, FDestroyFree, At
  <2>2. (Removed("fifos", thr[t].f) \/ UNCHANGED <<head, next>>) /\ graph' = graph
    BY <1>4, Zenon DEF FDestroyFree
  <2>3. /\ head' = head \/ head' = [head EXCEPT !.fifos = next[thr[t].f]]
        /\ \/ next' = next
           \/ \E S : next' = [y \in Objs |-> IF y \in S /\ next[y] = thr[t].f THEN next[thr[t].f] ELSE next[y]]
    BY <2>2, Zenon DEF Removed
  <2>4. head'.graphs = head.graphs /\ \A g \in Graphs : next'[g] = next[g]
    BY <2>1, <2>3, NcAssumption DEF ObjectShape, ListsShape, Objs
  <2>5. QED
    BY <2>2, <2>4 DEF GraphsStay, GraphLive
<1>5. QED
  BY <1>1, <1>2, <1>3, <1>4 DEF FifoCalls, Elements

\* A call that holds a graph to itself.
LEMMA GraphApart ==
  ASSUME HoldInv, NEW t \in Threads, thr[t].op \in {"GALLOC", "GDESTROY"},
         NEW s \in Threads, s # t, thr[s].op \in {"GALLOC", "GDESTROY", "STATE"}
  PROVE  thr[s].g # thr[t].g
<1>1. s \in Busy /\ t \in Busy
  BY InCall DEF Busy
<1>2. thr[t].g \in Graphs /\ thr[s].g \in Graphs
  BY <1>1, CallHas DEF HoldInv, ThreadInv, Busy
<1>3. Objects(thr[s]) \cap Objects(thr[t]) = {}
  BY <1>1 DEF HoldInv, ThreadInv, Apart, ObjectOps
<1>4. thr[t].g # None
  BY <1>2, NcAssumption
<1>5. QED
  BY <1>3, <1>4 DEF Objects

\* The end of a call that changes its own graph.
LEMMA PlacesKept ==
  ASSUME HoldInv, GraphInv, NEW t \in Threads, OnlyThread(t),
           thr[t].op \in {"GALLOC", "GDESTROY"},
         thr'[t] = Idle, \A g \in Graphs : g # thr[t].g => graph'[g] = graph[g]
  PROVE  \A s \in Threads : GraphPlaces(s)'
<1> SUFFICES ASSUME NEW s \in Threads PROVE GraphPlaces(s)'
  OBVIOUS
<1>1. CASE s = t
  BY <1>1 DEF Idle, GraphPlaces
<1>2. CASE s # t /\ thr[s].op \in {"GALLOC", "GDESTROY", "STATE"}
  <2>1. thr'[s] = thr[s]
    BY <1>2 DEF OnlyThread
  <2>2. thr[s].g \in Graphs
    BY <1>2, CallHas, InCall DEF HoldInv, ThreadInv
  <2>3. PICK g : g = thr[s].g
    OBVIOUS
  <2>4. g # thr[t].g
    BY <1>2, <2>3, GraphApart
  <2>5. graph'[g] = graph[g]
    BY <2>2, <2>3, <2>4
  <2>6. QED
    BY <2>1, <2>3, <2>5 DEF GraphInv, GraphPlaces, GraphLive
<1>3. CASE s # t /\ thr[s].op \notin {"GALLOC", "GDESTROY", "STATE"}
  BY <1>3 DEF OnlyThread, GraphPlaces
<1>4. QED
  BY <1>1, <1>2, <1>3

\* Steps of the graph calls that change no list and no state.
LEMMA CalmGraphCalls ==
  ASSUME HoldInv, ObjectShape, GraphInv, NEW t \in Threads,
         \/ GAllocEnter(t) \/ GAllocSend(t) \/ GAllocData(t) \/ GAllocCheck(t)
         \/ GAllocMemory(t) \/ GDestroyEnter(t) \/ GDestroySend(t) \/ GDestroyCheck(t)
         \/ StateEnter(t) \/ StateSend(t) \/ StateCheck(t)
  PROVE  GraphInv'
<1>1. GraphsStay /\ usage' = usage
  BY Zenon DEF GAllocEnter, GAllocSend, GAllocData, GAllocCheck, GAllocMemory, GDestroyEnter,
     GDestroySend, GDestroyCheck, StateEnter, StateSend, StateCheck, GraphsStay, GraphLive
<1>2. OnlyThread(t)
        /\ (thr'[t] = Idle \/ (SameCall(thr'[t], thr[t]) /\ \E pc : Goto(t, pc) /\ thr'[t].pc = pc))
  <2>1. Return(t) \/ \E pc : Goto(t, pc)
    BY Zenon DEF GAllocEnter, GAllocSend, GAllocData, GAllocCheck, GAllocMemory, GDestroyEnter,
       GDestroySend, GDestroyCheck, StateEnter, StateSend, StateCheck
  <2>2. QED
    BY <1>1, <2>1, GoesTo DEF OnlyThread
<1>3. CASE thr'[t] = Idle
  <2>1. GraphPlaces(t)' /\ ~At(t, "GALLOC", "linked")' /\ thr'[t].op # "GDESTROY"
    BY <1>3 DEF GraphPlaces, Idle, At
  <2>2. ~At(t, "GALLOC", "linked")
    BY DEF GAllocEnter, GAllocSend, GAllocData, GAllocCheck, GAllocMemory, GDestroyEnter,
       GDestroySend, GDestroyCheck, StateEnter, StateSend, StateCheck, At
  <2>3. QED
    BY <1>1, <1>2, <2>1, <2>2, GraphsCalm
<1>4. CASE thr'[t] # Idle
  <2>1. SameCall(thr'[t], thr[t]) /\ thr[t].g \in Graphs
    BY <1>2, <1>4, CallHas DEF HoldInv, ThreadInv, GAllocEnter, GAllocSend, GAllocData,
       GAllocCheck,
       GAllocMemory, GDestroyEnter, GDestroySend, GDestroyCheck, StateEnter, StateSend, StateCheck, At
  <2>2. thr'[t].op = thr[t].op /\ thr'[t].g = thr[t].g
    BY <2>1 DEF SameCall
  <2>3. PICK g : g = thr[t].g
    OBVIOUS
  <2>4. GraphPlaces(t)
    BY DEF GraphInv
  <2>5. CASE GAllocEnter(t) \/ GAllocSend(t) \/ GAllocData(t) \/ GAllocCheck(t) \/ GAllocMemory(t)
    <3>1. thr[t].op = "GALLOC" /\ thr[t].pc # "linked" /\ thr'[t].pc # "linked"
      <4>1. thr[t].op = "GALLOC" /\ thr[t].pc # "linked"
        BY <2>5 DEF GAllocEnter, GAllocSend, GAllocData, GAllocCheck, GAllocMemory, At
      <4>2. \/ Return(t) \/ Goto(t, "send") \/ Goto(t, "stuck") \/ Goto(t, "data") \/ Goto(t, "check")
            \/ Goto(t, "memory") \/ Goto(t, "link")
        BY <2>5, Zenon DEF GAllocEnter, GAllocSend, GAllocData, GAllocCheck, GAllocMemory
      <4>3. QED
        BY <1>1, <4>1, <4>2, GoesTo
    <3>2. GraphPlaces(t)'
      BY <1>1, <2>1, <2>2, <2>3, <2>4, <3>1 DEF GraphPlaces, GraphsStay
    <3>3. QED
      BY <1>1, <1>2, <2>2, <3>1, <3>2, GraphsCalm DEF At
  <2>6. CASE GDestroyEnter(t) \/ GDestroySend(t) \/ GDestroyCheck(t)
    <3>1. thr[t].op = "GDESTROY"
      BY <2>6 DEF GDestroyEnter, GDestroySend, GDestroyCheck, At
    <3>2. GraphPlaces(t)'
      BY <1>1, <2>1, <2>2, <2>3, <2>4, <3>1 DEF GraphPlaces, GraphsStay
    <3>3. ASSUME GraphListed PROVE thr'[t].g \in Led(next, head.graphs)
      <4>1. CASE GDestroyEnter(t)
        <5>1. thr[t].g \in List(head.graphs)
          BY <1>1, <1>4, <4>1, GoesTo DEF GDestroyEnter
        <5>2. QED
          BY <2>2, <5>1, ListLed
      <4>2. CASE GDestroySend(t) \/ GDestroyCheck(t)
        BY <2>2, <3>3, <4>2 DEF GDestroySend, GDestroyCheck, At, GraphListed
      <4>3. QED
        BY <2>6, <4>1, <4>2
    <3>4. QED
      BY <1>1, <1>2, <2>2, <3>1, <3>2, <3>3, GraphsCalm DEF At
  <2>7. CASE StateEnter(t) \/ StateSend(t) \/ StateCheck(t)
    <3>1. thr[t].op = "STATE"
      BY <2>7 DEF StateEnter, StateSend, StateCheck, At
    <3>2. GraphLive(thr[t].g)
      <4>1. CASE StateEnter(t)
        <5>1. graph[thr[t].g].st # "created" /\ graph[thr[t].g].st # "freed"
          BY <1>1, <1>4, <2>4, <4>1, GoesTo DEF StateEnter, GraphPlaces, At
        <5>2. graph[thr[t].g].st \in GraphStates
          BY <2>1 DEF ObjectShape, GraphShape
        <5>3. QED
          BY <5>1, <5>2 DEF GraphLive, GraphStates
      <4>2. CASE StateSend(t) \/ StateCheck(t)
        BY <2>4, <4>2 DEF StateSend, StateCheck, GraphPlaces, At
      <4>3. QED
        BY <2>7, <4>1, <4>2
    <3>3. GraphPlaces(t)'
      BY <1>1, <2>1, <2>2, <2>3, <2>4, <3>1, <3>2 DEF GraphPlaces, GraphsStay, GraphLive
    <3>4. QED
      BY <1>1, <1>2, <2>2, <3>1, <3>3, GraphsCalm DEF At
  <2>8. QED
    BY <2>5, <2>6, <2>7
<1>5. QED
  BY <1>3, <1>4

\* The answer to a request for the state of a graph.
LEMMA StateSetGraphs ==
  ASSUME HoldInv, ObjectShape, GraphInv, NEW t \in Threads, StateSet(t)
  PROVE  GraphInv'
<1>1. /\ thr[t].op = "STATE" /\ thr[t].pc \in {"running", "waiting"}
      /\ usage' = usage /\ thr'[t] = Idle /\ OnlyThread(t) /\ UNCHANGED <<head, next>>
  BY GoesTo DEF StateSet, OnlyThread
<1>2. thr[t].g \in Graphs /\ GraphLive(thr[t].g)
  BY <1>1, CallHas DEF HoldInv, ThreadInv, GraphInv, GraphPlaces, At
<1>3. \E st \in {"running", "waiting"} : graph' = [graph EXCEPT ![thr[t].g].st = st]
  BY <1>1 DEF StateSet
<1>4. \A g \in Graphs : graph'[g].st = graph[g].st \/ (g = thr[t].g /\ graph'[g].st \in {"running", "waiting"})
  BY <1>2, <1>3 DEF ObjectShape, GraphShape
<1>5. GraphsStay
  BY <1>1, <1>2, <1>4 DEF GraphsStay, GraphLive
<1>6. GraphPlaces(t)' /\ ~At(t, "GALLOC", "linked") /\ ~At(t, "GALLOC", "linked")'
      /\ thr'[t].op # "GDESTROY"
  BY <1>1 DEF GraphPlaces, Idle, At
<1>7. QED
  BY <1>1, <1>5, <1>6, GraphsCalm

\* The graph gets its successor; no other graph call of its kind is under way.
LEMMA LinkGraphs ==
  ASSUME HoldInv, ObjectShape, GraphInv, NEW t \in Threads, GAllocLink(t)
  PROVE  GraphInv'
<1>1. At(t, "GALLOC", "link") /\ usage' = usage /\ thr'[t].pc = "linked" /\ OnlyThread(t)
      /\ SameCall(thr'[t], thr[t]) /\ UNCHANGED <<head, graph>>
  BY GoesTo DEF GAllocLink, OnlyThread
<1>2. PICK g : g = thr[t].g
  OBVIOUS
<1>3. g \in Graphs /\ graph[g].st = "created" /\ thr'[t].g = g /\ thr'[t].op = "GALLOC"
  BY <1>1, <1>2, CallHas DEF HoldInv, ThreadInv, GraphInv, GraphPlaces, At, SameCall
<1>4. \A s \in Threads : GraphPlaces(s)'
  BY <1>1, <1>2, <1>3 DEF GraphInv, GraphPlaces, GraphLive, OnlyThread
<1>5. ASSUME Alone({"GALLOC", "GDESTROY"}), GraphListed PROVE GraphListed'
  <2>1. \A s \in Threads : s # t => thr[s].op \notin {"GALLOC", "GDESTROY"} /\ thr'[s] = thr[s]
    BY <1>1, <1>5, OneCaller, InCall DEF OnlyThread, At
  <2>2. PICK h, L : h = head.graphs /\ L = Led(next, head.graphs)
    OBVIOUS
  <2>3. next[g] = None
    <3>1. \A s \in Threads : ~(At(s, "GALLOC", "linked") /\ thr[s].g = g)
      BY <1>1, <2>1 DEF At
    <3>2. QED
      BY <1>3, <1>5, <3>1 DEF GraphListed
  <2>4. /\ next'[g] = h /\ \A x \in Objs : x # g => next'[x] = next[x]
    <3>1. next' = IF h = None THEN next ELSE [next EXCEPT ![g] = h]
      BY <1>2, <2>2 DEF GAllocLink
    <3>2. g \in Objs /\ next \in [Objs -> Objs \cup {None}]
      BY <1>3 DEF Objs, ObjectShape, ListsShape
    <3>3. QED
      BY <2>3, <3>1, <3>2
  <2>5. g \notin L /\ L \subseteq Graphs /\ L \subseteq Objs
    BY <1>3, <1>5, <2>2, ListsApart DEF GraphListed, GraphLive, ObjectShape, Objs
  <2>6. Led(next', h) = L /\ ChainOf(next', h)
    <3>1. PICK n : n = next'
      OBVIOUS
    <3>2. next \in Pointers /\ h \in Objs \cup {None} /\ \A x \in Led(next, h) : n[x] = next[x]
      BY <2>2, <2>4, <2>5, <3>1, ListsApart DEF ObjectShape
    <3>3. ChainOf(next, h)
      BY <1>5, <2>2 DEF GraphListed
    <3>4. QED
      BY <2>2, <3>1, <3>2, <3>3, LedSame, ChainSame
  <2>7. \A x \in Graphs : x \in Led(next', head'.graphs) <=> GraphLive(x)'
    BY <1>1, <1>5, <2>2, <2>6 DEF GraphListed, GraphLive
  <2>8. ASSUME NEW x \in Graphs, graph'[x].st = "created", next'[x] # None
        PROVE  \E s \in Threads : At(s, "GALLOC", "linked")' /\ thr'[s].g = x
    <3>1. CASE x = g
      BY <1>1, <1>3, <3>1 DEF At
    <3>2. CASE x # g
      <4>1. next[x] # None /\ graph[x].st = "created"
        BY <1>1, <2>4, <2>8, <3>2 DEF Objs
      <4>2. PICK s \in Threads : At(s, "GALLOC", "linked") /\ thr[s].g = x
        BY <1>5, <4>1 DEF GraphListed
      <4>3. QED
        BY <1>1, <2>1, <4>2 DEF At
    <3>3. QED
      BY <3>1, <3>2
  <2>9. \A s \in Threads : At(s, "GALLOC", "linked")' => next'[thr'[s].g] = head'.graphs
    <3> SUFFICES ASSUME NEW s \in Threads, At(s, "GALLOC", "linked")'
                 PROVE  next'[thr'[s].g] = head'.graphs
      OBVIOUS
    <3>1. s = t
      BY <2>1 DEF At
    <3>2. QED
      BY <1>1, <1>3, <2>2, <2>4, <3>1
  <2>10. \A s \in Threads : thr'[s].op # "GDESTROY"
    BY <1>3, <2>1
  <2>11. QED
    BY <1>1, <2>2, <2>6, <2>7, <2>8, <2>9, <2>10 DEF GraphListed
<1>6. Alone({"GALLOC", "GDESTROY"})' => Alone({"GALLOC", "GDESTROY"})
  BY <1>1 DEF Alone, Callers
<1>7. QED
  BY <1>4, <1>5, <1>6 DEF GraphInv

\* The graph becomes the head.
LEMMA LinkedGraphs ==
  ASSUME HoldInv, ObjectShape, GraphInv, NEW t \in Threads, GAllocLinked(t)
  PROVE  GraphInv'
<1>1. At(t, "GALLOC", "linked") /\ usage' = usage /\ thr'[t] = Idle /\ OnlyThread(t)
        /\ next' = next
      /\ head' = [head EXCEPT !.graphs = thr[t].g]
      /\ graph' = [graph EXCEPT ![thr[t].g].st = "allocated"]
  BY GoesTo DEF GAllocLinked, OnlyThread
<1>2. PICK g : g = thr[t].g
  OBVIOUS
<1>3. g \in Graphs /\ graph[g].st = "created"
  BY <1>1, <1>2, CallHas DEF HoldInv, ThreadInv, GraphInv, GraphPlaces, At
<1>4. /\ graph'[g].st = "allocated" /\ \A x \in Graphs : x # g => graph'[x] = graph[x]
      /\ head'.graphs = g
  BY <1>1, <1>2, <1>3 DEF ObjectShape, GraphShape, ListsShape
<1>5. \A s \in Threads : GraphPlaces(s)'
  BY <1>1, <1>2, <1>4, PlacesKept DEF At
<1>6. ASSUME Alone({"GALLOC", "GDESTROY"}), GraphListed PROVE GraphListed'
  <2>1. \A s \in Threads : thr'[s].op \notin {"GALLOC", "GDESTROY"}
    BY <1>1, <1>6, OneCaller, InCall DEF OnlyThread, At, Idle
  <2>2. PICK h, L : h = head.graphs /\ L = Led(next, head.graphs)
    OBVIOUS
  <2>3. g \notin L /\ next[g] = h /\ ChainOf(next, h)
    BY <1>1, <1>2, <1>3, <1>6, <2>2 DEF GraphListed, GraphLive
  <2>4. Led(next, g) = L \cup {g} /\ ChainOf(next, g)
    <3>1. next \in Pointers /\ h \in Objs \cup {None} /\ g \in Objs
      BY <1>3, <2>2, ListsApart DEF ObjectShape, Objs
    <3>2. QED
      BY <2>2, <2>3, <3>1, LedAdd
  <2>5. \A x \in Graphs : x \in Led(next', head'.graphs) <=> GraphLive(x)'
    BY <1>1, <1>4, <1>6, <2>2, <2>4 DEF GraphListed, GraphLive
  <2>6. ASSUME NEW x \in Graphs, graph'[x].st = "created" PROVE next'[x] = None
    <3>1. x # g /\ graph[x].st = "created"
      BY <1>4, <2>6
    <3>2. ASSUME NEW s \in Threads, At(s, "GALLOC", "linked"), thr[s].g = x PROVE FALSE
      BY <1>1, <1>2, <1>6, <3>1, <3>2, OneCaller, InCall DEF At
    <3>3. QED
      BY <1>1, <1>6, <3>1, <3>2 DEF GraphListed
  <2>7. QED
    BY <1>1, <1>4, <2>1, <2>4, <2>5, <2>6 DEF GraphListed, At
<1>7. Alone({"GALLOC", "GDESTROY"})' => Alone({"GALLOC", "GDESTROY"})
  BY <1>1 DEF Alone, Callers
<1>8. QED
  BY <1>5, <1>6, <1>7 DEF GraphInv

\* A graph that was never allocated is freed.
LEMMA CreatedGraphs ==
  ASSUME HoldInv, ObjectShape, GraphInv, NEW t \in Threads, GDestroyCreated(t)
  PROVE  GraphInv'
<1>1. At(t, "GDESTROY", "enter") /\ usage' = usage /\ thr'[t] = Idle /\ OnlyThread(t)
      /\ UNCHANGED <<head, next>> /\ graph[thr[t].g].st = "created"
      /\ graph' = [graph EXCEPT ![thr[t].g].st = "freed"]
  BY GoesTo DEF GDestroyCreated, OnlyThread
<1>2. PICK g : g = thr[t].g
  OBVIOUS
<1>3. g \in Graphs
  BY <1>1, <1>2, CallHas DEF HoldInv, ThreadInv, At
<1>4. graph'[g].st = "freed" /\ \A x \in Graphs : x # g => graph'[x] = graph[x]
  BY <1>1, <1>2, <1>3 DEF ObjectShape, GraphShape
<1>5. \A s \in Threads : GraphPlaces(s)'
  BY <1>1, <1>2, <1>4, PlacesKept DEF At
<1>6. ASSUME Alone({"GALLOC", "GDESTROY"}), GraphListed PROVE GraphListed'
  <2>1. \A s \in Threads : thr'[s].op \notin {"GALLOC", "GDESTROY"}
    BY <1>1, <1>6, OneCaller, InCall DEF OnlyThread, At, Idle
  <2>2. \A x \in Graphs : x \in Led(next', head'.graphs) <=> GraphLive(x)'
    <3>1. \A x \in Graphs : GraphLive(x)' <=> GraphLive(x)
      BY <1>1, <1>2, <1>4 DEF GraphLive
    <3>2. QED
      BY <1>1, <1>6, <3>1 DEF GraphListed
  <2>3. ASSUME NEW x \in Graphs, graph'[x].st = "created" PROVE next'[x] = None
    <3>1. x # g /\ graph[x].st = "created"
      BY <1>4, <2>3
    <3>2. ASSUME NEW s \in Threads, At(s, "GALLOC", "linked") PROVE FALSE
      BY <1>1, <1>6, <3>2, OneCaller, InCall DEF At
    <3>3. QED
      BY <1>1, <1>6, <3>1, <3>2 DEF GraphListed
  <2>4. ChainOf(next', head'.graphs)
    BY <1>1, <1>6 DEF GraphListed
  <2>5. QED
    BY <2>1, <2>2, <2>3, <2>4 DEF GraphListed, At
<1>7. Alone({"GALLOC", "GDESTROY"})' => Alone({"GALLOC", "GDESTROY"})
  BY <1>1 DEF Alone, Callers
<1>8. QED
  BY <1>5, <1>6, <1>7 DEF GraphInv

\* A graph that is not found is left alone.
LEMMA LostGraphs ==
  ASSUME HoldInv, ObjectShape, GraphInv, NEW t \in Threads, GDestroyFree(t),
         thr[t].g \notin List(head.graphs)
  PROVE  GraphInv'
<1>1. At(t, "GDESTROY", "free") /\ UNCHANGED <<usage, head, next, graph>>
      /\ (Return(t) \/ Goto(t, "crashed"))
  BY DEF GDestroyFree
<1>2. OnlyThread(t) /\ thr'[t].pc \in {"idle", "crashed"}
      /\ (thr'[t] = Idle \/ SameCall(thr'[t], thr[t]))
  BY <1>1, GoesTo DEF OnlyThread, Idle
<1>3. GraphsStay
  BY <1>1 DEF GraphsStay, GraphLive
<1>4. GraphPlaces(t)'
  BY <1>1, <1>2 DEF GraphInv, GraphPlaces, GraphLive, SameCall, Idle, At
<1>5. QED
  BY <1>1, <1>2, <1>3, <1>4, GraphsCalm DEF At

\* A graph is taken out of the list and freed.
LEMMA FreeGraphs ==
  ASSUME HoldInv, ObjectShape, GraphInv, NEW t \in Threads, GDestroyFree(t),
         thr[t].g \in List(head.graphs)
  PROVE  GraphInv'
<1>1. At(t, "GDESTROY", "free") /\ usage' = usage /\ thr'[t] = Idle /\ OnlyThread(t)
      /\ graph' = [graph EXCEPT ![thr[t].g].st = "freed"] /\ Removed("graphs", thr[t].g)
  BY GoesTo DEF GDestroyFree, OnlyThread
<1>2. PICK g : g = thr[t].g
  OBVIOUS
<1>3. g \in Graphs
  BY <1>1, <1>2, CallHas DEF HoldInv, ThreadInv, At
<1>4. graph'[g].st = "freed" /\ \A x \in Graphs : x # g => graph'[x] = graph[x]
  BY <1>1, <1>2, <1>3 DEF ObjectShape, GraphShape
<1>5. \A s \in Threads : GraphPlaces(s)'
  BY <1>1, <1>2, <1>4, PlacesKept DEF At
<1>6. ASSUME Alone({"GALLOC", "GDESTROY"}), GraphListed PROVE GraphListed'
  <2>1. \A s \in Threads : thr'[s].op \notin {"GALLOC", "GDESTROY"}
    BY <1>1, <1>6, OneCaller, InCall DEF OnlyThread, At, Idle
  <2>2. PICK h, L : h = head.graphs /\ L = Led(next, head.graphs)
    OBVIOUS
  <2>3. g \in L /\ ChainOf(next, h) /\ g \in Objs /\ L = List(h)
    BY <1>1, <1>2, <1>3, <1>6, <2>2, ListLed DEF GraphListed, At, Objs
  <2>4. next \in Pointers /\ h \in Objs \cup {None} /\ L \subseteq Graphs
    BY <2>2, ListsApart DEF ObjectShape
  <2>5. /\ Led(next', head'.graphs) = L \ {g} /\ ChainOf(next', head'.graphs)
        /\ \A x \in Graphs \ L : next'[x] = next[x]
    <3>1. CASE h = g
      <4>1. head'.graphs = next[g] /\ next' = next
        BY <1>1, <1>2, <2>2, <3>1 DEF Removed, ObjectShape, ListsShape
      <4>2. Led(next, next[h]) = L \ {h} /\ ChainOf(next, next[h])
        <5>1. PICK n : n = next
          OBVIOUS
        <5>2. n \in Pointers /\ h \in Objs /\ ChainOf(n, h) /\ L = Led(n, h)
          BY <2>2, <2>3, <2>4, <3>1, <5>1
        <5>3. Led(n, n[h]) = Led(n, h) \ {h} /\ ChainOf(n, n[h])
          BY <5>2, LedBehead
        <5>4. QED
          BY <5>1, <5>2, <5>3
      <4>3. QED
        BY <3>1, <4>1, <4>2
    <3>2. CASE h # g
      <4>1. /\ head' = head
            /\ next' = [y \in Objs |-> IF y \in L /\ next[y] = g THEN next[g] ELSE next[y]]
        BY <1>1, <1>2, <2>2, <2>3, <3>2 DEF Removed
      <4>2. PICK n : n = next'
        OBVIOUS
      <4>3. n = [y \in Objs |-> IF y \in Led(next, h) /\ next[y] = g THEN next[g] ELSE next[y]]
        BY <2>2, <4>1, <4>2
      <4>4. Led(n, h) = L \ {g} /\ ChainOf(n, h)
        <5>1. PICK m : m = next
          OBVIOUS
        <5>2. /\ m \in Pointers /\ h \in Objs \cup {None} /\ g \in Objs /\ h # g
                   /\ ChainOf(m, h)
              /\ g \in Led(m, h) /\ L = Led(m, h)
          BY <2>2, <2>3, <2>4, <3>2, <5>1
        <5>3. n = [y \in Objs |-> IF y \in Led(m, h) /\ m[y] = g THEN m[g] ELSE m[y]]
          BY <4>3, <5>1
        <5>4. Led(n, h) = Led(m, h) \ {g} /\ ChainOf(n, h)
          BY <5>2, <5>3, LedUnlink
        <5>5. QED
          BY <5>2, <5>4
      <4>5. QED
        BY <2>2, <4>1, <4>2, <4>4 DEF Objs
    <3>3. QED
      BY <3>1, <3>2
  <2>6. \A x \in Graphs : x \in Led(next', head'.graphs) <=> GraphLive(x)'
    BY <1>4, <1>6, <2>2, <2>5 DEF GraphListed, GraphLive
  <2>7. ASSUME NEW x \in Graphs, graph'[x].st = "created" PROVE next'[x] = None
    <3>1. x # g /\ graph[x].st = "created"
      BY <1>4, <2>7
    <3>2. x \notin L
      BY <1>6, <2>2, <3>1 DEF GraphListed, GraphLive
    <3>3. ASSUME NEW s \in Threads, At(s, "GALLOC", "linked") PROVE FALSE
      BY <1>1, <1>6, <3>3, OneCaller, InCall DEF At
    <3>4. QED
      BY <1>6, <2>5, <3>1, <3>2, <3>3 DEF GraphListed
  <2>8. QED
    BY <2>1, <2>5, <2>6, <2>7 DEF GraphListed, At
<1>7. Alone({"GALLOC", "GDESTROY"})' => Alone({"GALLOC", "GDESTROY"})
  BY <1>1 DEF Alone, Callers
<1>8. QED
  BY <1>5, <1>6, <1>7 DEF GraphInv

\* ncDeviceClose frees what is listed.
LEMMA CloseGraphs ==
  ASSUME HoldInv, ObjectShape, GraphInv, NEW t \in Threads, Close(t)
  PROVE  GraphInv'
<1>1. /\ thr[t].pc = "close" /\ usage' = usage /\ OnlyThread(t) /\ next' = next
      /\ head'.graphs = None
           /\ (thr'[t] = Idle \/ (thr'[t].pc = "destroy" /\ SameCall(thr'[t], thr[t])))
  BY GoesTo DEF Close, OnlyThread
<1>2. PICK L : L = Led(next, head.graphs)
  OBVIOUS
<1>3. \A g \in Graphs : /\ g \in L => graph'[g].st = "freed"
                        /\ g \notin L => graph'[g] = graph[g]
  <2>1. L = List(head.graphs)
    BY <1>2, ListLed
  <2>2. graph' = [g \in Graphs |-> IF g \in L THEN [graph[g] EXCEPT !.st = "freed"] ELSE graph[g]]
    BY <2>1 DEF Close
  <2>3. QED
    BY <2>2 DEF ObjectShape, GraphShape
<1>4. \A s \in Threads : thr'[s].op \notin {"GALLOC", "GDESTROY", "STATE"}
  <2> SUFFICES ASSUME NEW s \in Threads PROVE thr'[s].op \notin {"GALLOC", "GDESTROY", "STATE"}
    OBVIOUS
  <2>1. CASE s = t
    BY <1>1, <2>1 DEF HoldInv, ThreadInv, Placed, PlacedAt, SameCall, Idle
  <2>2. CASE s # t
    BY <1>1, <2>2, CloseIsAlone, InCall DEF OnlyThread
  <2>3. QED
    BY <2>1, <2>2
<1>5. \A s \in Threads : GraphPlaces(s)'
  BY <1>4 DEF GraphPlaces
<1>6. ASSUME GraphListed PROVE GraphListed'
  <2>1. Led(next', head'.graphs) = {}
    BY <1>1, LedNone
  <2>2. \A g \in Graphs : ~GraphLive(g)'
    BY <1>2, <1>3, <1>6 DEF GraphListed, GraphLive
  <2>3. ASSUME NEW x \in Graphs, graph'[x].st = "created" PROVE next'[x] = None
    <3>1. graph[x].st = "created"
      BY <1>3, <2>3
    <3>2. ASSUME NEW s \in Threads, At(s, "GALLOC", "linked") PROVE FALSE
      BY <1>1, <3>2, CloseIsAlone DEF At
    <3>3. QED
      BY <1>1, <1>6, <3>1, <3>2 DEF GraphListed
  <2>4. QED
    BY <1>4, <2>1, <2>2, <2>3 DEF GraphListed, At, ChainOf
<1>7. Alone({"GALLOC", "GDESTROY"})' => Alone({"GALLOC", "GDESTROY"})
  BY <1>1 DEF Alone, Callers
<1>8. QED
  BY <1>5, <1>6, <1>7 DEF GraphInv

\* A call begins.
LEMMA CallBegins ==
  ASSUME HoldInv, NEW t \in Threads, Call(t)
  PROVE  /\ OnlyThread(t) /\ thr[t] = Idle /\ thr'[t].pc = "enter"
         /\ UNCHANGED <<usage, mutex, dev, head, next, graph, fifo, resp, stick, writes, got>>
         /\ \E c \in usage.calls[t] : Allowed(c) /\ SameCall(thr'[t], c)
<1>1. PICK c \in usage.calls[t] :
        /\ Allowed(c)
        /\ thr' = [thr EXCEPT ![t] =
             [Idle EXCEPT !.pc = "enter", !.op = c.op, !.g = c.g, !.f = c.f, !.o = c.o]]
  BY DEF Call
<1>2. thr'[t] = [Idle EXCEPT !.pc = "enter", !.op = c.op, !.g = c.g, !.f = c.f, !.o = c.o]
  BY <1>1 DEF HoldInv, ThreadInv, ThrOK
<1>3. SameCall(thr'[t], c) /\ thr'[t].pc = "enter"
  BY <1>2 DEF SameCall, Idle
<1>4. QED
  BY <1>1, <1>3 DEF Call, OnlyThread, HoldInv, ThreadInv, ThrOK, Calling

LEMMA CallGraphs ==
  ASSUME HoldInv, ObjectShape, GraphInv, NEW t \in Threads, Call(t)
  PROVE  GraphInv'
<1>1. /\ OnlyThread(t) /\ thr[t] = Idle /\ thr'[t].pc = "enter"
      /\ UNCHANGED <<usage, mutex, dev, head, next, graph, fifo, resp, stick, writes, got>>
  BY CallBegins
<1>2. PICK c \in usage.calls[t] : Allowed(c) /\ SameCall(thr'[t], c)
  BY CallBegins
<1>3. c \in CallRecords /\ HasObjects(c)
  BY <1>2, NcAssumption DEF HoldInv, ThreadInv, ThrOK
<1>4. c.op \in {"GALLOC", "GDESTROY", "STATE"} => c.g \in Graphs /\ graph[c.g].st # "freed"
  <2>1. c.op \in {"GALLOC", "GDESTROY", "STATE"} => c.g \in Graphs
    BY <1>3 DEF CallRecords, HasObjects
  <2>2. c.g \in Graphs => ~Gone(c.g)
    BY <1>2, NcAssumption DEF Allowed, Objects
  <2>3. QED
    BY <2>1, <2>2 DEF Gone
<1>5. GraphPlaces(t)'
  BY <1>1, <1>2, <1>4 DEF GraphPlaces, SameCall, Allowed
<1>6. GraphsStay
  BY <1>1 DEF GraphsStay, GraphLive
<1>7. ~At(t, "GALLOC", "linked") /\ ~At(t, "GALLOC", "linked")'
  BY <1>1 DEF At, Idle
<1>8. QED
  BY <1>1, <1>5, <1>6, <1>7, GraphsCalm

\* The lists of graphs in every step.
LEMMA StepGraphs == HoldInv /\ ObjectShape /\ GraphInv /\ [Next]_vars => GraphInv'
<1> SUFFICES ASSUME HoldInv, ObjectShape, GraphInv, [Next]_vars PROVE GraphInv'
  OBVIOUS
<1>1. CASE UNCHANGED vars \/ StickRuns
  <2>1. UNCHANGED <<usage, head, next, graph, thr>>
    BY <1>1, Zenon DEF vars, StickRuns
  <2>2. QED
    BY <2>1 DEF GraphInv, GraphPlaces, GraphListed, GraphLive, At, Alone, Callers
<1>2. ASSUME NEW t \in Threads, Thread(t)
      PROVE  GraphInv'
  <2>1. CASE Call(t)
    BY <2>1, CallGraphs
  <2>2. CASE OpsOf(t) /\ thr[t].pc # "idle" /\ Steps(t)
    <3>0. OnlyThread(t) /\ usage' = usage /\ (thr'[t] = Idle \/ SameCall(thr'[t], thr[t]))
      BY <2>2 DEF Steps, Advances, OnlyThread
    <3>1. CASE thr[t].op \in {"GALLOC", "GDESTROY", "STATE"} /\ GraphCalls(t)
      BY <3>1, CalmGraphCalls, LinkGraphs, LinkedGraphs, CreatedGraphs, FreeGraphs,
         LostGraphs, StateSetGraphs DEF GraphCalls
    <3>2. CASE Close(t)
      BY <3>2, CloseGraphs
    <3>3. CASE ~Close(t) /\ ~(thr[t].op \in {"GALLOC", "GDESTROY", "STATE"} /\ GraphCalls(t))
      <4>1. thr[t].op \notin {"GALLOC", "GDESTROY", "STATE"}
        BY <2>2, <3>3 DEF OpsOf, DeviceOps
      <4>2. \/ OpenEnter(t) \/ OpenMonitor(t) \/ CloseEnter(t) \/ Destroy(t)
            \/ FifoCalls(t) \/ Elements(t)
        BY <2>2, <3>3, <4>1 DEF OpsOf, Devices, FifoCalls, FifoAllocs, FifoDestroys, Elements,
           Writes,
           Triggers, ReadsElem
      <4>3. GraphsStay
        BY <4>2, OthersLeaveGraphs
      <4>4. thr'[t].op \notin {"GALLOC", "GDESTROY", "STATE"}
        BY <3>0, <4>1 DEF SameCall, Idle
      <4>5. GraphPlaces(t)' /\ ~At(t, "GALLOC", "linked") /\ ~At(t, "GALLOC", "linked")'
        BY <4>1, <4>4 DEF GraphPlaces, At
      <4>6. QED
        BY <3>0, <4>3, <4>4, <4>5, GraphsCalm
    <3>4. QED
      BY <3>1, <3>2, <3>3
  <2>3. QED
    BY <1>2, <2>1, <2>2, StepOps
<1>3. QED
  BY <1>1, <1>2 DEF Next

\* A set of numbers has a least one (the numbers are well founded).
LEMMA Smallest ==
  ASSUME NEW T, T \subseteq Nat, T # {}
  PROVE  \E x \in T : \A y \in T : x <= y
<1>1. OpToRel(<, Nat) = {ss \in Nat \X Nat : ss[1] < ss[2]}
  BY DEF OpToRel
<1>2. PICK R : R = {ss \in Nat \X Nat : ss[1] < ss[2]}
  OBVIOUS
<1>3. IsWellFoundedOn(R, Nat)
  BY <1>1, <1>2, NatLessThanWellFounded
<1>4. \E x \in T : \A y \in T : ~(<<y, x>> \in R)
  BY <1>3, WFMin
<1>5. \A x, y \in Nat : y < x => <<y, x>> \in R
  <2> TAKE x, y \in Nat
  <2> HAVE y < x
  <2>1. PICK p : p = <<y, x>>
    OBVIOUS
  <2>2. p \in Nat \X Nat /\ p[1] = y /\ p[2] = x
    BY <2>1
  <2>3. p \in R
    BY <1>2, <2>2
  <2>4. QED
    BY <2>1, <2>3
<1>6. PICK x \in T : \A y \in T : ~(<<y, x>> \in R)
  BY <1>4
<1>7. \A y \in T : y \in Nat /\ ~(y < x)
  BY <1>5, <1>6
<1>8. QED
  BY <1>6, <1>7

\* The pointers that a list of distinct objects begins with lead through it.
LEMMA AfterAt ==
  ASSUME NEW list, NEW G, list \in Seq(G), \A i, j \in 1 .. Len(list) : list[i] = list[j]
           => i = j
  PROVE  /\ \A i \in 1 .. Len(list) - 1 : After(list, list[i]) = list[i + 1]
         /\ list # <<>> => After(list, list[Len(list)]) = None
         /\ \A x : (\A i \in 1 .. Len(list) : list[i] # x) => After(list, x) = None
<1>0. Len(list) \in Nat
  OBVIOUS
<1>1. ASSUME NEW i \in 1 .. Len(list) - 1 PROVE After(list, list[i]) = list[i + 1]
  <2>1. PICK x : x = list[i]
    OBVIOUS
  <2>2. PICK k : k = CHOOSE j \in 1 .. Len(list) - 1 : list[j] = x
    OBVIOUS
  <2>3. \E j \in 1 .. Len(list) - 1 : list[j] = x
    BY <2>1
  <2>4. k \in 1 .. Len(list) - 1 /\ list[k] = x
    BY <2>2, <2>3
  <2>5. k = i
    BY <1>0, <2>1, <2>4
  <2>6. After(list, x) = list[k + 1]
    BY <2>2, <2>3, Zenon DEF After
  <2>7. QED
    BY <2>1, <2>5, <2>6
<1>2. ASSUME list # <<>> PROVE After(list, list[Len(list)]) = None
  <2>1. Len(list) \in 1 .. Len(list) /\ \A i \in 1 .. Len(list) - 1 : i \in 1 .. Len(list)
          /\ i # Len(list)
    BY <1>0, <1>2
  <2>2. ~\E i \in 1 .. Len(list) - 1 : list[i] = list[Len(list)]
    BY <2>1
  <2>3. QED
    BY <2>2 DEF After
<1>3. ASSUME NEW x, \A i \in 1 .. Len(list) : list[i] # x PROVE After(list, x) = None
  BY <1>0, <1>3 DEF After
<1>4. QED
  BY <1>1, <1>2, <1>3

LEMMA LedList ==
  ASSUME NEW list, NEW G, list \in Seq(G), \A i, j \in 1 .. Len(list) : list[i] = list[j]
           => i = j,
         NEW n \in Pointers, G \subseteq Objs, \A x \in G : n[x] = After(list, x)
  PROVE  /\ Led(n, First(list)) = {list[i] : i \in 1 .. Len(list)}
         /\ ChainOf(n, First(list))
         /\ \A x \in G : x \notin Led(n, First(list)) => n[x] = None
<1>1. PICK h, L, R : h = First(list) /\ L = Led(n, h) /\ R = {list[i] : i \in 1 .. Len(list)}
  OBVIOUS
<1>2. /\ Len(list) \in Nat /\ \A i \in 1 .. Len(list) : list[i] \in G /\ list[i] \in R
           /\ list[i] # None
      /\ \A x \in R : \E i \in 1 .. Len(list) : x = list[i]
      /\ list = <<>> <=> Len(list) = 0
  BY <1>1, NoneApart
<1>3. /\ \A i \in 1 .. Len(list) - 1 : n[list[i]] = list[i + 1]
      /\ list # <<>> => n[list[Len(list)]] = None
  <2>1. list # <<>> => Len(list) \in 1 .. Len(list)
    BY <1>2
  <2>2. \A i \in 1 .. Len(list) - 1 : i \in 1 .. Len(list)
    BY <1>2
  <2>3. QED
    BY <1>2, <2>1, <2>2, AfterAt
<1>4. list # <<>> => h = list[1]
  BY <1>1 DEF First
<1>5. L \subseteq R
  <2>1. R \in SUBSET Objs
    BY <1>2
  <2>2. h \in R \cup {None}
    BY <1>1, <1>2 DEF First
  <2>3. ASSUME NEW y \in R PROVE n[y] \in R \cup {None}
    <3>1. PICK i \in 1 .. Len(list) : y = list[i]
      BY <1>2
    <3>2. CASE i = Len(list)
      BY <1>2, <1>3, <3>1, <3>2
    <3>3. CASE i # Len(list)
      <4>1. i \in 1 .. Len(list) - 1 /\ i + 1 \in 1 .. Len(list)
        BY <1>2, <3>3
      <4>2. QED
        BY <1>2, <1>3, <3>1, <4>1
    <3>4. QED
      BY <3>2, <3>3
  <2>4. \A y \in R : n[y] \in R \cup {None}
    BY <2>3
  <2>5. Led(n, h) \subseteq R
    BY <2>1, <2>2, <2>4, LedLeast
  <2>6. QED
    BY <1>1, <2>5
<1>6. R \subseteq L
  <2>1. SUFFICES ASSUME NEW x \in R, x \notin L PROVE FALSE
    OBVIOUS
  <2>2. PICK T : T = {i \in 1 .. Len(list) : list[i] \notin L}
    OBVIOUS
  <2>3. T \subseteq Nat /\ T # {}
    BY <1>2, <2>1, <2>2
  <2>4. PICK i \in T : \A j \in T : i <= j
    BY <2>3, Smallest
  <2>5. i \in 1 .. Len(list) /\ list[i] \notin L
    BY <2>2, <2>4
  <2>6. h \in Objs \cup {None}
    BY <1>1, <1>2 DEF First
  <2>7. CASE i = 1
    BY <1>1, <1>2, <1>4, <2>5, <2>6, <2>7, LedClosed
  <2>8. CASE i # 1
    <3>1. i - 1 \in 1 .. Len(list) - 1 /\ i - 1 \in 1 .. Len(list) /\ i - 1 + 1 = i
      BY <1>2, <2>5, <2>8
    <3>2. i - 1 \notin T
      BY <2>4, <2>5, <3>1
    <3>3. list[i - 1] \in L
      BY <2>2, <3>1, <3>2
    <3>4. n[list[i - 1]] = list[i]
      BY <1>3, <3>1
    <3>5. list[i] \in L \cup {None}
      BY <1>1, <1>2, <2>5, <2>6, <3>3, <3>4, LedClosed
    <3>6. QED
      BY <1>2, <2>5, <3>5
  <2>9. QED
    BY <2>7, <2>8
<1>7. \A x \in L : \E i \in 1 .. Len(list) : x = list[i]
  BY <1>2, <1>5
<1>8. \A x \in L : n[x] # h
  <2> SUFFICES ASSUME NEW x \in L, n[x] = h PROVE FALSE
    OBVIOUS
  <2>1. PICK i \in 1 .. Len(list) : x = list[i]
    BY <1>7
  <2>2. h = list[1] /\ h # None /\ 1 \in 1 .. Len(list)
    BY <1>2, <1>4
  <2>3. i # Len(list)
    BY <1>2, <1>3, <2>1, <2>2
  <2>4. i \in 1 .. Len(list) - 1 /\ i + 1 \in 1 .. Len(list) /\ i + 1 # 1
    BY <1>2, <2>3
  <2>5. QED
    BY <1>3, <2>1, <2>2, <2>4
<1>9. \A x, y \in L : n[x] = n[y] /\ n[x] # None => x = y
  <2> SUFFICES ASSUME NEW x \in L, NEW y \in L, n[x] = n[y], n[x] # None PROVE x = y
    OBVIOUS
  <2>1. PICK i \in 1 .. Len(list) : x = list[i]
    BY <1>7
  <2>2. PICK j \in 1 .. Len(list) : y = list[j]
    BY <1>7
  <2>3. i # Len(list) /\ j # Len(list)
    BY <1>2, <1>3, <2>1, <2>2
  <2>4. /\ i \in 1 .. Len(list) - 1 /\ i + 1 \in 1 .. Len(list)
        /\ j \in 1 .. Len(list) - 1 /\ j + 1 \in 1 .. Len(list)
    BY <1>2, <2>3
  <2>5. i + 1 = j + 1
    BY <1>3, <2>1, <2>2, <2>4
  <2>6. QED
    BY <2>1, <2>2, <2>4, <2>5
<1>10. \A x \in G : x \notin L => n[x] = None
  BY <1>2, <1>6, AfterAt
<1>11. QED
  BY <1>1, <1>5, <1>6, <1>8, <1>9, <1>10 DEF ChainOf

LEMMA InitGraphs == Init => GraphInv
<1> SUFFICES ASSUME Init PROVE GraphInv
  OBVIOUS
<1>1. /\ usage \in Usages /\ thr = [t \in Threads |-> Idle]
      /\ head.graphs = First(usage.ready.graphs)
      /\ next = [x \in Objs |-> IF x \in Graphs THEN After(usage.ready.graphs, x)
                                ELSE After(usage.ready.fifos, x)]
      /\ graph = [g \in Graphs |-> NewGraph(usage, g)]
  BY DEF Init
<1>2. PICK list : list = usage.ready.graphs
  OBVIOUS
<1>3. list \in Seq(Graphs) /\ \A i, j \in 1 .. Len(list) : list[i] = list[j] => i = j
  BY <1>1, <1>2, NcAssumption DEF IsReady
<1>4. next \in Pointers /\ Graphs \subseteq Objs /\ \A g \in Graphs : next[g] = After(list, g)
  BY <1>1, <1>2, InitShape, ListsApart DEF ObjectShape, Objs
<1>5. /\ Led(next, First(list)) = {list[i] : i \in 1 .. Len(list)}
      /\ ChainOf(next, First(list))
      /\ \A x \in Graphs : x \notin Led(next, First(list)) => next[x] = None
  <2>1. PICK n : n = next
    OBVIOUS
  <2>2. n \in Pointers /\ \A x \in Graphs : n[x] = After(list, x)
    BY <1>4, <2>1
  <2>3. QED
    BY <1>3, <1>4, <2>1, <2>2, LedList
<1>6. \A g \in Graphs : graph[g].st = IF g \in {list[i] : i \in 1 .. Len(list)}
                          THEN "allocated" ELSE "created"
  <2>1. Range(list) = {list[i] : i \in 1 .. Len(list)}
    BY <1>3 DEF Range
  <2>2. QED
    BY <1>1, <1>2, <2>1 DEF NewGraph
<1>7. \A t \in Threads : thr[t].op = "NONE" /\ thr[t].pc = "idle"
  BY <1>1 DEF Idle
<1>8. GraphListed
  <2>1. \A g \in Graphs : g \in Led(next, head.graphs) <=> GraphLive(g)
    BY <1>1, <1>2, <1>5, <1>6 DEF GraphLive
  <2>2. \A g \in Graphs : graph[g].st = "created" => next[g] = None
    BY <1>5, <1>6
  <2>3. QED
    BY <1>1, <1>2, <1>5, <1>7, <2>1, <2>2 DEF GraphListed, At
<1>9. QED
  BY <1>7, <1>8 DEF GraphInv, GraphPlaces

-----------------------------------------------------------------------------
(* The device and the list of the fifos.                                     *)

\* The place of an allocation that has found the device.
Allocates(t) ==
  /\ thr[t].op = "FALLOC"
  /\ thr[t].pc \in {"link", "send", "check"} \/ (thr[t].pc = "find" /\ thr[t].seen # FALSE)

\* What the list of the devices says of the device. A fifo is allocated only once the
\* device was opened; without ncDeviceClose a device that was closed is being destroyed.
DeviceKnown ==
  /\ \A t \in Threads : thr[t].pc = "close" => ~dev.listed
  /\ dev.listed => dev.monitor \/ \E t \in Threads : thr[t].pc = "monitor"
  /\ \A t \in Threads : Allocates(t) => dev.monitor
  /\ dev.monitor => dev.st \in {"opened", "destroyed"}
  /\ Callers({"CLOSE"}) = {} /\ dev.st = "closed"
       => \E t \in Threads : At(t, "DESTROY", "destroy")
  /\ dev.st = "created" => \A f \in Fifos : fifo[f].st # "allocated"
  /\ \A t \in Threads : thr[t].op = "OPEN" => dev.st \in {"created", "closed"}

\* The state of a fifo changes at the end of an allocation or a destruction.
LEMMA FifoStatesGo ==
  ASSUME HoldInv, DataShape, NEW t \in Threads, OpsOf(t), ~Close(t)
  PROVE  \A f \in Fifos :
           \/ fifo'[f].st = fifo[f].st
           \/ /\ f = thr[t].f /\ thr'[t] = Idle
              /\ \/ At(t, "FALLOC", "check") /\ fifo'[f].st = "allocated"
                 \/ thr[t].op = "FDESTROY" /\ fifo'[f].st = "freed"
                    /\ (FDestroyCreated(t) \/ FDestroyFree(t))
<1>1. CASE Devices(t)
  BY <1>1, DevicesDo
<1>2. CASE GraphCalls(t)
  BY <1>2, GraphsDo
<1>3. CASE SetType(t) \/ SetDesc(t)
  BY <1>3, OptionDoes DEF DataShape, OthersSame
<1>4. CASE thr[t].op = "FALLOC" /\ FifoAllocs(t)
  <2>1. CASE FAllocRead(t)
    BY <2>1, FAllocReadDoes
  <2>2. CASE FAllocFind(t)
    BY <2>2, FAllocFindDoes DEF DataShape, OthersSame
  <2>3. CASE FAllocLink(t) \/ FAllocSend(t) \/ FAllocCheck(t)
    BY <1>4, <2>3, FAllocRestDoes DEF DataShape, OthersSame, At
  <2>4. QED
    BY <1>4, <2>1, <2>2, <2>3 DEF FifoAllocs
<1>5. CASE thr[t].op = "FDESTROY" /\ FifoDestroys(t)
  <2>1. FDestroyCreated(t) => thr'[t] = Idle
    BY GoesTo DEF FDestroyCreated
  <2>2. QED
    BY <1>5, <2>1, FDestroyDoes DEF OthersSame
<1>6. CASE Writes(t)
  BY <1>6, WriteEnterDoes, WriteSendDoes, WriteCountDoes DEF Writes, OthersSame
<1>7. CASE Triggers(t)
  BY <1>7, QueueInDoes, QueueDrainDoes, QueueTakeDoes, QueueOutDoes, QueueSendDoes,
     QueueRestDoes
     DEF Triggers, OthersSame
<1>8. CASE ReadsElem(t)
  BY <1>8, ReadEnterDoes, ReadWaitDoes, ReadCountDoes DEF ReadsElem, OthersSame
<1>9. QED
  BY <1>1, <1>2, <1>3, <1>4, <1>5, <1>6, <1>7, <1>8 DEF OpsOf

LEMMA AllocGoes ==
  ASSUME HoldInv, DataShape, DeviceShape, NEW t \in Threads, OpsOf(t), thr[t].op = "FALLOC",
           Allocates(t)'
  PROVE  Allocates(t) \/ (thr[t].pc = "enter" /\ dev.listed)
<1>0. thr'[t] # Idle
  BY DEF Allocates, Idle
<1>1. CASE FAllocRead(t)
  <2>1. thr[t].pc = "enter" /\ thr'[t].pc = "find" /\ thr'[t].seen = dev.listed
    BY <1>0, <1>1, FAllocReadDoes
  <2>2. dev.listed \in BOOLEAN
    BY DEF DeviceShape
  <2>3. QED
    BY <2>1, <2>2 DEF Allocates
<1>2. CASE FAllocFind(t)
  BY <1>0, <1>2, FAllocFindDoes DEF DataShape, Allocates
<1>3. CASE FAllocLink(t) \/ FAllocSend(t) \/ FAllocCheck(t)
  BY <1>3, FAllocRestDoes DEF DataShape, Allocates
<1>4. QED
  BY <1>1, <1>2, <1>3 DEF OpsOf, FifoAllocs, DeviceOps

LEMMA DevicesKnown ==
  ASSUME HoldInv, DataShape, DeviceShape, FifosAllocated, DeviceKnown, NEW t \in Threads,
         thr[t].op \in DeviceOps, Devices(t)
  PROVE  DeviceKnown'
<1>1. thr[t].pc # "idle" /\ OnlyThread(t) /\ usage' = usage
      /\ (thr'[t] = Idle \/ SameCall(thr'[t], thr[t]))
  BY DevicesDo, ProceedsDoes, InCall DEF OnlyThread, DeviceOps
<1>2. \A s \in Threads : s # t => thr[s].pc = "idle" /\ thr'[s].pc = "idle"
                           /\ thr'[s].op = "NONE"
  BY <1>1, CloseIsAlone, InCall DEF OnlyThread
<1>3. \A s \in Threads : ~Allocates(s)'
  <2>1. thr'[t].op # "FALLOC"
    BY <1>1 DEF DeviceOps, SameCall, Idle
  <2>2. \A s \in Threads : thr'[s].op # "FALLOC"
    BY <1>2, <2>1
  <2>3. QED
    BY <2>2 DEF Allocates
<1>4. /\ dev.listed \in BOOLEAN /\ dev.monitor \in BOOLEAN
           /\ DOMAIN dev = {"st", "listed", "monitor"}
  BY DEF DeviceShape
<1>5. Callers({"CLOSE"})' = Callers({"CLOSE"})
  BY <1>1 DEF Callers
<1>6. CASE OpenEnter(t)
  <2>1. /\ At(t, "OPEN", "enter")
        /\ \/ thr'[t] = Idle /\ dev' = dev
           \/ thr'[t].pc = "monitor" /\ dev' = [dev EXCEPT !.listed = TRUE]
        /\ fifo' = fifo
    BY <1>6, GoesTo DEF OpenEnter
  <2>2. /\ dev'.st = dev.st /\ dev'.monitor = dev.monitor
        /\ dev'.listed = dev.listed \/ thr'[t].pc = "monitor"
    BY <1>4, <2>1
  <2>3. \A s \in Threads : ~At(s, "DESTROY", "destroy") /\ thr[s].pc # "monitor"
                             /\ thr'[s].pc # "close"
    BY <1>2, <2>1 DEF At, Idle
  <2>4. QED
    BY <1>2, <1>3, <1>5, <2>1, <2>2, <2>3 DEF DeviceKnown, At
<1>7. CASE OpenMonitor(t)
  <2>1. ~Fails(t, "open")
    BY <1>7 DEF OpenMonitor, At, Fails, FifosAllocated
  <2>2. thr'[t] = Idle /\ dev' = [dev EXCEPT !.st = "opened", !.monitor = TRUE]
    BY <1>7, <2>1, GoesTo DEF OpenMonitor
  <2>3. dev'.st = "opened" /\ dev'.monitor
    BY <1>4, <2>2
  <2>4. \A s \in Threads : thr'[s].pc = "idle" /\ thr'[s].op = "NONE"
    BY <1>2, <2>2 DEF Idle
  <2>5. QED
    BY <1>3, <2>3, <2>4 DEF DeviceKnown
<1>8. CASE CloseEnter(t)
  <2>1. /\ thr[t].pc = "enter" /\ thr[t].op \in {"CLOSE", "DESTROY"} /\ fifo' = fifo
        /\ \/ thr'[t].pc = "close" /\ dev' = [dev EXCEPT !.listed = FALSE]
                /\ SameCall(thr'[t], thr[t])
           \/ thr'[t] = Idle /\ dev' = dev /\ ~dev.listed
    BY <1>8, GoesTo DEF CloseEnter
  <2>2. dev'.st = dev.st /\ dev'.monitor = dev.monitor /\ ~dev'.listed
    BY <1>4, <2>1
  <2>3. \A s \in Threads : ~At(s, "DESTROY", "destroy") /\ thr'[s].op # "OPEN"
    BY <1>2, <2>1 DEF At, Idle, SameCall
  <2>4. QED
    BY <1>3, <1>5, <2>1, <2>2, <2>3 DEF DeviceKnown
<1>9. CASE Close(t)
  <2>1. /\ thr[t].pc = "close" /\ dev' = [dev EXCEPT !.st = "closed", !.monitor = FALSE]
        /\ IF thr[t].op = "DESTROY" THEN thr'[t].pc = "destroy" /\ SameCall(thr'[t], thr[t])
           ELSE thr'[t] = Idle
    BY <1>9, GoesTo DEF Close
  <2>2. dev'.st = "closed" /\ ~dev'.monitor /\ dev'.listed = dev.listed /\ ~dev.listed
    BY <1>4, <2>1 DEF DeviceKnown
  <2>3. thr[t].op \in {"CLOSE", "DESTROY"}
    BY <2>1 DEF HoldInv, ThreadInv, Placed, PlacedAt
  <2>4. ASSUME Callers({"CLOSE"}) = {} PROVE At(t, "DESTROY", "destroy")'
    <3>1. thr[t].op # "CLOSE"
      BY <1>1, <2>4 DEF HoldInv, ThreadInv, Calling, SameCall, Callers
    <3>2. QED
      BY <2>1, <2>3, <3>1 DEF At, SameCall
  <2>5. \A s \in Threads : thr'[s].op # "OPEN" /\ thr'[s].pc # "close"
    BY <1>2, <2>1, <2>3 DEF Idle, SameCall
  <2>6. QED
    BY <1>3, <1>5, <2>2, <2>4, <2>5 DEF DeviceKnown
<1>10. CASE Destroy(t)
  <2>1. thr'[t] = Idle /\ dev' = [dev EXCEPT !.st = "destroyed"]
          /\ thr[t].pc \in {"enter", "destroy"}
    BY <1>10, GoesTo DEF Destroy, At
  <2>2. dev'.st = "destroyed" /\ dev'.monitor = dev.monitor /\ dev'.listed = dev.listed
    BY <1>4, <2>1
  <2>3. \A s \in Threads : thr'[s].pc = "idle" /\ thr'[s].op = "NONE" /\ thr[s].pc # "monitor"
    BY <1>2, <2>1 DEF Idle
  <2>4. QED
    BY <1>3, <2>2, <2>3 DEF DeviceKnown
<1>11. QED
  BY <1>6, <1>7, <1>8, <1>9, <1>10 DEF Devices

LEMMA CallsKnown ==
  ASSUME HoldInv, DataShape, ObjectShape, DeviceKnown, NEW t \in Threads,
         thr[t].pc # "idle", thr[t].op \notin DeviceOps, OpsOf(t), Steps(t)
  PROVE  DeviceKnown' /\ dev' = dev
<1>1. OnlyThread(t) /\ usage' = usage /\ (thr'[t] = Idle \/ SameCall(thr'[t], thr[t]))
        /\ PlacedAt(t)'
  BY DEF Steps, Advances, OnlyThread
<1>2. GraphCalls(t) \/ FifoCalls(t) \/ Elements(t)
  BY DEF OpsOf, FifoCalls, FifoAllocs, FifoDestroys, Elements, Writes, Triggers, ReadsElem
<1>3. dev' = dev
  BY <1>2, DeviceStays DEF RecordsOK, ObjectShape, DeviceShape, ListsShape
<1>4. thr'[t].op \notin DeviceOps /\ thr'[t].pc \notin {"close", "monitor"}
  BY <1>1 DEF SameCall, Idle, DeviceOps, PlacedAt
<1>5. /\ thr[t].pc \notin {"close", "monitor"}
      /\ \A s \in Threads : thr[s].pc = "monitor" => thr[s].op = "OPEN"
  BY DEF HoldInv, ThreadInv, Placed, PlacedAt, DeviceOps
<1>6. \A s \in Threads : thr[s].op \notin DeviceOps
  <2> SUFFICES ASSUME NEW s \in Threads, thr[s].op \in DeviceOps PROVE FALSE
    OBVIOUS
  <2>1. s # t /\ s \in Busy /\ t \in Busy
    BY InCall DEF Busy, DeviceOps
  <2>2. QED
    BY <2>1 DEF HoldInv, ThreadInv, Apart
<1>7. dev.listed => dev.monitor
  BY <1>5, <1>6 DEF DeviceKnown, DeviceOps
<1>8. \A s \in Threads : Allocates(s)' => dev.monitor
  <2> SUFFICES ASSUME NEW s \in Threads, Allocates(s)' PROVE dev.monitor
    OBVIOUS
  <2>1. CASE s # t
    BY <1>1, <2>1 DEF OnlyThread, Allocates, DeviceKnown
  <2>2. CASE s = t
    <3>1. thr[t].op = "FALLOC"
      BY <1>1, <2>2 DEF Allocates, SameCall, Idle
    <3>2. QED
      BY <1>7, <2>2, <3>1, AllocGoes DEF ObjectShape, DeviceKnown
  <2>3. QED
    BY <2>1, <2>2
<1>9. ASSUME dev.st = "created", NEW f \in Fifos PROVE fifo'[f].st # "allocated"
  <2>1. ~Close(t) /\ fifo[f].st # "allocated"
    BY <1>5, <1>9 DEF Close, DeviceKnown
  <2>2. ~dev.monitor
    BY <1>9 DEF DeviceKnown
  <2>3. ~At(t, "FALLOC", "check")
    BY <2>2 DEF DeviceKnown, Allocates, At
  <2>4. QED
    BY <2>1, <2>3, FifoStatesGo
<1>10. ASSUME dev.st = "closed", Callers({"CLOSE"}) = {}
       PROVE  FALSE
  <2>1. PICK s \in Threads : At(s, "DESTROY", "destroy")
    BY <1>10 DEF DeviceKnown
  <2>2. QED
    BY <1>6, <2>1 DEF At, DeviceOps
<1>11. Callers({"CLOSE"})' = Callers({"CLOSE"})
  BY <1>1 DEF Callers
<1>12. \A s \in Threads : thr'[s].op # "OPEN" /\ thr'[s].pc # "close"
  <2> SUFFICES ASSUME NEW s \in Threads PROVE thr'[s].op # "OPEN" /\ thr'[s].pc # "close"
    OBVIOUS
  <2>1. CASE s # t
    BY <1>1, <1>6, <2>1 DEF OnlyThread, DeviceOps, HoldInv, ThreadInv, Placed, PlacedAt
  <2>2. CASE s = t
    BY <1>4, <2>2 DEF DeviceOps
  <2>3. QED
    BY <2>1, <2>2
<1>13. QED
  BY <1>3, <1>7, <1>8, <1>9, <1>10, <1>11, <1>12 DEF DeviceKnown

\* What a destruction knows of its fifo.
FifoPlaces(t) ==
  /\ thr[t].op = "FDESTROY" => fifo[thr[t].f].st # "freed"
  /\ thr[t].op = "FDESTROY" /\ thr[t].pc # "enter" => fifo[thr[t].f].st # "created"
Linking(t) == thr[t].op = "FALLOC" /\ thr[t].pc \in {"send", "check"}

\* No fifo of the list is freed, and one that is not allocated is being linked. While
\* the device is open, and nobody closes it, what is allocated is listed.
FifoListed ==
  /\ \A f \in Led(next, head.fifos) : fifo[f].st # "freed"
  /\ ChainOf(next, head.fifos)
  /\ \A f \in Led(next, head.fifos) : fifo[f].st = "created" =>
       \E t \in Threads : Linking(t) /\ thr[t].f = f
  /\ \A t \in Threads : At(t, "FALLOC", "link") => next[thr[t].f] = head.fifos
  /\ \A t \in Threads : Linking(t) => thr[t].f \in Led(next, head.fifos)
  /\ Callers({"CLOSE"}) = {} /\ dev.st = "opened" =>
       \A f \in Fifos : fifo[f].st = "allocated" => f \in Led(next, head.fifos)
FifoInv ==
  /\ \A t \in Threads : FifoPlaces(t)
  /\ FifosAllocated => DeviceKnown
  /\ Alone({"FALLOC", "FDESTROY"}) /\ FifosAllocated => FifoListed

FifosStay ==
  /\ head'.fifos = head.fifos
  /\ \A f \in Fifos : next'[f] = next[f]

LEMMA FifosCalm ==
  ASSUME HoldInv, ObjectShape, FifoListed, UNCHANGED usage, FifosStay, NEW t \in Threads,
         OnlyThread(t), \A f \in Fifos : fifo'[f].st = fifo[f].st,
         Linking(t) => Linking(t)' /\ thr'[t].f = thr[t].f,
         Linking(t)' => Linking(t) /\ thr'[t].f = thr[t].f,
         ~At(t, "FALLOC", "link")',
         Callers({"CLOSE"}) = {} /\ dev'.st = "opened" =>
           dev.st = "opened" \/ \A f \in Fifos : fifo[f].st # "allocated"
  PROVE  FifoListed'
<1>1. PICK L : L = Led(next, head.fifos)
  OBVIOUS
<1>2. Led(next', head'.fifos) = L /\ ChainOf(next', head'.fifos) /\ L \subseteq Fifos
  BY <1>1, FifoListSame, ListsApart DEF ObjectShape, FifosStay, FifoListed
<1>3. ASSUME NEW f \in L, fifo'[f].st = "created"
      PROVE  \E s \in Threads : Linking(s)' /\ thr'[s].f = f
  <2>1. PICK s \in Threads : Linking(s) /\ thr[s].f = f
    BY <1>1, <1>2, <1>3 DEF FifoListed
  <2>2. CASE s = t
    BY <2>1, <2>2
  <2>3. CASE s # t
    BY <2>1, <2>3 DEF OnlyThread, Linking
  <2>4. QED
    BY <2>2, <2>3
<1>4. ASSUME NEW s \in Threads, At(s, "FALLOC", "link")'
      PROVE  next'[thr'[s].f] = head'.fifos
  <2>1. s # t /\ thr'[s] = thr[s] /\ At(s, "FALLOC", "link")
    BY <1>4 DEF OnlyThread, At
  <2>2. thr[s].f \in Fifos
    BY <2>1, CallHas DEF HoldInv, ThreadInv, At
  <2>3. PICK f : f = thr[s].f
    OBVIOUS
  <2>4. QED
    BY <2>1, <2>2, <2>3 DEF FifosStay, FifoListed
<1>5. ASSUME NEW s \in Threads, Linking(s)'
      PROVE  thr'[s].f \in L
  <2>1. CASE s = t
    BY <1>1, <1>5, <2>1 DEF FifoListed
  <2>2. CASE s # t
    BY <1>1, <1>5, <2>2 DEF FifoListed, OnlyThread, Linking
  <2>3. QED
    BY <2>1, <2>2
<1>6. Callers({"CLOSE"})' = Callers({"CLOSE"})
  BY DEF Callers
<1>7. Callers({"CLOSE"}) = {} /\ dev'.st = "opened" =>
        \A f \in Fifos : fifo'[f].st = "allocated" => f \in L
  BY <1>1 DEF FifoListed
<1>8. \A f \in L : fifo'[f].st # "freed"
  BY <1>1, <1>2 DEF FifoListed
<1>9. QED
  BY <1>2, <1>3, <1>4, <1>5, <1>6, <1>7, <1>8 DEF FifoListed

\* Calls that neither allocate nor destroy fifos leave their list alone.
LEMMA OthersLeaveFifos ==
  ASSUME HoldInv, ObjectShape, NEW t \in Threads, OpsOf(t), ~Close(t),
         thr[t].op \notin {"FALLOC", "FDESTROY"}
  PROVE  FifosStay
<1>1. CASE \/ OpenEnter(t) \/ OpenMonitor(t) \/ CloseEnter(t) \/ Destroy(t)
           \/ SetType(t) \/ SetDesc(t) \/ Writes(t) \/ Triggers(t) \/ ReadsElem(t)
  <2>1. UNCHANGED <<head, next>>
    BY <1>1, Zenon DEF OpenEnter, OpenMonitor, CloseEnter, Destroy, SetType, SetDesc, Writes,
       WriteEnter, WriteSend, WriteCount, Triggers, QueueEnter, QueueIn, QueueDrain, QueueTake,
       QueueOut, QueueSend, QueueCheck, ReadsElem, ReadEnter, ReadWait, ReadCount
  <2>2. QED
    BY <2>1 DEF FifosStay
<1>2. CASE \/ GAllocEnter(t) \/ GAllocSend(t) \/ GAllocData(t) \/ GAllocCheck(t)
           \/ GAllocMemory(t) \/ GDestroyCreated(t) \/ GDestroyEnter(t) \/ GDestroySend(t)
           \/ GDestroyCheck(t) \/ StateEnter(t) \/ StateSend(t) \/ StateCheck(t) \/ StateSet(t)
  <2>1. UNCHANGED <<head, next>>
    BY <1>2, Zenon DEF GAllocEnter, GAllocSend, GAllocData, GAllocCheck, GAllocMemory,
       GDestroyCreated,
       GDestroyEnter, GDestroySend, GDestroyCheck, StateEnter, StateSend, StateCheck, StateSet
  <2>2. QED
    BY <2>1 DEF FifosStay
<1>3. CASE GAllocLink(t) \/ GAllocLinked(t)
  <2>1. thr[t].g \in Graphs
    BY <1>3, CallHas DEF HoldInv, ThreadInv, GAllocLink, GAllocLinked, At
  <2>2. /\ head' = head \/ head' = [head EXCEPT !.graphs = thr[t].g]
        /\ next' = next \/ next' = [next EXCEPT ![thr[t].g] = head.graphs]
    BY <1>3, Zenon DEF GAllocLink, GAllocLinked
  <2>3. QED
    BY <2>1, <2>2, NcAssumption DEF FifosStay, ObjectShape, ListsShape, Objs
<1>4. CASE GDestroyFree(t)
  <2>1. thr[t].g \in Graphs
    BY <1>4, CallHas DEF HoldInv, ThreadInv, GDestroyFree, At
  <2>2. Removed("graphs", thr[t].g) \/ UNCHANGED <<head, next>>
    BY <1>4, Zenon DEF GDestroyFree
  <2>3. /\ head' = head \/ head' = [head EXCEPT !.graphs = next[thr[t].g]]
        /\ \/ next' = next
           \/ \E S : next' = [y \in Objs |-> IF y \in S /\ next[y] = thr[t].g THEN next[thr[t].g] ELSE next[y]]
    BY <2>2, Zenon DEF Removed
  <2>4. QED
    BY <2>1, <2>3, NcAssumption DEF FifosStay, ObjectShape, ListsShape, Objs
<1>5. QED
  BY <1>1, <1>2, <1>3, <1>4 DEF OpsOf, Devices, GraphCalls

\* A call that holds a fifo to itself.
LEMMA FifoApart ==
  ASSUME HoldInv, NEW t \in Threads, thr[t].op \in {"FALLOC", "FDESTROY"},
         NEW s \in Threads, s # t, thr[s].f = thr[t].f
  PROVE  thr[s].op = "NONE" \/ thr[s].op \in DeviceOps
<1>1. t \in Busy /\ (s \in Busy \/ thr[s].op = "NONE")
  BY InCall DEF Busy
<1>2. CASE s \in Busy
  <2>1. thr[t].f \in Fifos
    BY <1>1, CallHas DEF HoldInv, ThreadInv, Busy
  <2>2. Objects(thr[s]) \cap Objects(thr[t]) = {}
    BY <1>1, <1>2 DEF HoldInv, ThreadInv, Apart, ObjectOps
  <2>3. thr[t].f # None
    BY <2>1, NcAssumption
  <2>4. QED
    BY <2>2, <2>3 DEF Objects
<1>3. QED
  BY <1>1, <1>2

LEMMA FifoPlacesKept ==
  ASSUME HoldInv, DataShape, \A s \in Threads : FifoPlaces(s), NEW t \in Threads, OpsOf(t),
           Steps(t),
         thr[t].pc # "idle"
  PROVE  \A s \in Threads : FifoPlaces(s)'
<1> SUFFICES ASSUME NEW s \in Threads, thr'[s].op = "FDESTROY" PROVE FifoPlaces(s)'
  BY DEF FifoPlaces
<1>0. OnlyThread(t) /\ (thr'[t] = Idle \/ SameCall(thr'[t], thr[t]))
  BY DEF Steps, Advances, OnlyThread
<1>1. thr[s].op = "FDESTROY" /\ thr'[s].f = thr[s].f /\ thr'[s] # Idle
  BY <1>0 DEF OnlyThread, SameCall, Idle
<1>2. PICK f : f = thr[s].f
  OBVIOUS
<1>3. f \in Fifos /\ FifoPlaces(s)
  BY <1>1, <1>2, CallHas, InCall DEF HoldInv, ThreadInv
<1>4. fifo'[f].st = fifo[f].st
  <2>1. CASE Close(t)
    BY <1>3, <2>1, CloseDoes
  <2>2. CASE ~Close(t) /\ s # t
    <3>1. thr[t].op \in {"FALLOC", "FDESTROY"} => f # thr[t].f
      BY <1>1, <1>2, <2>2, FifoApart DEF DeviceOps
    <3>2. QED
      BY <1>3, <2>2, <3>1, FifoStatesGo DEF At
  <2>3. CASE ~Close(t) /\ s = t
    BY <1>1, <1>3, <2>3, FifoStatesGo
  <2>4. QED
    BY <2>1, <2>2, <2>3
<1>5. CASE s # t
  BY <1>0, <1>1, <1>2, <1>3, <1>4, <1>5 DEF OnlyThread, FifoPlaces
<1>6. CASE s = t /\ thr[t].pc # "enter"
  BY <1>1, <1>2, <1>3, <1>4, <1>6 DEF FifoPlaces
<1>7. CASE s = t /\ thr[t].pc = "enter"
  <2>1. FDestroyCreated(t) \/ FDestroyEnter(t)
    BY <1>1, <1>7 DEF OpsOf, DeviceOps, FifoDestroys, FDestroySend, FDestroyCheck,
       FDestroyFree, At
  <2>2. FDestroyCreated(t) => thr'[t] = Idle
    BY GoesTo DEF FDestroyCreated
  <2>3. fifo[f].st # "created"
    BY <1>1, <1>2, <1>7, <2>1, <2>2 DEF FDestroyEnter, F
  <2>4. QED
    BY <1>1, <1>2, <1>3, <1>4, <1>7, <2>3 DEF FifoPlaces
<1>8. QED
  BY <1>5, <1>6, <1>7

\* The allocation of a fifo, with the device known and no other list call.
LEMMA FAllocsListed ==
  ASSUME HoldInv, DataInv, ObjectShape, RespInv, FifosAllocated, DeviceKnown, FifoListed,
         Alone({"FALLOC", "FDESTROY"}), NEW t \in Threads, thr[t].op = "FALLOC", FifoAllocs(t),
           Steps(t)
  PROVE  FifoListed'
<1>0. /\ OnlyThread(t) /\ usage' = usage /\ (thr'[t] = Idle \/ SameCall(thr'[t], thr[t]))
      /\ thr[t].pc # "idle"
  BY DEF Steps, Advances, OnlyThread
<1>1. PICK f : f = thr[t].f
  OBVIOUS
<1>2. f \in Fifos /\ f \in Objs /\ f # None
  BY <1>0, <1>1, CallHas, NcAssumption DEF HoldInv, ThreadInv, Objs
<1>3. \A s \in Threads : s # t => thr[s].op \notin {"FALLOC", "FDESTROY"} /\ thr'[s] = thr[s]
  BY <1>0, OneCaller, InCall DEF OnlyThread
<1>4. PICK h, L : h = head.fifos /\ L = Led(next, head.fifos)
  OBVIOUS
<1>5. /\ next \in Pointers /\ h \in Objs \cup {None} /\ h \in Fifos \cup {None}
      /\ L \subseteq Fifos /\ L \subseteq Objs /\ ChainOf(next, h)
  BY <1>4, ListsApart DEF ObjectShape, FifoListed, Objs
<1>6. thr[t].pc # "enter" => fifo[f].st = "created"
  BY <1>1 DEF DataInv, CallsTyped, PlaceTyped
<1>7. ~Linking(t) => \A x \in L : fifo[x].st # "created"
  BY <1>1, <1>3, <1>4 DEF FifoListed, Linking
<1>8. dev' = dev
  BY <1>0, DeviceStays DEF RecordsOK, ObjectShape, DeviceShape, ListsShape, FifoAllocs,
     FifoCalls
<1>9. Callers({"CLOSE"})' = Callers({"CLOSE"})
  BY <1>0 DEF Callers
<1>10. CASE FAllocRead(t)
  <2>1. UNCHANGED <<head, next, fifo>> /\ thr[t].pc = "enter" /\ thr'[t].pc \in {"find", "idle"}
    BY <1>10, FAllocReadDoes DEF Idle
  <2>2. QED
    BY <1>0, <1>8, <2>1, FifosCalm DEF FifosStay, Linking, At
<1>11. CASE FAllocFind(t)
  <2>1. /\ thr[t].pc = "find" /\ UNCHANGED head
        /\ \A x \in Fifos : fifo'[x].st = fifo[x].st
        /\ \/ thr'[t] = Idle /\ UNCHANGED next
           \/ Goes(t, "link") /\ next' = [next EXCEPT ![f] = h]
    BY <1>1, <1>4, <1>11, FAllocFindDoes DEF DataInv, DataShape, OthersSame
  <2>2. CASE thr'[t] = Idle /\ UNCHANGED next
    <3>1. ~Linking(t) /\ ~Linking(t)' /\ ~At(t, "FALLOC", "link")'
      BY <2>1, <2>2 DEF Linking, At, Idle
    <3>2. FifosStay
      BY <2>1, <2>2 DEF FifosStay
    <3>3. QED
      BY <1>0, <1>8, <2>1, <3>1, <3>2, FifosCalm
  <2>3. CASE Goes(t, "link") /\ next' = [next EXCEPT ![f] = h]
    <3>1. ~Linking(t) /\ ~Linking(t)' /\ thr'[t].f = f /\ f \notin L
      BY <1>1, <1>6, <1>7, <2>1, <2>3 DEF Linking, Goes, KeepsWhat, SameCall
    <3>2. next'[f] = h /\ \A x \in L : next'[x] = next[x]
      BY <1>2, <1>5, <2>3, <3>1 DEF ObjectShape, ListsShape
    <3>3. Led(next', h) = L /\ ChainOf(next', h)
      <4>1. PICK n : n = next'
        OBVIOUS
      <4>2. \A x \in Led(next, h) : n[x] = next[x]
        BY <1>4, <3>2, <4>1
      <4>3. QED
        BY <1>4, <1>5, <4>1, <4>2, LedSame, ChainSame
    <3>4. \A s \in Threads : At(s, "FALLOC", "link")' => next'[thr'[s].f] = head'.fifos
      <4> SUFFICES ASSUME NEW s \in Threads, At(s, "FALLOC", "link")'
                   PROVE  next'[thr'[s].f] = head'.fifos
        OBVIOUS
      <4>1. s = t
        BY <1>3 DEF At
      <4>2. QED
        BY <1>4, <2>1, <3>1, <3>2, <4>1
    <3>5. \A s \in Threads : ~Linking(s)'
      BY <1>3, <3>1 DEF Linking
    <3>6. \A x \in L : fifo'[x].st = fifo[x].st /\ fifo'[x].st # "created"
                         /\ fifo'[x].st # "freed"
      BY <1>4, <1>5, <1>7, <2>1, <3>1 DEF FifoListed
    <3>7. Callers({"CLOSE"}) = {} /\ dev'.st = "opened" =>
            \A x \in Fifos : fifo'[x].st = "allocated" => x \in L
      BY <1>4, <1>8, <2>1 DEF FifoListed
    <3>8. QED
      BY <1>4, <1>9, <2>1, <3>3, <3>4, <3>5, <3>6, <3>7 DEF FifoListed
  <2>4. QED
    BY <2>1, <2>2, <2>3
<1>12. CASE FAllocLink(t)
  <2>1. thr[t].pc = "link" /\ UNCHANGED next /\ \A x \in Fifos : fifo'[x].st = fifo[x].st
    BY <1>1, <1>12, FAllocRestDoes DEF DataInv, DataShape, OthersSame, FAllocLink, At
  <2>2. head' = [head EXCEPT !.fifos = f] /\ Goes(t, "send")
    BY <1>1, <1>12, <2>1, FAllocRestDoes DEF DataInv, DataShape, FifosAllocated, Fails
  <2>3. head'.fifos = f
    BY <2>2 DEF ObjectShape, ListsShape
  <2>4. next[f] = h
    BY <1>1, <1>4, <2>1 DEF FifoListed, At
  <2>5. ~Linking(t) /\ Linking(t)' /\ thr'[t].f = f /\ f \notin L
    BY <1>1, <1>6, <1>7, <2>1, <2>2 DEF Linking, Goes, KeepsWhat, SameCall
  <2>6. Led(next, f) = L \cup {f} /\ ChainOf(next, f)
    <3>1. PICK n : n = next
      OBVIOUS
    <3>2. n \in Pointers /\ f \notin Led(n, h) /\ n[f] = h /\ ChainOf(n, h)
      BY <1>4, <1>5, <2>4, <2>5, <3>1
    <3>3. Led(n, f) = Led(n, h) \cup {f} /\ ChainOf(n, f)
      BY <1>2, <1>5, <3>2, LedAdd
    <3>4. QED
      BY <1>4, <3>1, <3>3
  <2>7. \A s \in Threads : ~At(s, "FALLOC", "link")' /\ (Linking(s)' => s = t)
    BY <1>3, <2>2 DEF At, Linking, Goes
  <2>8. \A x \in L : fifo'[x].st # "created" /\ fifo'[x].st # "freed"
    BY <1>4, <1>5, <1>7, <2>1, <2>5 DEF FifoListed
  <2>9. fifo'[f].st = "created"
    BY <1>2, <1>6, <2>1
  <2>10. Callers({"CLOSE"}) = {} /\ dev'.st = "opened" =>
            \A x \in Fifos : fifo'[x].st = "allocated" => x \in L
    BY <1>4, <1>8, <2>1 DEF FifoListed
  <2>11. QED
    BY <1>9, <2>1, <2>3, <2>5, <2>6, <2>7, <2>8, <2>9, <2>10 DEF FifoListed
<1>13. CASE FAllocSend(t)
  <2>1. /\ thr[t].pc = "send" /\ UNCHANGED <<next, head>>
             /\ \A x \in Fifos : fifo'[x].st = fifo[x].st
    BY <1>1, <1>13, FAllocRestDoes DEF DataInv, DataShape, OthersSame, FAllocSend, At
  <2>2. dev.monitor /\ ~SendFails(t)
    BY <2>1 DEF DeviceKnown, Allocates, SendFails, FifosAllocated, Fails
  <2>3. Goes(t, "check")
    BY <1>13, <2>1, <2>2, FAllocRestDoes DEF DataInv, DataShape
  <2>4. Linking(t) /\ Linking(t)' /\ thr'[t].f = thr[t].f /\ ~At(t, "FALLOC", "link")'
    BY <2>1, <2>3 DEF Linking, Goes, KeepsWhat, SameCall, At
  <2>5. FifosStay
    BY <2>1 DEF FifosStay
  <2>6. QED
    BY <1>0, <1>8, <2>1, <2>4, <2>5, FifosCalm
<1>14. CASE FAllocCheck(t)
  <2>1. thr[t].pc = "check" /\ UNCHANGED <<next, head>> /\ OthersSame(f) /\ thr'[t] = Idle
    BY <1>1, <1>14, FAllocRestDoes DEF DataInv, DataShape, FAllocCheck, At
  <2>2. ~(resp # <<>> /\ ~Head(resp).ok)
    <3>1. usage.failing \cap Leaving = {}
      BY DEF FifosAllocated
    <3>2. CASE resp = <<>>
      BY <3>2
    <3>3. ASSUME NEW u \in Threads, NEW ok \in BOOLEAN, resp = <<AnswerOf(u, ok)>>,
                 thr[u].pc \in {"data", "check"}, ok \/ Fails(u, "refuse")
          PROVE  Head(resp).ok
      <4>1. u = t
        BY <2>1, <3>3, OneReader
      <4>2. ok
        BY <3>3, <4>1 DEF Fails, FifosAllocated
      <4>3. QED
        BY <3>3, <4>2 DEF AnswerOf
    <3>4. QED
      BY <3>1, <3>2, <3>3 DEF RespInv
  <2>3. fifo'[f].st = "allocated"
    BY <1>1, <1>14, <2>1, <2>2, FAllocRestDoes DEF DataInv, DataShape, FifosAllocated, Fails
  <2>4. f \in L /\ Linking(t)
    BY <1>1, <1>4, <2>1 DEF FifoListed, Linking
  <2>5. \A s \in Threads : ~Linking(s)' /\ ~At(s, "FALLOC", "link")'
    BY <1>3, <2>1 DEF Linking, At, Idle
  <2>6. \A x \in L : x # f => fifo'[x].st = fifo[x].st /\ fifo[x].st # "created"
                       /\ fifo[x].st # "freed"
    <3> SUFFICES ASSUME NEW x \in L, x # f
                 PROVE  fifo'[x].st = fifo[x].st /\ fifo[x].st # "created"
                          /\ fifo[x].st # "freed"
      OBVIOUS
    <3>1. fifo'[x] = fifo[x] /\ fifo[x].st # "freed"
      BY <1>4, <1>5, <2>1 DEF OthersSame, FifoListed
    <3>2. ASSUME NEW s \in Threads, Linking(s), thr[s].f = x PROVE FALSE
      BY <1>1, <1>3, <3>2 DEF Linking
    <3>3. QED
      BY <1>4, <3>1, <3>2 DEF FifoListed
  <2>7. Callers({"CLOSE"}) = {} /\ dev'.st = "opened" =>
            \A x \in Fifos : fifo'[x].st = "allocated" => x \in L
    <3> SUFFICES ASSUME Callers({"CLOSE"}) = {}, dev'.st = "opened", NEW x \in Fifos,
                          fifo'[x].st = "allocated"
                 PROVE  x \in L
      OBVIOUS
    <3>1. x # f => fifo[x].st = "allocated"
      BY <2>1 DEF OthersSame
    <3>2. QED
      BY <1>4, <1>8, <2>4, <3>1 DEF FifoListed
  <2>8. \A x \in L : fifo'[x].st # "created" /\ fifo'[x].st # "freed"
    BY <2>3, <2>6
  <2>9. QED
    BY <1>4, <1>5, <1>9, <2>1, <2>5, <2>7, <2>8 DEF FifoListed
<1>15. QED
  BY <1>10, <1>11, <1>12, <1>13, <1>14 DEF FifoAllocs

\* The destruction of a fifo.
LEMMA FDestroysListed ==
  ASSUME HoldInv, DataShape, ObjectShape, FifoListed, dev' = dev,
         Alone({"FALLOC", "FDESTROY"}), NEW t \in Threads, FifoPlaces(t),
           thr[t].op = "FDESTROY", FifoDestroys(t), Steps(t)
  PROVE  FifoListed'
<1>0. /\ OnlyThread(t) /\ usage' = usage /\ (thr'[t] = Idle \/ SameCall(thr'[t], thr[t]))
      /\ thr[t].pc # "idle"
  BY DEF Steps, Advances, OnlyThread
<1>1. PICK f : f = thr[t].f
  OBVIOUS
<1>2. f \in Fifos /\ f \in Objs /\ f # None
  BY <1>0, <1>1, CallHas, NcAssumption DEF HoldInv, ThreadInv, Objs
<1>3. \A s \in Threads : s # t => thr[s].op \notin {"FALLOC", "FDESTROY"} /\ thr'[s] = thr[s]
  BY <1>0, OneCaller, InCall DEF OnlyThread
<1>4. PICK h, L : h = head.fifos /\ L = Led(next, head.fifos)
  OBVIOUS
<1>5. /\ next \in Pointers /\ h \in Objs \cup {None} /\ h \in Fifos \cup {None}
      /\ L \subseteq Fifos /\ L \subseteq Objs /\ ChainOf(next, h) /\ L = List(h)
  BY <1>4, ListsApart, ListLed DEF ObjectShape, FifoListed, Objs
<1>6. \A s \in Threads : ~Linking(s) /\ thr'[s].op # "FALLOC"
  BY <1>0, <1>3 DEF Linking, SameCall, Idle
<1>7. \A s \in Threads : ~Linking(s)' /\ ~At(s, "FALLOC", "link")'
  BY <1>6 DEF Linking, At
<1>8. \A x \in L : fifo[x].st # "created"
  BY <1>4, <1>6 DEF FifoListed
<1>9. Callers({"CLOSE"})' = Callers({"CLOSE"})
  BY <1>0 DEF Callers
<1>10. OthersSame(f) /\ (fifo'[f].st = fifo[f].st \/ fifo'[f].st = "freed")
  BY <1>1, FDestroyDoes
<1>11. ASSUME \/ FDestroyCreated(t) \/ FDestroyEnter(t) \/ FDestroySend(t) \/ FDestroyCheck(t)
              \/ FDestroyFree(t) /\ f \notin L
       PROVE  FifoListed'
  <2>0. FDestroyFree(t) => f \notin L
    BY <1>11 DEF FDestroyCreated, FDestroyEnter, FDestroySend, FDestroyCheck, FDestroyFree, At
  <2>1. UNCHANGED <<head, next>>
    <3>1. CASE FDestroyFree(t) /\ f \notin L
      <4>1. thr[t].f = f /\ ~Found(f)
        BY <1>1, <1>4, <1>5, <3>1 DEF Found
      <4>2. QED
        BY <3>1, <4>1, Zenon DEF FDestroyFree
    <3>2. CASE FDestroyCreated(t) \/ FDestroyEnter(t) \/ FDestroySend(t) \/ FDestroyCheck(t)
      BY <3>2, Zenon DEF FDestroyCreated, FDestroyEnter, FDestroySend, FDestroyCheck
    <3>3. QED
      BY <1>11, <3>1, <3>2
  <2>2. Led(next', head'.fifos) = L /\ ChainOf(next', head'.fifos)
    BY <1>4, <1>5, <2>1
  <2>3. \A x \in L : fifo'[x].st = fifo[x].st
    <3> SUFFICES ASSUME NEW x \in L PROVE fifo'[x].st = fifo[x].st
      OBVIOUS
    <3>1. CASE x # f
      BY <1>5, <1>10, <3>1 DEF OthersSame
    <3>2. CASE x = f
      <4>1. fifo'[f] = fifo[f] \/ fifo[f].st = "created" \/ FDestroyFree(t)
        BY <1>1, FDestroyDoes
      <4>2. QED
        BY <1>8, <2>0, <3>2, <4>1
    <3>3. QED
      BY <3>1, <3>2
  <2>4. \A x \in L : fifo'[x].st # "freed" /\ fifo'[x].st # "created"
    BY <1>4, <1>8, <2>3 DEF FifoListed
  <2>5. Callers({"CLOSE"}) = {} /\ dev'.st = "opened" =>
          \A x \in Fifos : fifo'[x].st = "allocated" => x \in L
    <3> SUFFICES ASSUME Callers({"CLOSE"}) = {}, dev'.st = "opened", NEW x \in Fifos,
                          fifo'[x].st = "allocated"
                 PROVE  x \in L
      OBVIOUS
    <3>1. fifo[x].st = "allocated"
      BY <1>10 DEF OthersSame
    <3>2. QED
      BY <1>4, <3>1 DEF FifoListed
  <2>6. QED
    BY <1>7, <1>9, <2>2, <2>4, <2>5 DEF FifoListed
<1>12. CASE FDestroyFree(t) /\ f \in L
  <2>0. thr[t].f = f /\ Found(f)
    BY <1>1, <1>4, <1>5, <1>12 DEF Found
  <2>1. Removed("fifos", f) /\ fifo'[f].st = "freed"
    <3>1. Removed("fifos", f)
      BY <1>12, <2>0, Zenon DEF FDestroyFree
    <3>2. fifo[f].st # "created" /\ fifo[f].st # "freed"
      BY <1>1, <1>12 DEF FDestroyFree, FifoPlaces, At
    <3>3. ~FDestroyEnter(t) /\ ~FDestroyCreated(t)
      BY <1>12 DEF FDestroyEnter, FDestroyCreated, FDestroyFree, At
    <3>4. fifo'[f].st = "freed"
      <4>1. F(t) = fifo[f]
              /\ fifo' = [fifo EXCEPT ![f] = [F(t) EXCEPT !.st = "freed", !.in = <<>>, !.out = <<>>]]
        BY <1>12, <2>0 DEF FDestroyFree, SetFifo, F
      <4>2. f \in DOMAIN fifo /\ "st" \in DOMAIN fifo[f]
        BY <1>2 DEF DataShape, FifoShape, FifoFields
      <4>3. QED
        BY <4>1, <4>2
    <3>5. QED
      BY <3>1, <3>4
  <2>2. Led(next', head'.fifos) = L \ {f} /\ ChainOf(next', head'.fifos)
    <3>1. CASE h = f
      <4>1. head'.fifos = next[f] /\ next' = next
        BY <2>1, <1>4, <3>1 DEF Removed, ObjectShape, ListsShape
      <4>2. Led(next, next[h]) = L \ {h} /\ ChainOf(next, next[h])
        <5>1. PICK n : n = next
          OBVIOUS
        <5>2. n \in Pointers /\ h \in Objs /\ ChainOf(n, h) /\ L = Led(n, h)
          BY <1>2, <1>4, <1>5, <3>1, <5>1
        <5>3. Led(n, n[h]) = Led(n, h) \ {h} /\ ChainOf(n, n[h])
          BY <5>2, LedBehead
        <5>4. QED
          BY <5>1, <5>2, <5>3
      <4>3. QED
        BY <3>1, <4>1, <4>2
    <3>2. CASE h # f
      <4>1. /\ head' = head
            /\ next' = [y \in Objs |-> IF y \in L /\ next[y] = f THEN next[f] ELSE next[y]]
        BY <2>1, <1>4, <1>5, <3>2 DEF Removed
      <4>2. PICK n, m : n = next' /\ m = next
        OBVIOUS
      <4>3. n = [y \in Objs |-> IF y \in Led(m, h) /\ m[y] = f THEN m[f] ELSE m[y]]
        BY <1>4, <4>1, <4>2
      <4>4. m \in Pointers /\ h \in Objs \cup {None} /\ ChainOf(m, h) /\ L = Led(m, h)
        BY <1>4, <1>5, <4>2
      <4>5. Led(n, h) = Led(m, h) \ {f} /\ ChainOf(n, h)
        BY <1>2, <1>12, <3>2, <4>3, <4>4, LedUnlink
      <4>6. QED
        BY <1>4, <4>1, <4>2, <4>4, <4>5
    <3>3. QED
      BY <3>1, <3>2
  <2>3. \A x \in L \ {f} : fifo'[x].st # "freed" /\ fifo'[x].st # "created"
    BY <1>4, <1>5, <1>8, <1>10 DEF OthersSame, FifoListed
  <2>4. Callers({"CLOSE"}) = {} /\ dev'.st = "opened" =>
          \A x \in Fifos : fifo'[x].st = "allocated" => x \in L \ {f}
    <3> SUFFICES ASSUME Callers({"CLOSE"}) = {}, dev'.st = "opened", NEW x \in Fifos,
                          fifo'[x].st = "allocated"
                 PROVE  x \in L \ {f}
      OBVIOUS
    <3>1. x # f /\ fifo[x].st = "allocated"
      BY <1>10, <2>1 DEF OthersSame
    <3>2. QED
      BY <1>4, <3>1 DEF FifoListed
  <2>5. QED
    BY <1>7, <1>9, <2>2, <2>3, <2>4 DEF FifoListed
<1>13. QED
  BY <1>11, <1>12 DEF FifoDestroys

\* ncDeviceClose empties the list.
LEMMA CloseListed ==
  ASSUME HoldInv, DataShape, ObjectShape, NEW t \in Threads, Close(t)
  PROVE  FifoListed'
<1>1. /\ thr[t].pc = "close" /\ usage' = usage /\ OnlyThread(t)
      /\ (thr'[t] = Idle \/ (thr'[t].pc = "destroy" /\ SameCall(thr'[t], thr[t])))
      /\ head' = [graphs |-> None, fifos |-> None]
           /\ dev' = [dev EXCEPT !.st = "closed", !.monitor = FALSE]
  BY GoesTo DEF Close, OnlyThread
<1>2. head'.fifos = None /\ dev'.st = "closed"
  BY <1>1 DEF ObjectShape, DeviceShape
<1>3. Led(next', head'.fifos) = {}
  BY <1>2, LedNone
<1>4. \A s \in Threads : thr'[s].op # "FALLOC"
  <2> SUFFICES ASSUME NEW s \in Threads PROVE thr'[s].op # "FALLOC"
    OBVIOUS
  <2>1. CASE s = t
    BY <1>1, <2>1 DEF HoldInv, ThreadInv, Placed, PlacedAt, SameCall, Idle
  <2>2. CASE s # t
    BY <1>1, <2>2, CloseIsAlone, InCall DEF OnlyThread
  <2>3. QED
    BY <2>1, <2>2
<1>5. ChainOf(next', head'.fifos)
  BY <1>3 DEF ChainOf
<1>6. QED
  BY <1>2, <1>3, <1>4, <1>5 DEF FifoListed, Linking, At

\* Calls that are not about the list of the fifos.
LEMMA OthersListed ==
  ASSUME HoldInv, DataShape, ObjectShape, FifosAllocated => DeviceKnown, FifosAllocated,
           FifoListed,
         NEW t \in Threads, OpsOf(t), Steps(t), ~Close(t), thr[t].pc # "idle",
         thr[t].op \notin {"FALLOC", "FDESTROY"}
  PROVE  FifoListed'
<1>1. /\ OnlyThread(t) /\ usage' = usage /\ (thr'[t] = Idle \/ SameCall(thr'[t], thr[t]))
  BY DEF Steps, Advances, OnlyThread
<1>2. FifosStay
  BY OthersLeaveFifos
<1>3. \A f \in Fifos : fifo'[f].st = fifo[f].st
  BY FifoStatesGo DEF At
<1>4. ~Linking(t) /\ thr'[t].op # "FALLOC"
  BY <1>1 DEF Linking, SameCall, Idle
<1>5. Callers({"CLOSE"}) = {} /\ dev'.st = "opened" =>
           dev.st = "opened" \/ \A f \in Fifos : fifo[f].st # "allocated"
  <2> SUFFICES ASSUME Callers({"CLOSE"}) = {}, dev'.st = "opened", dev.st # "opened"
               PROVE  \A f \in Fifos : fifo[f].st # "allocated"
    OBVIOUS
  <2>1. CASE thr[t].op \notin DeviceOps
    <3>1. dev' = dev
      BY <2>1, CallsKnown
    <3>2. QED
      BY <3>1
  <2>2. CASE OpenMonitor(t)
    <3>1. At(t, "OPEN", "monitor")
      BY <2>2 DEF OpenMonitor
    <3>2. dev.st \in {"created", "closed"}
      BY <3>1 DEF DeviceKnown, At
    <3>3. dev.st # "closed"
      <4>1. SUFFICES ASSUME dev.st = "closed" PROVE FALSE
        OBVIOUS
      <4>2. PICK s \in Threads : At(s, "DESTROY", "destroy")
        BY <4>1 DEF DeviceKnown
      <4>3. s # t /\ s \in Busy /\ t \in Busy
        BY <3>1, <4>2, InCall DEF At, Busy
      <4>4. QED
        BY <3>1, <4>3 DEF HoldInv, ThreadInv, Apart, At, DeviceOps
    <3>4. QED
      BY <3>2, <3>3 DEF DeviceKnown
  <2>3. CASE OpenEnter(t) \/ CloseEnter(t) \/ Destroy(t)
    <3>1. dev' = dev \/ dev' = [dev EXCEPT !.listed = TRUE] \/ dev' = [dev EXCEPT !.listed = FALSE]
          \/ dev' = [dev EXCEPT !.st = "destroyed"]
      BY <2>3, Zenon DEF OpenEnter, CloseEnter, Destroy
    <3>2. dev'.st = dev.st \/ dev'.st = "destroyed"
      BY <3>1 DEF ObjectShape, DeviceShape
    <3>3. QED
      BY <3>2
  <2>4. QED
    BY <2>1, <2>2, <2>3 DEF OpsOf, Devices, DeviceOps
<1>6. QED
  BY <1>1, <1>2, <1>3, <1>4, <1>5, FifosCalm DEF Linking, At

\* A call begins.
LEMMA CallFifos ==
  ASSUME HoldInv, ObjectShape, FifoInv, NEW t \in Threads, Call(t)
  PROVE  FifoInv'
<1>1. /\ OnlyThread(t) /\ thr[t] = Idle /\ thr'[t].pc = "enter"
      /\ UNCHANGED <<usage, mutex, dev, head, next, graph, fifo, resp, stick, writes, got>>
  BY CallBegins
<1>2. PICK c \in usage.calls[t] : Allowed(c) /\ SameCall(thr'[t], c)
  BY CallBegins
<1>3. c \in CallRecords /\ HasObjects(c)
  BY <1>2, NcAssumption DEF HoldInv, ThreadInv, ThrOK
<1>4. c.op = "FDESTROY" => c.f \in Fifos /\ fifo[c.f].st # "freed"
  <2>1. c.op = "FDESTROY" => c.f \in Fifos
    BY <1>3 DEF CallRecords, HasObjects
  <2>2. c.f \in Fifos => ~Gone(c.f)
    BY <1>2, NcAssumption DEF Allowed, Objects
  <2>3. c.f \in Fifos => c.f \notin Graphs
    BY NcAssumption
  <2>4. QED
    BY <2>1, <2>2, <2>3 DEF Gone
<1>5. FifoPlaces(t)'
  BY <1>1, <1>2, <1>4 DEF FifoPlaces, SameCall
<1>6. \A s \in Threads : FifoPlaces(s)'
  BY <1>1, <1>5 DEF FifoInv, FifoPlaces, OnlyThread
<1>7. ~Linking(t) /\ ~Linking(t)' /\ ~At(t, "FALLOC", "link")' /\ ~Allocates(t)'
  BY <1>1 DEF Linking, At, Allocates, Idle
<1>8. FifosAllocated' = FifosAllocated /\ Callers({"CLOSE"})' = Callers({"CLOSE"})
      /\ (Alone({"FALLOC", "FDESTROY"})' <=> Alone({"FALLOC", "FDESTROY"}))
  BY <1>1 DEF FifosAllocated, Callers, Alone, Leaving
<1>9. ASSUME DeviceKnown PROVE DeviceKnown'
  <2>1. \A s \in Threads : thr'[s].pc = "close" => thr[s].pc = "close"
    BY <1>1 DEF OnlyThread
  <2>2. \A s \in Threads : thr[s].pc = "monitor" => thr'[s].pc = "monitor"
    BY <1>1 DEF OnlyThread, Idle
  <2>3. \A s \in Threads : Allocates(s)' => Allocates(s)
    BY <1>1, <1>7 DEF OnlyThread, Allocates
  <2>4. \A s \in Threads : At(s, "DESTROY", "destroy") => At(s, "DESTROY", "destroy")'
    BY <1>1 DEF OnlyThread, At, Idle
  <2>5. \A s \in Threads : thr'[s].op = "OPEN" => dev.st \in {"created", "closed"}
    <3> SUFFICES ASSUME NEW s \in Threads, thr'[s].op = "OPEN"
                          PROVE dev.st \in {"created", "closed"}
      OBVIOUS
    <3>1. CASE s = t
      BY <1>2, <3>1 DEF Allowed, SameCall
    <3>2. CASE s # t
      BY <1>1, <1>9, <3>2 DEF OnlyThread, DeviceKnown
    <3>3. QED
      BY <3>1, <3>2
  <2>6. \A s \in Threads : thr'[s].pc = "close" => ~dev.listed
    BY <1>9, <2>1 DEF DeviceKnown
  <2>7. dev.listed => dev.monitor \/ \E s \in Threads : thr'[s].pc = "monitor"
    BY <1>9, <2>2 DEF DeviceKnown
  <2>8. \A s \in Threads : Allocates(s)' => dev.monitor
    BY <1>9, <2>3 DEF DeviceKnown
  <2>9. Callers({"CLOSE"}) = {} /\ dev.st = "closed"
          => \E s \in Threads : At(s, "DESTROY", "destroy")'
    BY <1>9, <2>4 DEF DeviceKnown
  <2>10. /\ dev.monitor => dev.st \in {"opened", "destroyed"}
         /\ dev.st = "created" => \A f \in Fifos : fifo[f].st # "allocated"
    BY <1>9 DEF DeviceKnown
  <2>11. QED
    BY <1>1, <1>8, <2>5, <2>6, <2>7, <2>8, <2>9, <2>10 DEF DeviceKnown
<1>10. ASSUME FifoListed PROVE FifoListed'
  BY <1>1, <1>7, <1>10, FifosCalm DEF FifosStay
<1>11. QED
  BY <1>6, <1>8, <1>9, <1>10 DEF FifoInv

\* The list of the fifos in every step.
LEMMA StepFifos == HoldInv /\ DataInv /\ ObjectShape /\ RespInv /\ FifoInv /\ [Next]_vars
  => FifoInv'
<1> SUFFICES ASSUME HoldInv, DataInv, ObjectShape, RespInv, FifoInv, [Next]_vars PROVE FifoInv'
  OBVIOUS
<1>1. CASE UNCHANGED vars \/ StickRuns
  <2>1. UNCHANGED <<usage, dev, head, next, fifo, thr>>
    BY <1>1, Zenon DEF vars, StickRuns
  <2>2. \A s \in Threads : FifoPlaces(s)'
    BY <2>1 DEF FifoInv, FifoPlaces
  <2>3. FifosAllocated' => FifosAllocated
    BY <2>1 DEF FifosAllocated, Leaving
  <2>4. DeviceKnown => DeviceKnown'
    BY <2>1 DEF DeviceKnown, Callers, Allocates, At
  <2>5. FifoListed => FifoListed'
    BY <2>1 DEF FifoListed, Callers, Linking, At
  <2>6. Alone({"FALLOC", "FDESTROY"})' => Alone({"FALLOC", "FDESTROY"})
    BY <2>1 DEF Alone, Callers
  <2>7. QED
    BY <2>2, <2>3, <2>4, <2>5, <2>6 DEF FifoInv
<1>2. ASSUME NEW t \in Threads, Thread(t)
      PROVE  FifoInv'
  <2>1. CASE Call(t)
    BY <2>1, CallFifos
  <2>2. CASE OpsOf(t) /\ thr[t].pc # "idle" /\ Steps(t)
    <3>0. DataShape /\ DeviceShape /\ (\A s \in Threads : FifoPlaces(s))
            /\ (FifosAllocated => DeviceKnown)
      BY DEF DataInv, ObjectShape, FifoInv
    <3>1. OnlyThread(t) /\ usage' = usage
      BY <2>2 DEF Steps, Advances, OnlyThread
    <3>2. (FifosAllocated' <=> FifosAllocated)
            /\ (Alone({"FALLOC", "FDESTROY"})' <=> Alone({"FALLOC", "FDESTROY"}))
      BY <3>1 DEF FifosAllocated, Callers, Alone, Leaving
    <3>3. \A s \in Threads : FifoPlaces(s)'
      BY <2>2, <3>0, FifoPlacesKept
    <3>4. ASSUME FifosAllocated PROVE DeviceKnown' /\ (thr[t].op \notin DeviceOps => dev' = dev)
      <4>1. CASE thr[t].op \in DeviceOps
        BY <2>2, <3>0, <3>4, <4>1, DevicesKnown DEF OpsOf, DeviceOps
      <4>2. CASE thr[t].op \notin DeviceOps
        BY <2>2, <3>0, <3>4, <4>2, CallsKnown
      <4>3. QED
        BY <4>1, <4>2
    <3>5. ASSUME FifosAllocated, Alone({"FALLOC", "FDESTROY"}) PROVE FifoListed'
      <4>1. DeviceKnown /\ FifoListed
        BY <3>5 DEF FifoInv
      <4>2. CASE Close(t)
        BY <3>0, <4>2, CloseListed
      <4>3. CASE ~Close(t) /\ thr[t].op = "FALLOC"
        BY <2>2, <3>5, <4>1, <4>3, FAllocsListed DEF OpsOf, DeviceOps
      <4>4. CASE ~Close(t) /\ thr[t].op = "FDESTROY"
        <5>1. FifoDestroys(t) /\ dev' = dev
          BY <2>2, <3>4, <3>5, <4>4 DEF OpsOf, DeviceOps
        <5>2. QED
          BY <2>2, <3>0, <3>5, <4>1, <4>4, <5>1, FDestroysListed
      <4>5. CASE ~Close(t) /\ thr[t].op \notin {"FALLOC", "FDESTROY"}
        BY <2>2, <3>0, <3>5, <4>1, <4>5, OthersListed
      <4>6. QED
        BY <4>2, <4>3, <4>4, <4>5
    <3>6. QED
      BY <3>2, <3>3, <3>4, <3>5 DEF FifoInv
  <2>3. QED
    BY <1>2, <2>1, <2>2, StepOps
<1>3. QED
  BY <1>1, <1>2 DEF Next

LEMMA InitFifos == Init => FifoInv
<1> SUFFICES ASSUME Init PROVE FifoInv
  OBVIOUS
<1>1. /\ usage \in Usages /\ thr = [t \in Threads |-> Idle]
      /\ head.fifos = First(usage.ready.fifos)
      /\ next = [x \in Objs |-> IF x \in Graphs THEN After(usage.ready.graphs, x)
                                ELSE After(usage.ready.fifos, x)]
      /\ fifo = [f \in Fifos |-> NewFifo(usage, f)]
      /\ dev = IF usage.ready.open THEN [st |-> "opened", listed |-> TRUE, monitor |-> TRUE]
               ELSE [st |-> "created", listed |-> FALSE, monitor |-> FALSE]
  BY DEF Init
<1>2. PICK list : list = usage.ready.fifos
  OBVIOUS
<1>3. /\ list \in Seq(Fifos) /\ \A i, j \in 1 .. Len(list) : list[i] = list[j] => i = j
      /\ usage.ready.open \/ list = <<>>
  BY <1>1, <1>2, NcAssumption DEF IsReady
<1>4. next \in Pointers /\ Fifos \subseteq Objs /\ \A f \in Fifos : next[f] = After(list, f)
  <2>1. \A f \in Fifos : f \notin Graphs
    BY NcAssumption
  <2>2. QED
    BY <1>1, <1>2, <2>1, InitShape, ListsApart DEF ObjectShape, Objs
<1>5. /\ Led(next, First(list)) = {list[i] : i \in 1 .. Len(list)}
      /\ ChainOf(next, First(list))
  <2>1. PICK n : n = next
    OBVIOUS
  <2>2. n \in Pointers /\ \A x \in Fifos : n[x] = After(list, x)
    BY <1>4, <2>1
  <2>3. QED
    BY <1>3, <1>4, <2>1, <2>2, LedList
<1>6. \A f \in Fifos : fifo[f].st = IF f \in {list[i] : i \in 1 .. Len(list)} THEN "allocated"
                         ELSE "created"
  <2>1. Range(list) = {list[i] : i \in 1 .. Len(list)}
    BY <1>3 DEF Range
  <2>2. QED
    BY <1>1, <1>2, <2>1 DEF NewFifo
<1>7. \A t \in Threads : thr[t].op = "NONE" /\ thr[t].pc = "idle"
  BY <1>1 DEF Idle
<1>8. FifoListed
  <2>1. Led(next, head.fifos) \subseteq Fifos
    BY <1>1, <1>2, <1>3, <1>5
  <2>2. QED
    BY <1>1, <1>2, <1>5, <1>6, <1>7, <2>1 DEF FifoListed, At, Linking
<1>9. DeviceKnown
  <2>1. ~usage.ready.open => \A f \in Fifos : fifo[f].st = "created"
    <3>1. list = <<>> => {list[i] : i \in 1 .. Len(list)} = {}
      OBVIOUS
    <3>2. QED
      BY <1>2, <1>3, <1>6, <3>1
  <2>2. dev.st = "created" => \A f \in Fifos : fifo[f].st # "allocated"
    BY <1>1, <2>1
  <2>3. (dev.listed => dev.monitor) /\ (dev.monitor => dev.st = "opened") /\ dev.st # "closed"
    BY <1>1
  <2>4. QED
    BY <1>7, <2>2, <2>3 DEF DeviceKnown, Allocates
<1>10. QED
  BY <1>7, <1>8, <1>9 DEF FifoInv, FifoPlaces

LEMMA ListsHold == ObjectShape /\ GraphInv /\ FifoInv => ListsSound
<1> SUFFICES ASSUME ObjectShape, GraphInv, FifoInv PROVE ListsSound
  OBVIOUS
<1>1. PICK Gs : Gs = List(head.graphs)
  OBVIOUS
<1>2. PICK Fs : Fs = List(head.fifos)
  OBVIOUS
<1>3. Gs = Led(next, head.graphs) /\ Fs = Led(next, head.fifos)
  BY <1>1, <1>2, ListLed
<1>4. Alone({"GALLOC", "GDESTROY"}) =>
        \A g \in Graphs : g \in Gs <=> graph[g].st \in {"allocated", "running", "waiting"}
  BY <1>3 DEF GraphInv, GraphListed, GraphLive
<1>5. Alone({"FALLOC", "FDESTROY"}) /\ FifosAllocated =>
        \A f \in Fifos :
          /\ f \in Fs => fifo[f].st # "freed"
          /\ dev.st = "opened" /\ fifo[f].st = "allocated" /\ Callers({"CLOSE"}) = {}
               => f \in Fs
  BY <1>3 DEF FifoInv, FifoListed
<1>6. QED
  BY <1>1, <1>2, <1>4, <1>5, Zenon DEF ListsSound

\* The lists of the device, for every use of the API: with one thread that allocates and
\* destroys graphs, the list is exactly the live ones; with one that allocates and
\* destroys fifos, and no allocation that fails, no list leads to a freed fifo and, as
\* long as nobody closes the device, every allocated fifo is found (ncGraphAllocate,
\* deallocateGraph, ncFifoAllocate, deallocateFifo, ncDeviceClose).
THEOREM ListsAreSound == Spec => []ListsSound
<1>1. Init => TypeInv /\ RespInv /\ GraphInv /\ FifoInv
  BY InitHold, InitTypes, InitShape, InitBound, InitGraphs, InitFifos DEF TypeInv, Init, RespInv
<1>2. TypeInv /\ RespInv /\ GraphInv /\ FifoInv /\ [Next]_vars
        => (TypeInv /\ RespInv /\ GraphInv /\ FifoInv)'
  BY StepHold, StepTypes, StepShape, StepBound, StepResp, StepGraphs, StepFifos DEF TypeInv
<1>3. TypeInv /\ GraphInv /\ FifoInv => ListsSound
  BY ListsHold DEF TypeInv
<1>4. QED
  BY <1>1, <1>2, <1>3, PTL DEF Spec

-----------------------------------------------------------------------------
(* Triggers and their elements.                                              *)

Is(x, y) == IF x = y THEN 1 ELSE 0

\* The number of the first k members of a sequence that are x.
Hits(s, k, x) == Cardinality({i \in 1 .. k : s[i] = x})

\* The inputs and the outputs of the jobs of the stick, and how many of them are f.
Inputs(js) == [k \in 1 .. Len(js) |-> js[k].f]
Outputs(js) == [k \in 1 .. Len(js) |-> js[k].o]
Uses(f) == Hits(Inputs(stick.jobs), Len(stick.jobs), f)
Makes(f) == Hits(Outputs(stick.jobs), Len(stick.jobs), f)

\* The device before it is closed. Without ncDeviceClose it is closed to be destroyed,
\* and no call is made any more.
Alive == dev.st \in {"created", "opened"}
Triggering(t) == thr[t].op = "QUEUE" /\ thr[t].pc # "enter"
Allocating(t) == thr[t].op = "GALLOC" /\ thr[t].pc \in {"data", "check", "link", "linked"}
DeviceUp ==
  /\ ~Alive => \A t \in Threads : thr[t].pc = "idle" \/ At(t, "DESTROY", "destroy")
  /\ dev.st = "closed" => \E t \in Threads : At(t, "DESTROY", "destroy")
  /\ Alive => /\ \A g \in Graphs : GraphLive(g) => dev.monitor
              /\ \A t \in Threads : Allocating(t) \/ Triggering(t) => dev.monitor

\* The places where an element of f is on the stick and not yet counted, and where a
\* trigger has counted an element of f and not yet become a job.
WroteAt(t, f) == At(t, "WRITE", "count") /\ thr[t].f = f
TookAt(t, f) == thr[t].op = "QUEUE" /\ thr[t].pc \in {"out", "send"} /\ thr[t].f = f
MadeAt(t, f) == At(t, "QUEUE", "send") /\ thr[t].o = f
One(b) == IF b THEN 1 ELSE 0
Wrote(f) == One(\E t \in Threads : WroteAt(t, f))
Took(f) == One(\E t \in Threads : TookAt(t, f))
Made(f) == One(\E t \in Threads : MadeAt(t, f))

\* write_count and consumed_by_graph count the elements of an input: those at the stick
\* and those that jobs will leave there are the ones that no trigger has asked for.
Balance(f) ==
  Len(stick.buf[f]) + Makes(f) + Made(f) + fifo[f].consumed
    = fifo[f].writeCount + Uses(f) + Wrote(f) + Took(f)
\* A trigger whose output is its own input has given it an element to come.
SelfFed(t) ==
  At(t, "QUEUE", "send") /\ thr[t].f = thr[t].o =>
    fifo[thr[t].f].consumed < fifo[thr[t].f].writeCount
\* The job k has its element.
Fed(k) ==
  LET f == stick.jobs[k].f
  IN Hits(Inputs(stick.jobs), k, f)
       <= Len(stick.buf[f]) + Hits(Outputs(stick.jobs), k - 1, f)

JobsFed == \A k \in 1 .. Len(stick.jobs) : Chained(stick.jobs[k].f) /\ Fed(k)
SelvesFed == \A t \in Threads : SelfFed(t)
Balanced == \A f \in Fifos : Chained(f) => Balance(f)

JobInv == Pipelined => DeviceUp /\ JobsFed /\ SelvesFed /\ (Alive => Balanced)

-----------------------------------------------------------------------------
(* Counting.                                                                 *)

LEMMA HitsFinite ==
  ASSUME NEW s, NEW k \in Int, NEW x
  PROVE  IsFiniteSet({i \in 1 .. k : s[i] = x}) /\ Hits(s, k, x) \in Nat
<1>1. IsFiniteSet(1 .. k)
  BY FS_Interval
<1>2. {i \in 1 .. k : s[i] = x} \in SUBSET (1 .. k)
  OBVIOUS
<1>3. PICK S : S = {i \in 1 .. k : s[i] = x}
  OBVIOUS
<1>4. IsFiniteSet(S)
  BY <1>1, <1>2, <1>3, FS_Subset
<1>5. QED
  BY <1>3, <1>4, FS_CardinalityType DEF Hits

\* Sequences that agree have the same hits.
LEMMA HitsSame ==
  ASSUME NEW s, NEW r, NEW k, NEW x, \A i \in 1 .. k : s[i] = r[i]
  PROVE  Hits(s, k, x) = Hits(r, k, x)
<1>1. {i \in 1 .. k : s[i] = x} = {i \in 1 .. k : r[i] = x}
  OBVIOUS
<1>2. QED
  BY <1>1 DEF Hits

\* One member more.
LEMMA HitsMore ==
  ASSUME NEW s, NEW k \in Nat, NEW x
  PROVE  Hits(s, k + 1, x) = Hits(s, k, x) + Is(s[k + 1], x)
<1>0. IsFiniteSet({i \in 1 .. k : s[i] = x}) /\ Hits(s, k, x) \in Nat
  BY HitsFinite
<1>1. PICK S : S = {i \in 1 .. k : s[i] = x}
  OBVIOUS
<1>2. PICK T : T = {i \in 1 .. k + 1 : s[i] = x}
  OBVIOUS
<1>3. IsFiniteSet(S) /\ Cardinality(S) = Hits(s, k, x) /\ Cardinality(T) = Hits(s, k + 1, x)
      /\ Hits(s, k, x) \in Nat
  BY <1>0, <1>1, <1>2 DEF Hits
<1>4. k + 1 \notin S
  BY <1>1
<1>5. CASE s[k + 1] = x
  <2>1. T = S \cup {k + 1}
    BY <1>1, <1>2, <1>5
  <2>2. Cardinality(S \cup {k + 1}) = Cardinality(S) + 1
    BY <1>3, <1>4, FS_AddElement
  <2>3. QED
    BY <1>3, <1>5, <2>1, <2>2 DEF One, Is
<1>6. CASE s[k + 1] # x
  <2>1. T = S
    BY <1>1, <1>2, <1>6
  <2>2. QED
    BY <1>3, <1>6, <2>1 DEF One, Is
<1>7. QED
  BY <1>5, <1>6

\* One member less, at the front.
LEMMA HitsTail ==
  ASSUME NEW s, NEW r, NEW k \in Nat, NEW x, \A i \in 1 .. k : r[i] = s[i + 1]
  PROVE  Hits(s, k + 1, x) = Hits(r, k, x) + Is(s[1], x)
<1>0. /\ IsFiniteSet({i \in 1 .. k : r[i] = x}) /\ Hits(r, k, x) \in Nat
      /\ IsFiniteSet({i \in 1 .. k + 1 : s[i] = x}) /\ Hits(s, k + 1, x) \in Nat
  <2>1. IsFiniteSet({i \in 1 .. k : r[i] = x}) /\ Hits(r, k, x) \in Nat
    BY HitsFinite
  <2>2. PICK n \in Int : n = k + 1
    OBVIOUS
  <2>3. IsFiniteSet({i \in 1 .. n : s[i] = x}) /\ Hits(s, n, x) \in Nat
    BY HitsFinite
  <2>4. QED
    BY <2>1, <2>2, <2>3
<1>1. PICK R : R = {i \in 1 .. k : r[i] = x}
  OBVIOUS
<1>2. PICK S : S = {i \in 1 .. k + 1 : s[i] = x}
  OBVIOUS
<1>3. PICK T : T = S \ {1}
  OBVIOUS
<1>4. /\ IsFiniteSet(R) /\ Cardinality(R) = Hits(r, k, x) /\ Hits(r, k, x) \in Nat
      /\ IsFiniteSet(S) /\ Cardinality(S) = Hits(s, k + 1, x) /\ Hits(s, k + 1, x) \in Nat
  BY <1>0, <1>1, <1>2 DEF Hits
<1>5. PICK h : h = [i \in R |-> i + 1]
  OBVIOUS
<1>6. \A i \in R : i + 1 \in T
  BY <1>1, <1>2, <1>3
<1>7. \A j \in T : j - 1 \in R /\ (j - 1) + 1 = j
  BY <1>1, <1>2, <1>3
<1>8. h \in Bijection(R, T)
  <2>1. h \in [R -> T]
    BY <1>5, <1>6
  <2>2. \A a, b \in R : h[a] = h[b] => a = b
    BY <1>1, <1>5
  <2>3. \A j \in T : \E i \in R : h[i] = j
    BY <1>5, <1>7
  <2>4. QED
    BY <2>1, <2>2, <2>3, Fun_IsBij
<1>9. Cardinality(T) = Cardinality(R)
  BY <1>4, <1>8, FS_Bijection DEF ExistsBijection
<1>10. Cardinality(T) = IF 1 \in S THEN Cardinality(S) - 1 ELSE Cardinality(S)
  BY <1>3, <1>4, FS_RemoveElement
<1>11. 1 \in S <=> s[1] = x
  BY <1>2
<1>12. QED
  BY <1>4, <1>9, <1>10, <1>11 DEF One, Is


\* A job more: r is js and then the job j.
More(js, r, j) ==
  /\ r \in Seq(JobRecords) /\ Len(r) = Len(js) + 1 /\ r[Len(r)] = j
  /\ \A k \in 1 .. Len(js) : r[k] = js[k]

LEMMA JobAdded ==
  ASSUME NEW js \in Seq(JobRecords), NEW j \in JobRecords, NEW r, More(js, r, j), NEW f
  PROVE  /\ \A k \in 0 .. Len(js) : /\ Hits(Inputs(r), k, f) = Hits(Inputs(js), k, f)
                                    /\ Hits(Outputs(r), k, f) = Hits(Outputs(js), k, f)
         /\ Hits(Inputs(r), Len(r), f) = Hits(Inputs(js), Len(js), f) + Is(j.f, f)
         /\ Hits(Outputs(r), Len(r), f) = Hits(Outputs(js), Len(js), f) + Is(j.o, f)
<1>1. /\ r \in Seq(JobRecords) /\ Len(r) = Len(js) + 1 /\ r[Len(r)] = j
      /\ \A k \in 1 .. Len(js) : r[k] = js[k]
  BY DEF More
<1>2. PICK n \in Nat : n = Len(js)
  OBVIOUS
<1>3. PICK a : a = Inputs(r)
  OBVIOUS
<1>4. PICK b : b = Inputs(js)
  OBVIOUS
<1>5. PICK c : c = Outputs(r)
  OBVIOUS
<1>6. PICK d : d = Outputs(js)
  OBVIOUS
<1>7. /\ \A i \in 1 .. n : a[i] = b[i] /\ c[i] = d[i]
      /\ a[n + 1] = j.f /\ c[n + 1] = j.o
  BY <1>1, <1>2, <1>3, <1>4, <1>5, <1>6 DEF Inputs, Outputs
<1>8. ASSUME NEW k \in 0 .. n
      PROVE  Hits(a, k, f) = Hits(b, k, f) /\ Hits(c, k, f) = Hits(d, k, f)
  <2>1. \A i \in 1 .. k : a[i] = b[i] /\ c[i] = d[i]
    BY <1>7
  <2>2. QED
    BY <2>1, HitsSame
<1>9. /\ Hits(a, n + 1, f) = Hits(a, n, f) + Is(a[n + 1], f)
      /\ Hits(c, n + 1, f) = Hits(c, n, f) + Is(c[n + 1], f)
  BY HitsMore
<1>10. Hits(a, n, f) = Hits(b, n, f) /\ Hits(c, n, f) = Hits(d, n, f)
  BY <1>8
<1>11. QED
  BY <1>1, <1>2, <1>3, <1>4, <1>5, <1>6, <1>7, <1>8, <1>9, <1>10

\* The first job is done: js is the job j and then r.
Done(js, r, j) ==
  /\ r \in Seq(JobRecords) /\ Len(js) = Len(r) + 1 /\ js[1] = j
  /\ \A k \in 1 .. Len(r) : r[k] = js[k + 1]

LEMMA JobDone ==
  ASSUME NEW js \in Seq(JobRecords), NEW j \in JobRecords, NEW r, Done(js, r, j), NEW f
  PROVE  \A k \in 0 .. Len(r) :
           /\ Hits(Inputs(js), k + 1, f) = Hits(Inputs(r), k, f) + Is(j.f, f)
           /\ Hits(Outputs(js), k + 1, f) = Hits(Outputs(r), k, f) + Is(j.o, f)
<1>1. /\ r \in Seq(JobRecords) /\ Len(js) = Len(r) + 1 /\ j = js[1]
      /\ \A k \in 1 .. Len(r) : r[k] = js[k + 1]
  BY DEF Done
<1>0. Len(r) \in Nat
  BY <1>1, LenProperties
<1>2. PICK n \in Nat : n = Len(r)
  BY <1>0
<1>3. PICK a : a = Inputs(r)
  OBVIOUS
<1>4. PICK b : b = Inputs(js)
  OBVIOUS
<1>5. PICK c : c = Outputs(r)
  OBVIOUS
<1>6. PICK d : d = Outputs(js)
  OBVIOUS
<1>7. /\ \A i \in 1 .. n : a[i] = b[i + 1] /\ c[i] = d[i + 1]
      /\ b[1] = j.f /\ d[1] = j.o
  BY <1>1, <1>2, <1>3, <1>4, <1>5, <1>6 DEF Inputs, Outputs
<1>8. ASSUME NEW k \in 0 .. n
      PROVE  /\ Hits(b, k + 1, f) = Hits(a, k, f) + Is(j.f, f)
             /\ Hits(d, k + 1, f) = Hits(c, k, f) + Is(j.o, f)
  <2>1. k \in Nat /\ \A i \in 1 .. k : a[i] = b[i + 1] /\ c[i] = d[i + 1]
    BY <1>7
  <2>2. Hits(b, k + 1, f) = Hits(a, k, f) + Is(b[1], f)
    BY <2>1, HitsTail
  <2>3. Hits(d, k + 1, f) = Hits(c, k, f) + Is(d[1], f)
    BY <2>1, HitsTail
  <2>4. QED
    BY <1>7, <2>2, <2>3
<1>9. QED
  BY <1>1, <1>2, <1>3, <1>4, <1>5, <1>6, <1>8

LEMMA HitsNat ==
  ASSUME NEW s, NEW k \in Int, NEW x
  PROVE  Hits(s, k, x) \in Nat
  BY HitsFinite

-----------------------------------------------------------------------------
(* The device is there while calls are made.                                 *)

LEMMA OpsAlive ==
  ASSUME ObjectShape, DeviceUp, NEW t \in Threads, thr[t].pc # "idle",
         ~At(t, "DESTROY", "destroy")
  PROVE  Alive
  BY DEF DeviceUp

LEMMA DevicesUp ==
  ASSUME HoldInv, ObjectShape, Callers({"CLOSE"}) = {}, DeviceUp, NEW t \in Threads,
         thr[t].op \in DeviceOps, Devices(t), thr[t].pc # "idle", Steps(t)
  PROVE  DeviceUp'
<1>1. OnlyThread(t) /\ (thr'[t] = Idle \/ SameCall(thr'[t], thr[t]))
  BY DEF Steps, Advances, OnlyThread
<1>2. \A s \in Threads : s # t => thr[s].pc = "idle" /\ thr'[s].pc = "idle"
                           /\ thr'[s].op = "NONE"
  BY <1>1, CloseIsAlone, InCall DEF OnlyThread
<1>3. \A s \in Threads : ~Allocating(s)' /\ ~Triggering(s)'
  <2>1. thr'[t].op \notin {"GALLOC", "QUEUE"}
    BY <1>1 DEF DeviceOps, SameCall, Idle
  <2>2. \A s \in Threads : thr'[s].op \notin {"GALLOC", "QUEUE"}
    BY <1>2, <2>1
  <2>3. QED
    BY <2>2 DEF Allocating, Triggering
<1>4. DOMAIN dev = {"st", "listed", "monitor"}
  BY DEF ObjectShape, DeviceShape
<1>5. CASE OpenEnter(t) \/ OpenMonitor(t) \/ CloseEnter(t)
  <2>1. ~At(t, "DESTROY", "destroy") /\ graph' = graph
    BY <1>5 DEF OpenEnter, OpenMonitor, CloseEnter, At
  <2>2. Alive
    BY <2>1, OpsAlive
  <2>3. \/ dev' = dev \/ dev' = [dev EXCEPT !.listed = TRUE]
        \/ dev' = [dev EXCEPT !.listed = FALSE]
        \/ dev' = [dev EXCEPT !.st = "opened", !.monitor = TRUE]
    BY <1>5 DEF OpenEnter, OpenMonitor, CloseEnter
  <2>4. \/ dev'.st = dev.st /\ dev'.monitor = dev.monitor
        \/ dev'.st = "opened" /\ dev'.monitor
    BY <1>4, <2>3
  <2>5. Alive' /\ dev'.st # "closed" /\ (dev.monitor => dev'.monitor)
    BY <2>2, <2>4 DEF Alive
  <2>6. QED
    BY <1>3, <2>1, <2>2, <2>5 DEF DeviceUp, GraphLive
<1>6. CASE Close(t)
  <2>1. /\ thr[t].pc = "close" /\ dev' = [dev EXCEPT !.st = "closed", !.monitor = FALSE]
        /\ IF thr[t].op = "DESTROY" THEN thr'[t].pc = "destroy" /\ SameCall(thr'[t], thr[t])
           ELSE thr'[t] = Idle
    BY <1>6, GoesTo DEF Close
  <2>2. dev'.st = "closed"
    BY <1>4, <2>1
  <2>3. thr[t].op = "DESTROY"
    BY <2>1 DEF HoldInv, ThreadInv, Placed, PlacedAt, Calling, SameCall, Callers
  <2>4. At(t, "DESTROY", "destroy")'
    BY <2>1, <2>3 DEF At, SameCall
  <2>5. \A s \in Threads : thr'[s].pc = "idle" \/ At(s, "DESTROY", "destroy")'
    BY <1>2, <2>4
  <2>6. QED
    BY <2>2, <2>4, <2>5 DEF DeviceUp, Alive
<1>7. CASE Destroy(t)
  <2>1. thr'[t].pc = "idle" /\ dev' = [dev EXCEPT !.st = "destroyed"]
    BY <1>7, GoesTo DEF Destroy
  <2>2. dev'.st = "destroyed"
    BY <1>4, <2>1
  <2>3. \A s \in Threads : thr'[s].pc = "idle"
    BY <1>2, <2>1
  <2>4. QED
    BY <2>2, <2>3 DEF DeviceUp, Alive
<1>8. QED
  BY <1>5, <1>6, <1>7 DEF Devices

\* A graph is live only after its allocation has reached the stick.
LEMMA CallsUp ==
  ASSUME HoldInv, DataShape, ObjectShape, GraphInv, DeviceUp, NEW t \in Threads,
         thr[t].op \notin DeviceOps, thr[t].pc # "idle", OpsOf(t), Steps(t)
  PROVE  DeviceUp' /\ dev' = dev /\ Alive
<1>1. OnlyThread(t) /\ (thr'[t] = Idle \/ SameCall(thr'[t], thr[t]))
  BY DEF Steps, Advances, OnlyThread
<1>2. GraphCalls(t) \/ FifoCalls(t) \/ Elements(t)
  BY DEF OpsOf, FifoCalls, FifoAllocs, FifoDestroys, Elements, Writes, Triggers, ReadsElem
<1>3. dev' = dev
  BY <1>2, DeviceStays DEF RecordsOK, ObjectShape, DeviceShape, ListsShape
<1>4. Alive
  BY OpsAlive DEF At, DeviceOps
<1>5. /\ \A g \in Graphs : GraphLive(g) => dev.monitor
      /\ \A s \in Threads : Allocating(s) \/ Triggering(s) => dev.monitor
  BY <1>4 DEF DeviceUp
<1>6. Allocating(t)' => dev.monitor
  <2> SUFFICES ASSUME Allocating(t)' PROVE dev.monitor
    OBVIOUS
  <2>1. thr[t].op = "GALLOC" /\ SameCall(thr'[t], thr[t])
    BY <1>1 DEF Allocating, SameCall, Idle
  <2>2. GraphCalls(t)
    BY <2>1 DEF OpsOf, DeviceOps
  <2>3. CASE GAllocEnter(t)
    BY <2>3, GoesTo DEF GAllocEnter, Allocating, Idle
  <2>4. CASE GAllocSend(t)
    <3>1. thr'[t].pc = "stuck" \/ dev.monitor
      BY <2>4, GoesTo DEF GAllocSend
    <3>2. QED
      BY <3>1 DEF Allocating
  <2>5. CASE ~GAllocEnter(t) /\ ~GAllocSend(t)
    <3>1. thr[t].pc \in {"data", "check", "memory", "link", "linked"}
      BY <2>1, <2>2, <2>5 DEF GraphCalls, GAllocData, GAllocCheck, GAllocMemory, GAllocLink,
         GAllocLinked, GDestroyCreated, GDestroyEnter, GDestroySend, GDestroyCheck,
         GDestroyFree, StateEnter, StateSend, StateCheck, StateSet, At
    <3>2. thr[t].pc # "memory"
      <4>1. ASSUME thr[t].pc = "memory" PROVE thr'[t].pc = "idle"
        <5>1. GAllocMemory(t)
          BY <2>1, <2>2, <4>1 DEF GraphCalls, GAllocEnter, GAllocSend, GAllocData, GAllocCheck,
             GAllocLink,
             GAllocLinked, GDestroyCreated, GDestroyEnter, GDestroySend, GDestroyCheck,
             GDestroyFree, StateEnter, StateSend, StateCheck, StateSet, At
        <5>2. QED
          BY <5>1, GoesTo DEF GAllocMemory
      <4>2. QED
        BY <4>1 DEF Allocating
    <3>3. QED
      BY <1>5, <2>1, <3>1, <3>2 DEF Allocating
  <2>6. QED
    BY <2>3, <2>4, <2>5
<1>7. Triggering(t)' => dev.monitor
  <2> SUFFICES ASSUME Triggering(t)', thr[t].pc = "enter" PROVE dev.monitor
    BY <1>1, <1>5 DEF Triggering, SameCall, Idle
  <2>1. thr[t].op = "QUEUE" /\ thr'[t] # Idle
    BY <1>1 DEF Triggering, SameCall, Idle
  <2>2. QueueEnter(t)
    BY <2>1 DEF OpsOf, DeviceOps, Triggers, QueueIn, QueueDrain, QueueTake, QueueOut, QueueSend,
       QueueCheck, At
  <2>3. graph[thr[t].g].st = "allocated" /\ thr[t].g \in Graphs
    BY <2>1, <2>2, QueueRestDoes, CallHas DEF HoldInv, ThreadInv
  <2>4. QED
    BY <1>5, <2>3 DEF GraphLive
<1>8. \A g \in Graphs : GraphLive(g)' => dev.monitor
  <2>1. CASE FifoCalls(t) \/ Elements(t)
    BY <1>5, <2>1, OthersLeaveGraphs DEF GraphsStay
  <2>2. CASE GAllocLinked(t)
    <3>1. Allocating(t)
      BY <2>2 DEF GAllocLinked, At, Allocating
    <3>2. QED
      BY <1>5, <3>1
  <2>3. CASE StateSet(t)
    <3>1. thr[t].g \in Graphs /\ GraphLive(thr[t].g)
      BY <2>3, CallHas DEF StateSet, HoldInv, ThreadInv, GraphInv, GraphPlaces
    <3>2. QED
      BY <1>5, <3>1
  <2>4. CASE GDestroyCreated(t) \/ GDestroyFree(t)
    <3>1. graph' = graph \/ graph' = [graph EXCEPT ![thr[t].g].st = "freed"]
      BY <2>4, Zenon DEF GDestroyCreated, GDestroyFree
    <3>2. thr[t].g \in Graphs
      BY <2>4, CallHas DEF GDestroyCreated, GDestroyFree, HoldInv, ThreadInv, At
    <3>3. \A g \in Graphs : graph'[g].st = graph[g].st \/ graph'[g].st = "freed"
      BY <3>1, <3>2 DEF ObjectShape, GraphShape
    <3>4. QED
      BY <1>5, <3>3 DEF GraphLive
  <2>5. CASE graph' = graph
    BY <1>5, <2>5 DEF GraphLive
  <2>6. QED
    BY <1>2, <2>1, <2>2, <2>3, <2>4, <2>5 DEF GraphCalls, GAllocEnter, GAllocSend, GAllocData,
       GAllocCheck, GAllocMemory, GAllocLink, GDestroyEnter, GDestroySend, GDestroyCheck,
       StateEnter, StateSend, StateCheck
<1>9. \A s \in Threads : Allocating(s)' \/ Triggering(s)' => dev.monitor
  BY <1>1, <1>5, <1>6, <1>7 DEF OnlyThread, Allocating, Triggering
<1>10. Alive' /\ dev'.st # "closed" /\ dev'.monitor = dev.monitor
  BY <1>3, <1>4 DEF Alive
<1>11. QED
  BY <1>3, <1>4, <1>8, <1>9, <1>10 DEF DeviceUp

LEMMA CallUp ==
  ASSUME HoldInv, ObjectShape, DeviceUp, NEW t \in Threads, Call(t)
  PROVE  DeviceUp' /\ Alive
<1>1. /\ OnlyThread(t) /\ thr[t] = Idle /\ thr'[t].pc = "enter"
      /\ UNCHANGED <<usage, mutex, dev, head, next, graph, fifo, resp, stick, writes, got>>
  BY CallBegins
<1>2. PICK c \in usage.calls[t] : Allowed(c) /\ SameCall(thr'[t], c)
  BY CallBegins
<1>3. dev.st # "destroyed"
  BY <1>2 DEF Allowed
<1>4. dev.st # "closed"
  <2>1. \A s \in Busy : {c.op, thr[s].op} \cap DeviceOps = {}
    BY <1>2 DEF Allowed
  <2>2. \A s \in Threads : ~At(s, "DESTROY", "destroy")
    BY <2>1 DEF At, Busy, DeviceOps
  <2>3. QED
    BY <2>2 DEF DeviceUp
<1>5. Alive /\ Alive'
  BY <1>1, <1>3, <1>4 DEF Alive, ObjectShape, DeviceShape
<1>6. \A s \in Threads : Allocating(s)' \/ Triggering(s)' => Allocating(s) \/ Triggering(s)
  BY <1>1 DEF OnlyThread, Allocating, Triggering
<1>7. QED
  BY <1>1, <1>4, <1>5, <1>6 DEF DeviceUp, GraphLive

-----------------------------------------------------------------------------
(* The counts of the elements.                                               *)

FeedInv == JobsFed /\ SelvesFed /\ Balanced

CountsStay == \A f \in Fifos : fifo'[f].writeCount = fifo[f].writeCount
                               /\ fifo'[f].consumed = fifo[f].consumed
Off(t) == ~At(t, "WRITE", "count") /\ ~(thr[t].op = "QUEUE" /\ thr[t].pc \in {"out", "send"})

LEMMA BalanceTyped ==
  ASSUME DataInv, NEW f \in Fifos
  PROVE  /\ Len(stick.buf[f]) \in Nat /\ Makes(f) \in Nat /\ Uses(f) \in Nat
         /\ fifo[f].consumed \in Nat /\ fifo[f].writeCount \in Nat
         /\ fifo[f].consumed <= fifo[f].writeCount
         /\ Wrote(f) \in Nat /\ Took(f) \in Nat /\ Made(f) \in Nat
<1>1. Len(stick.buf[f]) \in Nat
  BY SeqLen DEF DataInv, DataShape, StickShape
<1>2. Len(stick.jobs) \in Int
  BY LenProperties DEF DataInv, DataShape, StickShape
<1>3. Makes(f) \in Nat /\ Uses(f) \in Nat
  BY <1>2, HitsNat DEF Makes, Uses
<1>4. /\ fifo[f].consumed \in Nat /\ fifo[f].writeCount \in Nat
      /\ fifo[f].consumed <= fifo[f].writeCount
  BY DEF DataInv, FifosTyped, CountsTyped
<1>5. Wrote(f) \in Nat /\ Took(f) \in Nat /\ Made(f) \in Nat
  BY DEF Wrote, Took, Made, One, Is
<1>6. QED
  BY <1>1, <1>3, <1>4, <1>5

\* y is n more than x.
Rises(x, y, n) == y = x + n
\* What is added to the two sides of the balance.
Evens(n, m, k, c, w, u, x, y) == n + m + k + c = w + u + x + y

\* How the eight counts of a list move.
Moves(f, n, m, k, c, w, u, x, y) ==
  /\ Rises(Len(stick.buf[f]), Len(stick'.buf[f]), n) /\ Rises(Makes(f), Makes(f)', m)
  /\ Rises(Made(f), Made(f)', k) /\ Rises(fifo[f].consumed, fifo'[f].consumed, c)
  /\ Rises(fifo[f].writeCount, fifo'[f].writeCount, w) /\ Rises(Uses(f), Uses(f)', u)
  /\ Rises(Wrote(f), Wrote(f)', x) /\ Rises(Took(f), Took(f)', y)

\* The sum stays when what is added to its sides is the same.
LEMMA BalanceMoves ==
  ASSUME DataInv, NEW f \in Fifos,
         NEW n \in Int, NEW m \in Int, NEW k \in Int, NEW c \in Int,
         NEW w \in Int, NEW u \in Int, NEW x \in Int, NEW y \in Int
  PROVE  Balance(f) /\ Evens(n, m, k, c, w, u, x, y) /\ Moves(f, n, m, k, c, w, u, x, y)
         => Balance(f)'
<1> SUFFICES ASSUME Balance(f), n + m + k + c = w + u + x + y,
                    Len(stick'.buf[f]) = Len(stick.buf[f]) + n, Makes(f)' = Makes(f) + m,
                    Made(f)' = Made(f) + k, fifo'[f].consumed = fifo[f].consumed + c,
                    fifo'[f].writeCount = fifo[f].writeCount + w, Uses(f)' = Uses(f) + u,
                    Wrote(f)' = Wrote(f) + x, Took(f)' = Took(f) + y
             PROVE  Balance(f)'
  BY DEF Rises, Evens, Moves
<1>1. PICK a \in Nat, b \in Nat, d \in Nat, e \in Nat : /\ a = Len(stick.buf[f]) /\ b = Makes(f)
                                                     /\ d = Made(f) /\ e = fifo[f].consumed
  BY BalanceTyped
<1>2. PICK g \in Nat, h \in Nat, i \in Nat, j \in Nat : /\ g = fifo[f].writeCount /\ h = Uses(f)
                                                     /\ i = Wrote(f) /\ j = Took(f)
  BY BalanceTyped
<1>3. a + b + d + e = g + h + i + j
  BY <1>1, <1>2 DEF Balance
<1>7. (a + n) + (b + m) + (d + k) + (e + c) = (a + b + d + e) + (n + m + k + c)
  OBVIOUS
<1>8. (g + w) + (h + u) + (i + x) + (j + y) = (g + h + i + j) + (w + u + x + y)
  OBVIOUS
<1>9. (a + n) + (b + m) + (d + k) + (e + c) = (g + w) + (h + u) + (i + x) + (j + y)
  BY <1>3, <1>7, <1>8
<1>5. /\ Len(stick'.buf[f]) = a + n /\ Makes(f)' = b + m /\ Made(f)' = d + k
      /\ fifo'[f].consumed = e + c /\ fifo'[f].writeCount = g + w /\ Uses(f)' = h + u
      /\ Wrote(f)' = i + x /\ Took(f)' = j + y
  BY <1>1, <1>2
<1>6. QED
  BY <1>5, <1>9 DEF Balance

\* The same number.
LEMMA BalanceStays ==
  ASSUME DataInv, NEW f \in Fifos
  PROVE  /\ Rises(Len(stick.buf[f]), Len(stick.buf[f]), 0) /\ Rises(Makes(f), Makes(f), 0)
         /\ Rises(Made(f), Made(f), 0) /\ Rises(fifo[f].consumed, fifo[f].consumed, 0)
         /\ Rises(fifo[f].writeCount, fifo[f].writeCount, 0) /\ Rises(Uses(f), Uses(f), 0)
         /\ Rises(Wrote(f), Wrote(f), 0) /\ Rises(Took(f), Took(f), 0)
  BY BalanceTyped DEF Rises

\* The places of a thread that stays off them.
LEMMA MarksStay ==
  ASSUME NEW t \in Threads, OnlyThread(t), NEW f,
         WroteAt(t, f)' <=> WroteAt(t, f), TookAt(t, f)' <=> TookAt(t, f),
         MadeAt(t, f)' <=> MadeAt(t, f)
  PROVE  Wrote(f)' = Wrote(f) /\ Took(f)' = Took(f) /\ Made(f)' = Made(f)
<1>1. \A s \in Threads : s # t => /\ WroteAt(s, f)' <=> WroteAt(s, f)
                                  /\ TookAt(s, f)' <=> TookAt(s, f)
                                  /\ MadeAt(s, f)' <=> MadeAt(s, f)
  BY DEF OnlyThread, WroteAt, TookAt, MadeAt, At
<1>2. /\ (\E s \in Threads : WroteAt(s, f)') <=> (\E s \in Threads : WroteAt(s, f))
      /\ (\E s \in Threads : TookAt(s, f)') <=> (\E s \in Threads : TookAt(s, f))
      /\ (\E s \in Threads : MadeAt(s, f)') <=> (\E s \in Threads : MadeAt(s, f))
  BY <1>1, Zenon
<1>3. Wrote(f)' = Wrote(f)
  BY <1>2 DEF Wrote, One, Is
<1>4. Took(f)' = Took(f)
  BY <1>2 DEF Took, One, Is
<1>5. Made(f)' = Made(f)
  BY <1>2 DEF Made, One, Is
<1>6. QED
  BY <1>3, <1>4, <1>5

\* One thread writes: its place is the only one.
LEMMA OnlyWriter ==
  ASSUME HoldInv, Alone({"WRITE"}), NEW t \in Threads, OnlyThread(t), thr[t].op = "WRITE", NEW f
  PROVE  Wrote(f) = One(WroteAt(t, f)) /\ Wrote(f)' = One(WroteAt(t, f)')
<1>1. \A s \in Threads : s # t => ~WroteAt(s, f) /\ ~WroteAt(s, f)'
  <2> SUFFICES ASSUME NEW s \in Threads, s # t, thr[s].op = "WRITE" PROVE FALSE
    BY DEF OnlyThread, WroteAt, At
  <2>1. thr[s].pc # "idle" /\ thr[t].pc # "idle"
    BY InCall
  <2>2. QED
    BY <2>1, OneCaller
<1>2. /\ (\E s \in Threads : WroteAt(s, f)) <=> WroteAt(t, f)
      /\ (\E s \in Threads : WroteAt(s, f)') <=> WroteAt(t, f)'
  BY <1>1, Zenon
<1>3. Wrote(f) = One(WroteAt(t, f))
  BY <1>2 DEF Wrote, One, Is
<1>4. Wrote(f)' = One(WroteAt(t, f)')
  BY <1>2 DEF Wrote, One, Is
<1>5. QED
  BY <1>3, <1>4

\* One thread triggers.
LEMMA OnlyTrigger ==
  ASSUME HoldInv, Alone({"QUEUE"}), NEW t \in Threads, OnlyThread(t), thr[t].op = "QUEUE"
  PROVE  \A s \in Threads : s # t => thr[s].op # "QUEUE" /\ thr'[s].op # "QUEUE"
<1> SUFFICES ASSUME NEW s \in Threads, s # t, thr[s].op = "QUEUE" PROVE FALSE
  BY DEF OnlyThread
<1>1. thr[s].pc # "idle" /\ thr[t].pc # "idle"
  BY InCall
<1>2. QED
  BY <1>1, OneCaller

LEMMA OnlyTaker ==
  ASSUME HoldInv, Alone({"QUEUE"}), NEW t \in Threads, OnlyThread(t), thr[t].op = "QUEUE", NEW f
  PROVE  /\ Took(f) = One(TookAt(t, f)) /\ Took(f)' = One(TookAt(t, f)')
         /\ Made(f) = One(MadeAt(t, f)) /\ Made(f)' = One(MadeAt(t, f)')
<1>1. \A s \in Threads : s # t => ~TookAt(s, f) /\ ~TookAt(s, f)' /\ ~MadeAt(s, f)
                                    /\ ~MadeAt(s, f)'
  BY OnlyTrigger DEF TookAt, MadeAt, At
<1>2. /\ (\E s \in Threads : TookAt(s, f)) <=> TookAt(t, f)
      /\ (\E s \in Threads : TookAt(s, f)') <=> TookAt(t, f)'
      /\ (\E s \in Threads : MadeAt(s, f)) <=> MadeAt(t, f)
      /\ (\E s \in Threads : MadeAt(s, f)') <=> MadeAt(t, f)'
  BY <1>1, Zenon
<1>3. Took(f) = One(TookAt(t, f))
  BY <1>2 DEF Took, One, Is
<1>4. Took(f)' = One(TookAt(t, f)')
  BY <1>2 DEF Took, One, Is
<1>5. Made(f) = One(MadeAt(t, f))
  BY <1>2 DEF Made, One, Is
<1>6. Made(f)' = One(MadeAt(t, f)')
  BY <1>2 DEF Made, One, Is
<1>7. QED
  BY <1>3, <1>4, <1>5, <1>6

\* Jobs that stay have their elements when no element is taken.
LEMMA FedStays ==
  ASSUME DataInv, JobsFed, usage' = usage, stick'.jobs = stick.jobs,
         \A f \in Fifos : Len(stick'.buf[f]) \in Nat /\ Len(stick'.buf[f]) >= Len(stick.buf[f])
  PROVE  JobsFed'
<1> SUFFICES ASSUME NEW k \in 1 .. Len(stick.jobs)
             PROVE  Chained(stick.jobs[k].f)' /\ Fed(k)'
  BY DEF JobsFed
<1>1. PICK f : f = stick.jobs[k].f
  OBVIOUS
<1>2. f \in Fifos /\ Chained(f) /\ Fed(k)
  <2>1. stick.jobs[k] \in JobRecords
    BY DEF DataInv, DataShape, StickShape
  <2>2. QED
    BY <1>1, <2>1 DEF JobsFed, JobRecords
<1>3. PICK a : a = Hits(Inputs(stick.jobs), k, f)
  OBVIOUS
<1>4. PICK b : b = Hits(Outputs(stick.jobs), k - 1, f)
  OBVIOUS
<1>5. k \in Int /\ k - 1 \in Int
  OBVIOUS
<1>6. a \in Nat /\ b \in Nat
  BY <1>3, <1>4, <1>5, HitsNat
<1>7. a <= Len(stick.buf[f]) + b
  BY <1>1, <1>2, <1>3, <1>4 DEF Fed
<1>8. Len(stick.buf[f]) \in Nat
  BY <1>2, BalanceTyped
<1>9. a <= Len(stick'.buf[f]) + b
  BY <1>2, <1>6, <1>7, <1>8
<1>10. Fed(k)'
  BY <1>1, <1>3, <1>4, <1>9 DEF Fed
<1>11. Chained(stick.jobs[k].f)'
  BY <1>1, <1>2 DEF Chained
<1>12. QED
  BY <1>10, <1>11

\* A trigger keeps its own element while none is taken.
LEMMA SelfStays ==
  ASSUME HoldInv, DataInv, SelvesFed, NEW t \in Threads, OnlyThread(t),
         ~At(t, "QUEUE", "send")',
         \A f \in Fifos : /\ fifo'[f].writeCount \in Nat
                          /\ fifo'[f].writeCount >= fifo[f].writeCount
                          /\ fifo'[f].consumed = fifo[f].consumed
  PROVE  SelvesFed'
<1> SUFFICES ASSUME NEW s \in Threads, At(s, "QUEUE", "send")', thr'[s].f = thr'[s].o
             PROVE  fifo'[thr'[s].f].consumed < fifo'[thr'[s].f].writeCount
  BY DEF SelvesFed, SelfFed
<1>1. s # t
  OBVIOUS
<1>2. thr'[s] = thr[s]
  BY <1>1 DEF OnlyThread
<1>3. PICK f : f = thr[s].f
  OBVIOUS
<1>4. f \in Fifos
  BY <1>2, <1>3, CallHas DEF At, HoldInv, ThreadInv
<1>5. fifo[f].consumed < fifo[f].writeCount
  BY <1>2, <1>3 DEF SelvesFed, SelfFed, At
<1>6. fifo'[f].consumed < fifo'[f].writeCount
  BY <1>4, <1>5, BalanceTyped
<1>7. QED
  BY <1>2, <1>3, <1>6

\* A step that moves no element.
LEMMA QuietFeed ==
  ASSUME HoldInv, DataInv, FeedInv, NEW t \in Threads, OnlyThread(t),
         usage' = usage, CountsStay,
         stick'.jobs = stick.jobs, stick'.buf = stick.buf, Off(t), Off(t)'
  PROVE  FeedInv'
<1>1. JobsFed'
  <2>1. \A f \in Fifos : Len(stick'.buf[f]) \in Nat /\ Len(stick'.buf[f]) >= Len(stick.buf[f])
    BY BalanceTyped
  <2>2. QED
    BY <2>1, FedStays DEF FeedInv
<1>2. SelvesFed'
  <2>1. \A f \in Fifos : /\ fifo'[f].writeCount \in Nat
                         /\ fifo'[f].writeCount >= fifo[f].writeCount
                         /\ fifo'[f].consumed = fifo[f].consumed
    BY BalanceTyped DEF CountsStay
  <2>2. QED
    BY <2>1, SelfStays DEF FeedInv, Off, At
<1>3. Balanced'
  <2> SUFFICES ASSUME NEW f \in Fifos, Chained(f) PROVE Balance(f)'
    BY DEF Balanced, Chained
  <2>1. Balance(f)
    BY DEF FeedInv, Balanced
  <2>2. Wrote(f)' = Wrote(f) /\ Took(f)' = Took(f) /\ Made(f)' = Made(f)
    BY MarksStay DEF Off, WroteAt, TookAt, MadeAt, At
  <2>3. Uses(f)' = Uses(f) /\ Makes(f)' = Makes(f)
    BY DEF Uses, Makes
  <2>4. QED
    BY <2>1, <2>2, <2>3 DEF Balance, CountsStay
<1>4. QED
  BY <1>1, <1>2, <1>3 DEF FeedInv

\* The places of a trigger, in the step of another call.
LEMMA QueueMarks ==
  ASSUME NEW t \in Threads, OnlyThread(t), thr[t].op # "QUEUE", thr'[t].op # "QUEUE", NEW f
  PROVE  Took(f)' = Took(f) /\ Made(f)' = Made(f)
<1>1. \A s \in Threads : (TookAt(s, f)' <=> TookAt(s, f)) /\ (MadeAt(s, f)' <=> MadeAt(s, f))
  BY DEF OnlyThread, TookAt, MadeAt, At
<1>2. /\ (\E s \in Threads : TookAt(s, f)') <=> (\E s \in Threads : TookAt(s, f))
      /\ (\E s \in Threads : MadeAt(s, f)') <=> (\E s \in Threads : MadeAt(s, f))
  BY <1>1, Zenon
<1>3. Took(f)' = Took(f)
  BY <1>2 DEF Took, One, Is
<1>4. Made(f)' = Made(f)
  BY <1>2 DEF Made, One, Is
<1>5. QED
  BY <1>3, <1>4

\* The place of a write, in the step of another call.
LEMMA WriteMarks ==
  ASSUME NEW t \in Threads, OnlyThread(t), thr[t].op # "WRITE", thr'[t].op # "WRITE", NEW f
  PROVE  Wrote(f)' = Wrote(f)
<1>1. \A s \in Threads : WroteAt(s, f)' <=> WroteAt(s, f)
  BY DEF OnlyThread, WroteAt, At
<1>2. (\E s \in Threads : WroteAt(s, f)') <=> (\E s \in Threads : WroteAt(s, f))
  BY <1>1, Zenon
<1>3. QED
  BY <1>2 DEF Wrote, One, Is

\* An element is sent.
LEMMA WriteSendFeed ==
  ASSUME HoldInv, DataInv, FeedInv, Alone({"WRITE"}), NEW t \in Threads, WriteSend(t)
  PROVE  FeedInv'
<1>1. /\ thr[t].f \in Fifos /\ At(t, "WRITE", "send") /\ OnlyThread(t)
      /\ UNCHANGED <<usage, fifo>>
      /\ \/ thr'[t] = Idle /\ UNCHANGED stick
         \/ /\ Goes(t, "count")
            /\ stick'.jobs = stick.jobs
            /\ stick'.buf[thr[t].f] = Append(stick.buf[thr[t].f], thr[t].e)
            /\ \A h \in Fifos : h # thr[t].f => stick'.buf[h] = stick.buf[h]
  BY WriteSendDoes DEF DataInv
<1>2. CASE thr'[t] = Idle /\ UNCHANGED stick
  BY <1>1, <1>2, QuietFeed DEF CountsStay, Off, At, Idle
<1>3. CASE ~(thr'[t] = Idle /\ UNCHANGED stick)
  <2>1. PICK h \in Fifos : h = thr[t].f
    BY <1>1
  <2>2. /\ At(t, "WRITE", "count")' /\ thr'[t].f = h /\ stick'.jobs = stick.jobs
        /\ stick'.buf[h] = Append(stick.buf[h], thr[t].e)
        /\ \A f \in Fifos : f # h => stick'.buf[f] = stick.buf[f]
    BY <1>1, <1>3, <2>1 DEF Goes, KeepsWhat, SameCall, At
  <2>3. Len(stick'.buf[h]) = Len(stick.buf[h]) + 1
    BY <2>2, SeqAppended DEF DataInv, DataShape, StickShape
  <2>4. ASSUME NEW f \in Fifos
        PROVE  /\ Len(stick'.buf[f]) = Len(stick.buf[f]) + Is(f, h)
               /\ Len(stick'.buf[f]) \in Nat /\ Len(stick'.buf[f]) >= Len(stick.buf[f])
    <3>1. PICK n \in Nat : n = Len(stick.buf[f])
      BY BalanceTyped
    <3>2. PICK m : m = Len(stick'.buf[f])
      OBVIOUS
    <3>3. m = IF f = h THEN n + 1 ELSE n
      BY <2>2, <2>3, <3>1, <3>2
    <3>4. m = n + Is(f, h) /\ m \in Nat /\ m >= n
      BY <3>3 DEF One, Is
    <3>5. QED
      BY <3>1, <3>2, <3>4
  <2>5. JobsFed'
    <3>1. \A f \in Fifos : Len(stick'.buf[f]) \in Nat /\ Len(stick'.buf[f]) >= Len(stick.buf[f])
      BY <2>4
    <3>2. QED
      BY <1>1, <2>2, <3>1, FedStays DEF FeedInv
  <2>6. SelvesFed'
    <3>1. ~At(t, "QUEUE", "send")'
      BY <2>2 DEF At
    <3>2. \A f \in Fifos : /\ fifo'[f].writeCount \in Nat
                           /\ fifo'[f].writeCount >= fifo[f].writeCount
                           /\ fifo'[f].consumed = fifo[f].consumed
      BY <1>1, BalanceTyped
    <3>3. SelvesFed /\ OnlyThread(t)
      BY <1>1 DEF FeedInv
    <3>4. QED
      BY <3>1, <3>2, <3>3, SelfStays
  <2>7. ASSUME NEW f \in Fifos, Chained(f) PROVE Balance(f)'
    <3>1. Wrote(f) = One(WroteAt(t, f)) /\ Wrote(f)' = One(WroteAt(t, f)')
      BY <1>1, OnlyWriter DEF At
    <3>2. ~WroteAt(t, f) /\ (WroteAt(t, f)' <=> f = h)
      BY <1>1, <2>2 DEF WroteAt, At
    <3>3. Wrote(f) = 0 /\ Wrote(f)' = Is(f, h)
      BY <3>1, <3>2 DEF One, Is
    <3>4. Took(f)' = Took(f) /\ Made(f)' = Made(f)
      BY <1>1, <2>2, QueueMarks DEF At
    <3>5. Uses(f)' = Uses(f) /\ Makes(f)' = Makes(f)
      BY <2>2 DEF Uses, Makes
    <3>6. Balance(f) /\ fifo' = fifo /\ Is(f, h) \in Nat
      BY <1>1, <2>7 DEF FeedInv, Balanced, One, Is
    <3>7. Len(stick'.buf[f]) = Len(stick.buf[f]) + Is(f, h)
      BY <2>4
    <3>8. PICK d \in Int, z \in Int : d = Is(f, h) /\ z = 0
      BY <3>6
    <3>9. Wrote(f) = 0 /\ Wrote(f)' = d /\ Len(stick'.buf[f]) = Len(stick.buf[f]) + d
      BY <3>3, <3>7, <3>8
    <3>10. /\ Rises(Makes(f), Makes(f)', z) /\ Rises(Made(f), Made(f)', z)
           /\ Rises(fifo[f].consumed, fifo'[f].consumed, z) /\ Rises(Uses(f), Uses(f)', z)
           /\ Rises(fifo[f].writeCount, fifo'[f].writeCount, z) /\ Rises(Took(f), Took(f)', z)
      BY <3>4, <3>5, <3>6, <3>8, BalanceStays
    <3>11. Rises(Len(stick.buf[f]), Len(stick'.buf[f]), d) /\ Rises(Wrote(f), Wrote(f)', d)
      BY <3>8, <3>9 DEF Rises
    <3>12. Balance(f) /\ Evens(d, z, z, z, z, z, d, z)
      BY <3>6, <3>8 DEF Evens
    <3>13. Moves(f, d, z, z, z, z, z, d, z)
      BY <3>10, <3>11 DEF Moves
    <3>14. QED
      BY <3>8, <3>12, <3>13, BalanceMoves
  <2>8. QED
    BY <1>1, <2>5, <2>6, <2>7 DEF FeedInv, Balanced, Chained
<1>4. QED
  BY <1>2, <1>3

\* The element is counted.
LEMMA WriteCountFeed ==
  ASSUME HoldInv, DataInv, FeedInv, Alone({"WRITE"}), NEW t \in Threads, WriteCount(t)
  PROVE  FeedInv'
<1>1. /\ thr[t].f \in Fifos /\ At(t, "WRITE", "count") /\ OnlyThread(t) /\ thr'[t] = Idle
      /\ OthersSame(thr[t].f)
      /\ fifo'[thr[t].f].writeCount = fifo[thr[t].f].writeCount + 1
      /\ fifo'[thr[t].f].consumed = fifo[thr[t].f].consumed
      /\ UNCHANGED <<usage, stick>>
  BY WriteCountDoes DEF DataInv
<1>2. PICK h \in Fifos : h = thr[t].f
  BY <1>1
<1>3. \A f \in Fifos : /\ fifo'[f].writeCount = fifo[f].writeCount + Is(f, h)
                       /\ fifo'[f].consumed = fifo[f].consumed
  <2>1. SUFFICES ASSUME NEW f \in Fifos
                 PROVE  /\ fifo'[f].writeCount = fifo[f].writeCount + Is(f, h)
                        /\ fifo'[f].consumed = fifo[f].consumed
    OBVIOUS
  <2>2. CASE f = h
    BY <1>1, <1>2, <2>2 DEF Is
  <2>3. CASE f # h
    <3>1. fifo'[f] = fifo[f]
      BY <1>1, <1>2, <2>3 DEF OthersSame
    <3>2. fifo[f].writeCount \in Nat
      BY BalanceTyped
    <3>3. QED
      BY <2>3, <3>1, <3>2 DEF Is
  <2>4. QED
    BY <2>2, <2>3
<1>4. JobsFed'
  <2>1. \A f \in Fifos : Len(stick'.buf[f]) \in Nat /\ Len(stick'.buf[f]) >= Len(stick.buf[f])
    BY <1>1, BalanceTyped
  <2>2. QED
    BY <1>1, <2>1, FedStays DEF FeedInv
<1>5. SelvesFed'
  <2>1. ~At(t, "QUEUE", "send")'
    BY <1>1 DEF At, Idle
  <2>2. \A f \in Fifos : /\ fifo'[f].writeCount \in Nat
                         /\ fifo'[f].writeCount >= fifo[f].writeCount
                         /\ fifo'[f].consumed = fifo[f].consumed
    BY <1>3, BalanceTyped DEF One, Is
  <2>3. QED
    BY <1>1, <2>1, <2>2, SelfStays DEF FeedInv
<1>6. ASSUME NEW f \in Fifos, Chained(f) PROVE Balance(f)'
  <2>1. Wrote(f) = One(WroteAt(t, f)) /\ Wrote(f)' = One(WroteAt(t, f)')
    BY <1>1, OnlyWriter DEF At
  <2>2. ~WroteAt(t, f)' /\ (WroteAt(t, f) <=> f = h)
    BY <1>1, <1>2 DEF WroteAt, At, Idle
  <2>3. Wrote(f)' = 0 /\ Wrote(f) = Is(f, h)
    BY <2>1, <2>2 DEF One, Is
  <2>4. Took(f)' = Took(f) /\ Made(f)' = Made(f)
    BY <1>1, QueueMarks DEF At, Idle
  <2>5. Uses(f)' = Uses(f) /\ Makes(f)' = Makes(f)
    BY <1>1 DEF Uses, Makes
  <2>6. PICK d \in Nat : d = Is(f, h)
    BY DEF Is
  <2>7. PICK c \in Int, z \in Int : c = 0 - d /\ z = 0
    BY <2>6
  <2>8. Rises(fifo[f].writeCount, fifo'[f].writeCount, d) /\ Rises(Wrote(f), Wrote(f)', c)
    BY <1>3, <2>3, <2>6, <2>7 DEF Rises
  <2>9. /\ Rises(Makes(f), Makes(f)', z) /\ Rises(Made(f), Made(f)', z)
        /\ Rises(fifo[f].consumed, fifo'[f].consumed, z) /\ Rises(Uses(f), Uses(f)', z)
        /\ Rises(Len(stick.buf[f]), Len(stick'.buf[f]), z) /\ Rises(Took(f), Took(f)', z)
    BY <1>1, <1>3, <2>4, <2>5, <2>7, BalanceStays
  <2>10. d \in Int /\ c \in Int /\ z \in Int /\ Evens(z, z, z, z, d, z, c, z)
    BY <2>6, <2>7 DEF Evens
  <2>11. Balance(f)
    BY <1>6 DEF FeedInv, Balanced
  <2>12. Moves(f, z, z, z, z, d, z, c, z)
    BY <2>8, <2>9 DEF Moves
  <2>13. QED
    BY <2>10, <2>11, <2>12, BalanceMoves
<1>7. QED
  BY <1>1, <1>4, <1>5, <1>6 DEF FeedInv, Balanced, Chained

\* A trigger takes an element, or finds none.
LEMMA QueueTakeFeed ==
  ASSUME HoldInv, DataInv, FeedInv, Alone({"QUEUE"}), NEW t \in Threads, QueueTake(t)
  PROVE  FeedInv'
<1>1. /\ thr[t].f \in Fifos /\ At(t, "QUEUE", "take") /\ OnlyThread(t) /\ OthersSame(thr[t].f)
      /\ fifo'[thr[t].f].writeCount = fifo[thr[t].f].writeCount
      /\ \/ thr'[t] = Idle /\ fifo'[thr[t].f].consumed = fifo[thr[t].f].consumed
         \/ /\ fifo'[thr[t].f].consumed = fifo[thr[t].f].consumed + 1
            /\ thr'[t].pc = "out" /\ SameCall(thr'[t], thr[t])
      /\ UNCHANGED <<usage, stick>>
  BY QueueTakeDoes DEF DataInv
<1>2. PICK h \in Fifos : h = thr[t].f
  BY <1>1
<1>3. CASE thr'[t] = Idle /\ fifo'[h].consumed = fifo[h].consumed
  <2>1. CountsStay
    BY <1>1, <1>2, <1>3 DEF OthersSame, CountsStay
  <2>2. Off(t) /\ Off(t)'
    BY <1>1, <1>3 DEF Off, At, Idle
  <2>3. QED
    BY <1>1, <2>1, <2>2, QuietFeed
<1>4. CASE ~(thr'[t] = Idle /\ fifo'[h].consumed = fifo[h].consumed)
  <2>1. /\ thr'[t].pc = "out" /\ thr'[t].op = "QUEUE" /\ thr'[t].f = h
        /\ fifo'[h].consumed = fifo[h].consumed + 1
        /\ fifo'[h].writeCount = fifo[h].writeCount
        /\ \A f \in Fifos : f # h => fifo'[f] = fifo[f]
    BY <1>1, <1>2, <1>4 DEF SameCall, At, OthersSame
  <2>2. JobsFed'
    <3>1. \A f \in Fifos : Len(stick'.buf[f]) \in Nat /\ Len(stick'.buf[f]) >= Len(stick.buf[f])
      BY <1>1, BalanceTyped
    <3>2. QED
      BY <1>1, <3>1, FedStays DEF FeedInv
  <2>3. SelvesFed'
    <3>1. \A s \in Threads : ~At(s, "QUEUE", "send")'
      BY <1>1, <2>1, OnlyTrigger DEF At
    <3>2. QED
      BY <3>1 DEF SelvesFed, SelfFed
  <2>4. ASSUME NEW f \in Fifos, Chained(f) PROVE Balance(f)'
    <3>1. PICK d \in Nat : d = Is(f, h)
      BY DEF One, Is
    <3>2. Took(f) = 0 /\ Took(f)' = d /\ Made(f) = 0 /\ Made(f)' = 0
      <4>1. /\ Took(f) = One(TookAt(t, f)) /\ Took(f)' = One(TookAt(t, f)')
            /\ Made(f) = One(MadeAt(t, f)) /\ Made(f)' = One(MadeAt(t, f)')
        BY <1>1, OnlyTaker DEF At
      <4>2. /\ ~TookAt(t, f) /\ (TookAt(t, f)' <=> f = h)
            /\ ~MadeAt(t, f) /\ ~MadeAt(t, f)'
        BY <1>1, <2>1 DEF TookAt, MadeAt, At
      <4>3. QED
        BY <3>1, <4>1, <4>2 DEF One, Is
    <3>3. Wrote(f)' = Wrote(f)
      BY <1>1, <2>1, WriteMarks DEF At
    <3>4. Uses(f)' = Uses(f) /\ Makes(f)' = Makes(f) /\ stick'.buf[f] = stick.buf[f]
      BY <1>1 DEF Uses, Makes
    <3>5. Rises(fifo[f].consumed, fifo'[f].consumed, d) /\ Rises(Took(f), Took(f)', d)
      BY <2>1, <3>1, <3>2, BalanceTyped DEF One, Is, Rises
    <3>6. PICK z \in Int : z = 0
      OBVIOUS
    <3>7. /\ Rises(Len(stick.buf[f]), Len(stick'.buf[f]), z) /\ Rises(Uses(f), Uses(f)', z)
          /\ Rises(Makes(f), Makes(f)', z) /\ Rises(Wrote(f), Wrote(f)', z)
      BY <3>3, <3>4, <3>6, BalanceStays
    <3>8. Rises(fifo[f].writeCount, fifo'[f].writeCount, z) /\ Rises(Made(f), Made(f)', z)
      BY <2>1, <3>2, <3>6, BalanceTyped DEF Rises
    <3>9. d \in Int /\ z \in Int /\ Evens(z, z, z, d, z, z, z, d)
      BY <3>1, <3>6 DEF Evens
    <3>10. Moves(f, z, z, z, d, z, z, z, d)
      BY <3>5, <3>7, <3>8 DEF Moves
    <3>11. Balance(f)
      BY <2>4 DEF FeedInv, Balanced
    <3>12. QED
      BY <3>9, <3>10, <3>11, BalanceMoves
  <2>5. QED
    BY <1>1, <2>2, <2>3, <2>4 DEF FeedInv, Balanced, Chained
<1>5. QED
  BY <1>3, <1>4

\* The element to come is counted with the output.
LEMMA QueueOutFeed ==
  ASSUME HoldInv, DataInv, FeedInv, Alone({"QUEUE"}), NEW t \in Threads, QueueOut(t)
  PROVE  FeedInv'
<1>1. /\ thr[t].f \in Fifos /\ thr[t].o \in Fifos /\ At(t, "QUEUE", "out") /\ OnlyThread(t)
      /\ Goes(t, "send") /\ OthersSame(thr[t].o)
      /\ fifo'[thr[t].o].writeCount = fifo[thr[t].o].writeCount + 1
      /\ fifo'[thr[t].o].consumed = fifo[thr[t].o].consumed
      /\ UNCHANGED <<usage, stick>>
  BY QueueOutDoes DEF DataInv
<1>2. PICK o \in Fifos : o = thr[t].o
  BY <1>1
<1>3. /\ thr'[t].pc = "send" /\ thr'[t].op = "QUEUE" /\ thr'[t].f = thr[t].f /\ thr'[t].o = o
      /\ fifo'[o].consumed = fifo[o].consumed
      /\ fifo'[o].writeCount = fifo[o].writeCount + 1
      /\ \A f \in Fifos : f # o => fifo'[f] = fifo[f]
  BY <1>1, <1>2 DEF SameCall, At, OthersSame, Goes, KeepsWhat
<1>4. JobsFed'
  <2>1. \A f \in Fifos : Len(stick'.buf[f]) \in Nat /\ Len(stick'.buf[f]) >= Len(stick.buf[f])
    BY <1>1, BalanceTyped
  <2>2. QED
    BY <1>1, <2>1, FedStays DEF FeedInv
<1>5. SelvesFed'
  <2>1. \A s \in Threads : s # t => ~At(s, "QUEUE", "send")'
    BY <1>1, OnlyTrigger DEF At
  <2>2. fifo'[o].consumed < fifo'[o].writeCount
    BY <1>3, BalanceTyped
  <2>3. SelfFed(t)'
    BY <1>3, <2>2 DEF SelfFed
  <2>4. \A s \in Threads : SelfFed(s)'
    BY <2>1, <2>3 DEF SelfFed
  <2>5. QED
    BY <2>4 DEF SelvesFed
<1>6. ASSUME NEW f \in Fifos, Chained(f) PROVE Balance(f)'
  <2>1. PICK d \in Nat : d = Is(f, o)
    BY DEF One, Is
  <2>2. Took(f)' = Took(f) /\ Made(f) = 0 /\ Made(f)' = d
    <3>1. /\ Took(f) = One(TookAt(t, f)) /\ Took(f)' = One(TookAt(t, f)')
          /\ Made(f) = One(MadeAt(t, f)) /\ Made(f)' = One(MadeAt(t, f)')
      BY <1>1, OnlyTaker DEF At
    <3>2. /\ (TookAt(t, f)' <=> TookAt(t, f))
          /\ ~MadeAt(t, f) /\ (MadeAt(t, f)' <=> f = o)
      BY <1>1, <1>3 DEF TookAt, MadeAt, At
    <3>3. QED
      BY <2>1, <3>1, <3>2 DEF One, Is
  <2>3. Wrote(f)' = Wrote(f)
    BY <1>1, <1>3, WriteMarks DEF At
  <2>4. Uses(f)' = Uses(f) /\ Makes(f)' = Makes(f) /\ stick'.buf[f] = stick.buf[f]
    BY <1>1 DEF Uses, Makes
  <2>5. Rises(fifo[f].writeCount, fifo'[f].writeCount, d) /\ Rises(Made(f), Made(f)', d)
    BY <1>3, <2>1, <2>2, BalanceTyped DEF One, Is, Rises
  <2>6. PICK z \in Int : z = 0
    OBVIOUS
  <2>7. /\ Rises(Len(stick.buf[f]), Len(stick'.buf[f]), z) /\ Rises(Uses(f), Uses(f)', z)
        /\ Rises(Makes(f), Makes(f)', z) /\ Rises(Wrote(f), Wrote(f)', z)
        /\ Rises(Took(f), Took(f)', z)
    BY <2>2, <2>3, <2>4, <2>6, BalanceStays
  <2>8. Rises(fifo[f].consumed, fifo'[f].consumed, z)
    BY <1>3, <2>6, BalanceTyped DEF Rises
  <2>9. Moves(f, z, z, d, z, d, z, z, z)
    BY <2>5, <2>7, <2>8 DEF Moves
  <2>10. Balance(f) /\ d \in Int /\ z \in Int /\ Evens(z, z, d, z, d, z, z, z)
    BY <1>6, <2>1, <2>6 DEF FeedInv, Balanced, Evens
  <2>11. QED
    BY <2>9, <2>10, BalanceMoves
<1>7. QED
  BY <1>1, <1>4, <1>5, <1>6 DEF FeedInv, Balanced, Chained

\* A trigger becomes a job: its element is at the stick or comes from an earlier job.
LEMMA QueueSendFeed ==
  ASSUME HoldInv, DataInv, FeedInv, DeviceUp, Alive, Pipelined, NEW t \in Threads, QueueSend(t)
  PROVE  FeedInv'
<1>1. /\ thr[t].f \in Fifos /\ thr[t].o \in Fifos /\ At(t, "QUEUE", "send") /\ OnlyThread(t)
      /\ \/ thr'[t] = Idle /\ SendFails(t) /\ UNCHANGED stick
         \/ Goes(t, "check") /\ Fails(t, "refuse") /\ UNCHANGED stick
         \/ /\ Goes(t, "check")
            /\ stick'.jobs = Append(stick.jobs, [f |-> thr[t].f, o |-> thr[t].o])
            /\ stick'.buf = stick.buf
      /\ UNCHANGED <<usage, fifo>>
  BY QueueSendDoes DEF DataInv
<1>2. PICK h \in Fifos : h = thr[t].f
  BY <1>1
<1>3. PICK o \in Fifos : o = thr[t].o
  BY <1>1
<1>4. PICK j \in JobRecords : j = [f |-> h, o |-> o] /\ j.f = h /\ j.o = o
  <2>1. [f |-> h, o |-> o] \in JobRecords
    BY <1>2, <1>3 DEF JobRecords
  <2>2. [f |-> h, o |-> o].f = h /\ [f |-> h, o |-> o].o = o
    OBVIOUS
  <2>3. QED
    BY <2>1, <2>2
<1>5. PICK js \in Seq(JobRecords) : js = stick.jobs
  BY DEF DataInv, DataShape, StickShape
<1>6. PICK r : r = Append(js, j)
  OBVIOUS
<1>7. ~SendFails(t) /\ ~Fails(t, "refuse")
  <2>1. dev.monitor
    BY <1>1 DEF DeviceUp, Triggering, At
  <2>2. ~Fails(t, "send") /\ ~Fails(t, "refuse")
    BY <1>1 DEF Pipelined, TriggerFails, Fails, At
  <2>3. QED
    BY <2>1, <2>2 DEF SendFails
<1>8. /\ thr'[t].pc = "check" /\ thr'[t].op = "QUEUE"
      /\ stick'.jobs = r /\ stick'.buf = stick.buf
  BY <1>1, <1>2, <1>3, <1>4, <1>5, <1>6, <1>7 DEF Goes, KeepsWhat, SameCall, At
<1>9. /\ r \in Seq(JobRecords) /\ Len(r) = Len(js) + 1 /\ r[Len(r)] = j
      /\ \A k \in 1 .. Len(js) : r[k] = js[k]
  BY <1>6
<1>10. ASSUME NEW f
       PROVE  /\ \A k \in 0 .. Len(js) : /\ Hits(Inputs(r), k, f) = Hits(Inputs(js), k, f)
                                         /\ Hits(Outputs(r), k, f) = Hits(Outputs(js), k, f)
              /\ Hits(Inputs(r), Len(r), f) = Hits(Inputs(js), Len(js), f) + Is(h, f)
              /\ Hits(Outputs(r), Len(r), f) = Hits(Outputs(js), Len(js), f) + Is(o, f)
  <2>1. /\ \A k \in 0 .. Len(js) : /\ Hits(Inputs(r), k, f) = Hits(Inputs(js), k, f)
                                    /\ Hits(Outputs(r), k, f) = Hits(Outputs(js), k, f)
        /\ Hits(Inputs(r), Len(r), f) = Hits(Inputs(js), Len(js), f) + Is(j.f, f)
        /\ Hits(Outputs(r), Len(r), f) = Hits(Outputs(js), Len(js), f) + Is(j.o, f)
    <3>1. More(js, r, j)
      BY <1>9 DEF More
    <3>2. QED
      BY <3>1, JobAdded
  <2>2. Is(j.f, f) = Is(h, f) /\ Is(j.o, f) = Is(o, f)
    BY <1>4 DEF One, Is
  <2>3. QED
    BY <2>1, <2>2
<1>11. Len(js) \in Nat
  BY LenProperties
<1>12. Alone({"QUEUE"})
  BY DEF Pipelined
<1>13. Chained(h)
  <2>1. \E c \in usage.calls[t] : SameCall(thr[t], c)
    BY <1>1 DEF HoldInv, ThreadInv, Calling, At
  <2>2. QED
    BY <1>1, <1>2, <2>1 DEF Chained, SameCall, At
<1>14. /\ Took(h) = 1 /\ Made(h) = Is(h, o) /\ Balance(h)
       /\ (h = o => fifo[h].consumed < fifo[h].writeCount)
  <2>1. TookAt(t, h) /\ (MadeAt(t, h) <=> h = o)
    BY <1>1, <1>2, <1>3 DEF TookAt, MadeAt, At
  <2>2. Took(h) = One(TookAt(t, h)) /\ Made(h) = One(MadeAt(t, h))
    BY <1>1, <1>12, OnlyTaker DEF At
  <2>3. Balance(h)
    BY <1>13 DEF FeedInv, Balanced
  <2>4. SelfFed(t)
    BY DEF FeedInv, SelvesFed
  <2>5. QED
    BY <1>1, <1>2, <1>3, <2>1, <2>2, <2>3, <2>4 DEF One, Is, SelfFed
<1>15. Uses(h) + 1 <= Len(stick.buf[h]) + Makes(h)
  <2>1. PICK a \in Nat, b \in Nat, d \in Nat, e \in Nat :
               /\ a = Len(stick.buf[h]) /\ b = Makes(h) /\ d = Made(h) /\ e = fifo[h].consumed
    BY BalanceTyped
  <2>2. PICK g \in Nat, u \in Nat, i \in Nat :
               /\ g = fifo[h].writeCount /\ u = Uses(h) /\ i = Wrote(h)
    BY BalanceTyped
  <2>3. a + b + d + e = g + u + i + 1
    BY <1>14, <2>1, <2>2 DEF Balance
  <2>4. d + e <= g
    <3>1. e <= g /\ (h = o => e < g) /\ d = Is(h, o)
      BY <1>14, <2>1, <2>2, BalanceTyped
    <3>2. QED
      BY <3>1 DEF One, Is
  <2>5. u + 1 <= a + b
    BY <2>3, <2>4
  <2>6. QED
    BY <2>1, <2>2, <2>5
<1>16. JobsFed'
  <2> SUFFICES ASSUME NEW k \in 1 .. Len(r) PROVE Chained(r[k].f)' /\ Fed(k)'
    BY <1>8 DEF JobsFed
  <2>1. CASE k \in 1 .. Len(js)
    <3>1. r[k] = js[k] /\ k \in 0 .. Len(js) /\ k - 1 \in 0 .. Len(js)
      BY <1>9, <1>11, <2>1
    <3>2. PICK f : f = js[k].f
      OBVIOUS
    <3>3. /\ Hits(Inputs(r), k, f) = Hits(Inputs(js), k, f)
          /\ Hits(Outputs(r), k - 1, f) = Hits(Outputs(js), k - 1, f)
      BY <1>10, <3>1
    <3>4. Chained(f) /\ Hits(Inputs(js), k, f) <= Len(stick.buf[f]) + Hits(Outputs(js), k - 1, f)
      BY <1>5, <2>1, <3>2 DEF FeedInv, JobsFed, Fed
    <3>5. Hits(Inputs(r), k, f) <= Len(stick'.buf[f]) + Hits(Outputs(r), k - 1, f)
      BY <1>8, <3>3, <3>4
    <3>6. QED
      BY <1>1, <1>8, <3>1, <3>2, <3>4, <3>5 DEF Fed, Chained
  <2>2. CASE k = Len(js) + 1
    <3>1. r[k] = j /\ Len(r) = k /\ k - 1 = Len(js) /\ Len(js) \in 0 .. Len(js)
      BY <1>9, <1>11, <2>2
    <3>2. Hits(Inputs(r), k, h) = Hits(Inputs(js), Len(js), h) + Is(h, h)
      BY <1>10, <3>1
    <3>3. Hits(Inputs(r), k, h) = Uses(h) + 1
      BY <1>5, <3>2 DEF Uses, One, Is
    <3>4. Hits(Outputs(r), k - 1, h) = Makes(h)
      BY <1>5, <1>10, <3>1 DEF Makes
    <3>5. Hits(Inputs(r), k, h) <= Len(stick'.buf[h]) + Hits(Outputs(r), k - 1, h)
      BY <1>8, <1>15, <3>3, <3>4
    <3>6. QED
      BY <1>1, <1>4, <1>8, <1>13, <3>1, <3>5 DEF Fed, Chained
  <2>3. QED
    BY <1>9, <1>11, <2>1, <2>2
<1>17. SelvesFed'
  <2>1. \A s \in Threads : ~At(s, "QUEUE", "send")'
    BY <1>1, <1>8, <1>12, OnlyTrigger DEF At
  <2>2. QED
    BY <2>1 DEF SelvesFed, SelfFed
<1>18. ASSUME NEW f \in Fifos, Chained(f) PROVE Balance(f)'
  <2>1. PICK d \in Nat : d = Is(h, f)
    BY DEF One, Is
  <2>2. PICK p \in Nat : p = Is(o, f)
    BY DEF One, Is
  <2>3. PICK c \in Int : c = 0 - d
    BY <2>1
  <2>4. PICK q \in Int : q = 0 - p
    BY <2>2
  <2>5. Took(f) = d /\ Took(f)' = 0 /\ Made(f) = p /\ Made(f)' = 0
    <3>1. /\ Took(f) = One(TookAt(t, f)) /\ Took(f)' = One(TookAt(t, f)')
          /\ Made(f) = One(MadeAt(t, f)) /\ Made(f)' = One(MadeAt(t, f)')
      BY <1>1, <1>12, OnlyTaker DEF At
    <3>2. /\ (TookAt(t, f) <=> h = f) /\ ~TookAt(t, f)'
          /\ (MadeAt(t, f) <=> o = f) /\ ~MadeAt(t, f)'
      BY <1>1, <1>2, <1>3, <1>8 DEF TookAt, MadeAt, At
    <3>3. QED
      BY <2>1, <2>2, <3>1, <3>2 DEF One, Is
  <2>6. Rises(Took(f), Took(f)', c) /\ Rises(Made(f), Made(f)', q)
    BY <2>1, <2>2, <2>3, <2>4, <2>5 DEF Rises
  <2>7. Uses(f)' = Uses(f) + d /\ Makes(f)' = Makes(f) + p
    BY <1>5, <1>8, <1>10, <2>1, <2>2 DEF Uses, Makes
  <2>8. Rises(Uses(f), Uses(f)', d) /\ Rises(Makes(f), Makes(f)', p)
    BY <2>7 DEF Rises
  <2>9. Wrote(f)' = Wrote(f)
    BY <1>1, <1>8, WriteMarks DEF At
  <2>10. PICK z \in Int : z = 0
    OBVIOUS
  <2>11. /\ Rises(Len(stick.buf[f]), Len(stick'.buf[f]), z) /\ Rises(Wrote(f), Wrote(f)', z)
         /\ Rises(fifo[f].consumed, fifo'[f].consumed, z)
         /\ Rises(fifo[f].writeCount, fifo'[f].writeCount, z)
    BY <1>1, <1>8, <2>9, <2>10, BalanceStays
  <2>12. Balance(f) /\ d \in Int /\ p \in Int /\ c \in Int /\ q \in Int
    BY <1>18, <2>1, <2>2, <2>3, <2>4 DEF FeedInv, Balanced
  <2>13. Evens(z, p, q, z, z, d, z, c)
    BY <2>1, <2>2, <2>3, <2>4, <2>10 DEF Evens
  <2>14. Moves(f, z, p, q, z, z, d, z, c)
    BY <2>6, <2>8, <2>11 DEF Moves
  <2>15. QED
    BY <2>10, <2>12, <2>13, <2>14, BalanceMoves
<1>19. QED
  BY <1>1, <1>16, <1>17, <1>18 DEF FeedInv, Balanced, Chained

\* The stick runs a job: it takes one element and leaves one where others take it.
LEMMA StickFeed ==
  ASSUME HoldInv, DataInv, JobsFed, SelvesFed, NEW j \in JobRecords, NEW e, Ran(j, e)
  PROVE  JobsFed' /\ SelvesFed' /\ (Balanced => Balanced')
<1>1. /\ stick.jobs # <<>> /\ j = Head(stick.jobs) /\ stick'.jobs = Tail(stick.jobs)
      /\ stick.buf[j.f] # <<>> /\ j.f \in Fifos /\ j.o \in Fifos
      /\ \A f \in Fifos : stick'.buf[f] = IF f = j.o /\ Chained(f) THEN Append(Left(j, f), e)
                                         ELSE Left(j, f)
      /\ UNCHANGED <<usage, fifo, thr>>
  BY DEF Ran, JobRecords
<1>2. PICK js \in Seq(JobRecords) : js = stick.jobs
  BY DEF DataInv, DataShape, StickShape
<1>3. PICK r : r = stick'.jobs
  OBVIOUS
<1>4. Done(js, r, j)
  <2>1. js # <<>> /\ r = Tail(js) /\ j = Head(js)
    BY <1>1, <1>2, <1>3
  <2>2. r \in Seq(JobRecords) /\ Len(js) = Len(r) + 1 /\ j = js[1]
    BY <2>1, EmptySeq
  <2>3. \A k \in 1 .. Len(r) : r[k] = js[k + 1]
    BY <2>1, <2>2
  <2>4. QED
    BY <2>2, <2>3 DEF Done
<1>5. /\ r \in Seq(JobRecords) /\ Len(js) = Len(r) + 1 /\ j = js[1] /\ Len(r) \in Nat
      /\ \A k \in 1 .. Len(r) : r[k] = js[k + 1]
  BY <1>4, LenProperties DEF Done
<1>6. ASSUME NEW f, NEW k \in 0 .. Len(r)
      PROVE  /\ Hits(Inputs(js), k + 1, f) = Hits(Inputs(r), k, f) + Is(j.f, f)
             /\ Hits(Outputs(js), k + 1, f) = Hits(Outputs(r), k, f) + Is(j.o, f)
  BY <1>4, JobDone
<1>7. ASSUME NEW f \in Fifos, Chained(f)
      PROVE  /\ Len(stick'.buf[f]) + Is(j.f, f) = Len(stick.buf[f]) + Is(j.o, f)
             /\ Len(stick.buf[f]) \in Nat /\ Len(stick'.buf[f]) \in Nat
  <2>1. PICK q : q = Left(j, f)
    OBVIOUS
  <2>2. /\ IsSeq(q) /\ Len(q) \in Nat
        /\ Len(q) = IF f = j.f THEN Len(stick.buf[f]) - 1 ELSE Len(stick.buf[f])
    BY <1>1, <2>1, LeftOf DEF DataInv, DataShape
  <2>3. PICK l \in Nat, v \in Nat, d \in Nat, i \in Nat :
              l = Len(stick.buf[f]) /\ v = Len(q) /\ d = Is(j.f, f) /\ i = Is(j.o, f)
    BY <2>2, BalanceTyped DEF Is
  <2>4. v + d = l
    <3>1. CASE f = j.f
      <4>1. v = l - 1
        BY <2>2, <2>3, <3>1
      <4>2. d = 1
        BY <2>3, <3>1 DEF Is
      <4>3. QED
        BY <4>1, <4>2
    <3>2. CASE f # j.f
      <4>1. v = l
        BY <2>2, <2>3, <3>2
      <4>2. d = 0
        BY <2>3, <3>2 DEF Is
      <4>3. QED
        BY <4>1, <4>2
    <3>3. QED
      BY <3>1, <3>2
  <2>5. stick'.buf[f] = IF f = j.o THEN Append(q, e) ELSE q
    BY <1>1, <1>7, <2>1
  <2>6. Len(stick'.buf[f]) = v + i
    <3>1. CASE f = j.o
      <4>1. Len(Append(q, e)) = v + 1 /\ i = 1
        BY <2>2, <2>3, <3>1, SeqAppended DEF Is
      <4>2. QED
        BY <2>5, <3>1, <4>1
    <3>2. CASE f # j.o
      BY <2>3, <2>5, <3>2 DEF Is
    <3>3. QED
      BY <3>1, <3>2
  <2>7. v + i + d = l + i
    BY <2>3, <2>4
  <2>8. QED
    BY <2>3, <2>6, <2>7
<1>8. JobsFed'
  <2> SUFFICES ASSUME NEW k \in 1 .. Len(r) PROVE Chained(r[k].f)' /\ Fed(k)'
    BY <1>3 DEF JobsFed
  <2>1. /\ k + 1 \in 1 .. Len(js) /\ k \in 0 .. Len(r) /\ k - 1 \in 0 .. Len(r)
        /\ (k + 1) - 1 = k /\ (k - 1) + 1 = k /\ k \in Int /\ k - 1 \in Int
    BY <1>5
  <2>2. PICK f : f = r[k].f
    OBVIOUS
  <2>3. f = js[k + 1].f /\ f \in Fifos
    <3>1. r[k] = js[k + 1] /\ r[k] \in JobRecords
      BY <1>5
    <3>2. QED
      BY <2>2, <3>1 DEF JobRecords
  <2>4. /\ Chained(f)
        /\ Hits(Inputs(js), k + 1, f) <= Len(stick.buf[f]) + Hits(Outputs(js), k, f)
    <3>1. Chained(js[k + 1].f) /\ Fed(k + 1)
      BY <1>2, <2>1 DEF JobsFed
    <3>2. QED
      BY <1>2, <2>1, <2>3, <3>1 DEF Fed
  <2>5. Hits(Inputs(js), k + 1, f) = Hits(Inputs(r), k, f) + Is(j.f, f)
    BY <1>6, <2>1
  <2>6. Hits(Outputs(js), k, f) = Hits(Outputs(r), k - 1, f) + Is(j.o, f)
    BY <1>6, <2>1
  <2>7. PICK a \in Nat, b \in Nat : a = Hits(Inputs(r), k, f) /\ b = Hits(Outputs(r), k - 1, f)
    BY <2>1, HitsNat
  <2>8. PICK d \in Nat, i \in Nat : d = Is(j.f, f) /\ i = Is(j.o, f)
    BY DEF Is
  <2>9. PICK m \in Nat, n \in Nat : m = Len(stick.buf[f]) /\ n = Len(stick'.buf[f])
    BY <1>7, <2>3, <2>4
  <2>10. n + d = m + i
    BY <1>7, <2>3, <2>4, <2>8, <2>9
  <2>11. a + d <= m + (b + i)
    BY <2>4, <2>5, <2>6, <2>7, <2>8, <2>9
  <2>12. a <= n + b
    BY <2>10, <2>11
  <2>13. Hits(Inputs(r), k, f) <= Len(stick'.buf[f]) + Hits(Outputs(r), k - 1, f)
    BY <2>7, <2>9, <2>12
  <2>14. QED
    BY <1>1, <1>3, <2>2, <2>4, <2>13 DEF Fed, Chained
<1>9. SelvesFed'
  BY <1>1 DEF SelvesFed, SelfFed, At
<1>10. ASSUME Balanced, NEW f \in Fifos, Chained(f)
       PROVE  Balance(f)'
  <2>1. PICK d \in Nat : d = Is(j.f, f)
    BY DEF Is
  <2>2. PICK i \in Nat : i = Is(j.o, f)
    BY DEF Is
  <2>3. PICK z \in Int : z = 0
    OBVIOUS
  <2>4. PICK a \in Int : a = i - d
    BY <2>1, <2>2
  <2>5. PICK b \in Int : b = 0 - d
    BY <2>1
  <2>6. PICK g \in Int : g = 0 - i
    BY <2>2
  <2>7. Rises(Len(stick.buf[f]), Len(stick'.buf[f]), a)
    <3>1. PICK l \in Nat, v \in Nat : l = Len(stick.buf[f]) /\ v = Len(stick'.buf[f])
      BY <1>7, <1>10
    <3>2. v + d = l + i
      BY <1>7, <1>10, <2>1, <2>2, <3>1
    <3>3. v = l + a
      BY <2>4, <3>2
    <3>4. QED
      BY <3>1, <3>3 DEF Rises
  <2>8. Len(r) \in 0 .. Len(r) /\ Len(r) \in Int
    BY <1>5
  <2>9. Uses(f) = Uses(f)' + d /\ Makes(f) = Makes(f)' + i
    BY <1>2, <1>3, <1>5, <1>6, <2>1, <2>2, <2>8 DEF Uses, Makes
  <2>10. Uses(f)' \in Nat /\ Makes(f)' \in Nat
    BY <1>3, <2>8, HitsNat DEF Uses, Makes
  <2>11. Rises(Uses(f), Uses(f)', b) /\ Rises(Makes(f), Makes(f)', g)
    BY <2>1, <2>2, <2>5, <2>6, <2>9, <2>10 DEF Rises
  <2>12. Wrote(f)' = Wrote(f) /\ Took(f)' = Took(f) /\ Made(f)' = Made(f)
    BY <1>1 DEF Wrote, Took, Made, WroteAt, TookAt, MadeAt, At
  <2>13. /\ Rises(Wrote(f), Wrote(f)', z) /\ Rises(Took(f), Took(f)', z)
         /\ Rises(Made(f), Made(f)', z)
         /\ Rises(fifo[f].consumed, fifo'[f].consumed, z)
         /\ Rises(fifo[f].writeCount, fifo'[f].writeCount, z)
    BY <1>1, <2>3, <2>12, BalanceStays
  <2>14. Balance(f) /\ a \in Int /\ b \in Int /\ g \in Int /\ z \in Int
    BY <1>10, <2>3, <2>4, <2>5, <2>6 DEF Balanced
  <2>15. Evens(a, g, z, z, z, b, z, z)
    BY <2>1, <2>2, <2>3, <2>4, <2>5, <2>6 DEF Evens
  <2>16. Moves(f, a, g, z, z, z, b, z, z)
    BY <2>7, <2>11, <2>13 DEF Moves
  <2>17. QED
    BY <2>14, <2>15, <2>16, BalanceMoves
<1>11. QED
  BY <1>1, <1>8, <1>9, <1>10 DEF Balanced, Chained

-----------------------------------------------------------------------------
(* The other steps.                                                          *)

LEMMA OthersQuiet ==
  ASSUME HoldInv, DataInv, FeedInv, NEW t \in Threads, Steps(t), CountsStay,
         thr[t].op \notin {"WRITE", "QUEUE"}, stick'.jobs = stick.jobs, stick'.buf = stick.buf
  PROVE  FeedInv'
<1>1. OnlyThread(t) /\ usage' = usage /\ (thr'[t] = Idle \/ SameCall(thr'[t], thr[t]))
  BY DEF Steps, Advances, OnlyThread
<1>2. Off(t) /\ Off(t)'
  BY <1>1 DEF Off, At, SameCall, Idle
<1>3. QED
  BY <1>1, <1>2, QuietFeed

LEMMA FifoSteady ==
  ASSUME NEW f \in Fifos, OthersSame(f), fifo'[f].writeCount = fifo[f].writeCount,
         fifo'[f].consumed = fifo[f].consumed
  PROVE  CountsStay
  BY DEF OthersSame, CountsStay

LEMMA FifoCallsFeed ==
  ASSUME HoldInv, DataInv, FeedInv, Pipelined, NEW t \in Threads, Steps(t), thr[t].pc # "idle",
         \/ thr[t].op \in {"SETTYPE", "SETDESC"} /\ (SetType(t) \/ SetDesc(t))
         \/ thr[t].op = "FALLOC" /\ FifoAllocs(t)
         \/ thr[t].op = "FDESTROY" /\ FifoDestroys(t)
  PROVE  FeedInv'
<1>0. FifoShape /\ thr[t].op \notin {"WRITE", "QUEUE"}
  BY DEF DataInv, DataShape
<1>1. CASE SetType(t) \/ SetDesc(t)
  <2>1. /\ thr[t].f \in Fifos /\ OthersSame(thr[t].f) /\ ElementsSame(thr[t].f) /\ stick' = stick
    BY <1>0, <1>1, OptionDoes
  <2>2. CountsStay
    BY <2>1, FifoSteady DEF ElementsSame
  <2>3. QED
    BY <1>0, <2>1, <2>2, OthersQuiet
<1>2. CASE FAllocRead(t)
  <2>1. fifo' = fifo /\ stick' = stick
    BY <1>2, FAllocReadDoes
  <2>2. QED
    BY <1>0, <2>1, OthersQuiet DEF CountsStay
<1>3. CASE FAllocFind(t)
  <2>1. /\ thr[t].f \in Fifos /\ OthersSame(thr[t].f) /\ stick' = stick
        /\ fifo'[thr[t].f].writeCount = fifo[thr[t].f].writeCount
        /\ fifo'[thr[t].f].consumed = fifo[thr[t].f].consumed
    BY <1>0, <1>3, FAllocFindDoes DEF ElementsSame
  <2>2. CountsStay
    BY <2>1, FifoSteady
  <2>3. QED
    BY <1>0, <2>1, <2>2, OthersQuiet
<1>4. CASE FAllocLink(t) \/ FAllocSend(t) \/ FAllocCheck(t)
  <2>1. /\ thr[t].f \in Fifos /\ OthersSame(thr[t].f) /\ ElementsSame(thr[t].f) /\ stick' = stick
    BY <1>0, <1>4, FAllocRestDoes
  <2>2. CountsStay
    BY <2>1, FifoSteady DEF ElementsSame
  <2>3. QED
    BY <1>0, <2>1, <2>2, OthersQuiet
<1>5. CASE thr[t].op = "FDESTROY"
  <2>1. t \in Callers({"CLOSE", "FDESTROY"})
    BY <1>5 DEF HoldInv, ThreadInv, Calling, SameCall, Callers
  <2>2. QED
    BY <2>1 DEF Pipelined
<1>6. QED
  BY <1>1, <1>2, <1>3, <1>4, <1>5 DEF FifoAllocs

LEMMA WritesFeed ==
  ASSUME HoldInv, DataInv, FeedInv, Pipelined, NEW t \in Threads, Steps(t), thr[t].op = "WRITE",
         Writes(t)
  PROVE  FeedInv'
<1>1. Alone({"WRITE"})
  BY DEF Pipelined
<1>2. CASE WriteEnter(t)
  <2>1. /\ fifo' = fifo /\ stick' = stick /\ usage' = usage
        /\ OnlyThread(t) /\ thr[t].pc = "enter"
        /\ thr'[t] = Idle \/ thr'[t].pc = "crashed"
             \/ (thr'[t].pc = "send" /\ SameCall(thr'[t], thr[t]))
    BY <1>2, WriteEnterDoes DEF Goes
  <2>2. Off(t) /\ Off(t)'
    BY <2>1 DEF Off, At, SameCall, Idle
  <2>3. QED
    BY <2>1, <2>2, QuietFeed DEF CountsStay
<1>3. QED
  BY <1>1, <1>2, WriteSendFeed, WriteCountFeed DEF Writes

LEMMA TriggersFeed ==
  ASSUME HoldInv, DataInv, FeedInv, DeviceUp, Alive, Pipelined, NEW t \in Threads, Steps(t),
         thr[t].op = "QUEUE", Triggers(t)
  PROVE  FeedInv'
<1>0. Alone({"QUEUE"}) /\ DataShape
  BY DEF Pipelined, DataInv
<1>1. CASE QueueEnter(t) \/ QueueCheck(t)
  <2>1. /\ fifo' = fifo /\ stick' = stick /\ usage' = usage /\ OnlyThread(t)
        /\ thr[t].pc \in {"enter", "check"}
        /\ thr'[t] = Idle \/ thr'[t].pc = "in"
    BY <1>1, QueueRestDoes DEF Goes
  <2>2. Off(t) /\ Off(t)'
    BY <2>1 DEF Off, At, Idle
  <2>3. QED
    BY <2>1, <2>2, QuietFeed DEF CountsStay
<1>2. CASE QueueIn(t)
  <2>1. /\ thr[t].f \in Fifos /\ OthersSame(thr[t].f) /\ stick' = stick /\ usage' = usage
        /\ fifo'[thr[t].f].writeCount = fifo[thr[t].f].writeCount
        /\ fifo'[thr[t].f].consumed = fifo[thr[t].f].consumed
        /\ OnlyThread(t) /\ thr[t].pc = "in" /\ thr'[t].pc \in {"take", "drain"}
    BY <1>0, <1>2, QueueInDoes DEF Goes, At
  <2>2. CountsStay
    BY <2>1, FifoSteady
  <2>3. Off(t) /\ Off(t)'
    BY <2>1 DEF Off, At
  <2>4. QED
    BY <2>1, <2>2, <2>3, QuietFeed
<1>3. CASE QueueDrain(t)
  <2>1. /\ fifo' = fifo /\ stick'.jobs = stick.jobs /\ stick'.buf = stick.buf /\ usage' = usage
        /\ OnlyThread(t) /\ thr[t].pc = "drain" /\ thr'[t].pc = "take"
    BY <1>0, <1>3, QueueDrainDoes DEF Goes, At
  <2>2. Off(t) /\ Off(t)'
    BY <2>1 DEF Off, At
  <2>3. QED
    BY <2>1, <2>2, QuietFeed DEF CountsStay
<1>4. QED
  BY <1>0, <1>1, <1>2, <1>3, QueueTakeFeed, QueueOutFeed, QueueSendFeed DEF Triggers

LEMMA ReadsFeed ==
  ASSUME HoldInv, DataInv, FeedInv, NEW t \in Threads, Steps(t),
         thr[t].op = "READ", ReadsElem(t)
  PROVE  FeedInv'
<1>0. DataShape /\ thr[t].op \notin {"WRITE", "QUEUE"}
  BY DEF DataInv
<1>1. CASE ReadEnter(t)
  <2>1. fifo' = fifo /\ stick' = stick
    BY <1>1, ReadEnterDoes
  <2>2. QED
    BY <1>0, <2>1, OthersQuiet DEF CountsStay
<1>2. CASE ReadWait(t)
  <2>1. fifo' = fifo /\ stick'.jobs = stick.jobs /\ stick'.buf = stick.buf
    BY <1>0, <1>2, ReadWaitDoes
  <2>2. QED
    BY <1>0, <2>1, OthersQuiet DEF CountsStay
<1>3. CASE ReadCount(t)
  <2>1. /\ thr[t].f \in Fifos /\ OthersSame(thr[t].f) /\ stick' = stick
        /\ fifo'[thr[t].f].writeCount = fifo[thr[t].f].writeCount
        /\ fifo'[thr[t].f].consumed = fifo[thr[t].f].consumed
    BY <1>0, <1>3, ReadCountDoes
  <2>2. CountsStay
    BY <2>1, FifoSteady
  <2>3. QED
    BY <1>0, <2>1, <2>2, OthersQuiet
<1>4. QED
  BY <1>1, <1>2, <1>3 DEF ReadsElem

LEMMA CallsFeed ==
  ASSUME HoldInv, DataInv, FeedInv, DeviceUp, Alive, Pipelined, NEW t \in Threads, Steps(t),
         thr[t].op \notin DeviceOps, thr[t].pc # "idle", OpsOf(t)
  PROVE  FeedInv'
<1>1. CASE thr[t].op \in {"GALLOC", "GDESTROY", "STATE"} /\ GraphCalls(t)
  <2>1. fifo' = fifo /\ stick' = stick
    BY <1>1, GraphsDo
  <2>2. QED
    BY <1>1, <2>1, OthersQuiet DEF CountsStay
<1>2. QED
  BY <1>1, FifoCallsFeed, WritesFeed, TriggersFeed, ReadsFeed DEF OpsOf

LEMMA CallFeed ==
  ASSUME HoldInv, DataInv, FeedInv, NEW t \in Threads, Call(t)
  PROVE  FeedInv'
<1>1. /\ OnlyThread(t) /\ thr[t] = Idle /\ thr'[t].pc = "enter"
      /\ UNCHANGED <<usage, fifo, stick>>
  BY CallBegins
<1>2. Off(t) /\ Off(t)'
  BY <1>1 DEF Off, At, Idle
<1>3. QED
  BY <1>1, <1>2, QuietFeed DEF CountsStay

\* The device is opened, closed or destroyed.
LEMMA DevicesFeed ==
  ASSUME HoldInv, DataInv, ObjectShape, DeviceUp, JobsFed, SelvesFed, Alive => Balanced,
         NEW t \in Threads, Steps(t), thr[t].op \in DeviceOps, thr[t].pc # "idle", Devices(t)
  PROVE  JobsFed' /\ SelvesFed' /\ (Alive' => Balanced')
<1>0. /\ OnlyThread(t) /\ usage' = usage /\ ~At(t, "QUEUE", "send")' /\ DataShape
      /\ thr'[t] = Idle \/ SameCall(thr'[t], thr[t])
  BY DEF Steps, Advances, OnlyThread, At, SameCall, Idle, DeviceOps, DataInv
<1>1. CASE Close(t)
  <2>1. /\ \A f \in Fifos : /\ fifo'[f].writeCount = fifo[f].writeCount
                            /\ fifo'[f].consumed = fifo[f].consumed
        /\ stick'.jobs = <<>>
    BY <1>0, <1>1, CloseDoes
  <2>2. JobsFed'
    <3>1. Len(stick'.jobs) = 0
      BY <2>1
    <3>2. QED
      BY <3>1 DEF JobsFed
  <2>3. SelvesFed'
    <3>1. \A f \in Fifos : /\ fifo'[f].writeCount \in Nat
                           /\ fifo'[f].writeCount >= fifo[f].writeCount
                           /\ fifo'[f].consumed = fifo[f].consumed
      BY <2>1, BalanceTyped
    <3>2. QED
      BY <1>0, <3>1, SelfStays
  <2>4. ~Alive'
    <3>1. dev' = [dev EXCEPT !.st = "closed", !.monitor = FALSE]
      BY <1>1 DEF Close
    <3>2. dev'.st = "closed"
      BY <3>1 DEF ObjectShape, DeviceShape
    <3>3. QED
      BY <3>2 DEF Alive
  <2>5. QED
    BY <2>2, <2>3, <2>4
<1>2. CASE ~Close(t)
  <2>1. fifo' = fifo /\ stick' = stick
    BY <1>2, DevicesDo
  <2>2. CASE Alive
    <3>1. FeedInv
      BY <2>2 DEF FeedInv
    <3>2. FeedInv'
      BY <2>1, <3>1, OthersQuiet DEF CountsStay, DeviceOps
    <3>3. QED
      BY <3>2 DEF FeedInv
  <2>3. CASE ~Alive
    <3>1. JobsFed'
      <4>1. \A f \in Fifos : Len(stick'.buf[f]) \in Nat /\ Len(stick'.buf[f]) >= Len(stick.buf[f])
        BY <2>1, BalanceTyped
      <4>2. QED
        BY <1>0, <2>1, <4>1, FedStays
    <3>2. SelvesFed'
      <4>1. \A f \in Fifos : /\ fifo'[f].writeCount \in Nat
                             /\ fifo'[f].writeCount >= fifo[f].writeCount
                             /\ fifo'[f].consumed = fifo[f].consumed
        BY <2>1, BalanceTyped
      <4>2. QED
        BY <1>0, <4>1, SelfStays
    <3>3. At(t, "DESTROY", "destroy")
      BY <2>3, OpsAlive
    <3>4. Destroy(t)
      BY <1>2, <3>3 DEF Devices, OpenEnter, OpenMonitor, CloseEnter, At
    <3>5. dev' = [dev EXCEPT !.st = "destroyed"]
      BY <3>4 DEF Destroy
    <3>6. dev'.st = "destroyed"
      BY <3>5 DEF ObjectShape, DeviceShape
    <3>7. QED
      BY <3>1, <3>2, <3>6 DEF Alive
  <2>4. QED
    BY <2>2, <2>3
<1>3. QED
  BY <1>1, <1>2

LEMMA UsageStays ==
  ASSUME HoldInv, [Next]_vars
  PROVE  usage' = usage
<1>1. CASE UNCHANGED vars \/ StickRuns
  BY <1>1, Zenon DEF vars, StickRuns
<1>2. ASSUME NEW t \in Threads, Thread(t)
      PROVE  usage' = usage
  <2>1. CASE Call(t)
    BY <2>1, CallBegins
  <2>2. CASE OpsOf(t) /\ thr[t].pc # "idle" /\ Steps(t)
    BY <2>2 DEF Steps, Advances
  <2>3. QED
    BY <1>2, <2>1, <2>2, StepOps
<1>3. QED
  BY <1>1, <1>2 DEF Next

LEMMA InitJobs == Init => JobInv
<1> SUFFICES ASSUME Init PROVE JobInv
  OBVIOUS
<1>1. /\ stick = [jobs |-> <<>>, buf |-> [f \in Fifos |-> <<>>], out |-> [f \in Fifos |-> <<>>]]
      /\ thr = [t \in Threads |-> Idle]
      /\ fifo = [f \in Fifos |-> NewFifo(usage, f)]
      /\ graph = [g \in Graphs |-> NewGraph(usage, g)]
      /\ dev = IF usage.ready.open THEN [st |-> "opened", listed |-> TRUE, monitor |-> TRUE]
               ELSE [st |-> "created", listed |-> FALSE, monitor |-> FALSE]
      /\ usage \in Usages
  BY DEF Init
<1>2. \A t \in Threads : thr[t].pc = "idle" /\ thr[t].op = "NONE"
  BY <1>1 DEF Idle
<1>3. Len(stick.jobs) = 0 /\ \A f \in Fifos : Len(stick.buf[f]) = 0
  BY <1>1
<1>4. \A f \in Fifos : fifo[f].writeCount = 0 /\ fifo[f].consumed = 0
  BY <1>1 DEF NewFifo
<1>5. DeviceUp
  <2>1. CASE usage.ready.open
    BY <1>1, <1>2, <2>1 DEF DeviceUp, Alive, Allocating, Triggering
  <2>2. CASE ~usage.ready.open
    <3>1. usage.ready.graphs = <<>>
      BY <1>1, <2>2, NcAssumption DEF IsReady
    <3>2. \A g \in Graphs : ~GraphLive(g)
      <4>1. \A g \in Graphs : g \notin Range(usage.ready.graphs)
        BY <3>1 DEF Range
      <4>2. QED
        BY <1>1, <4>1 DEF NewGraph, GraphLive
    <3>3. dev.st = "created"
      BY <1>1, <2>2
    <3>4. QED
      BY <1>2, <3>2, <3>3 DEF DeviceUp, Alive, Allocating, Triggering
  <2>3. QED
    BY <2>1, <2>2
<1>6. JobsFed
  BY <1>3 DEF JobsFed
<1>7. SelvesFed
  BY <1>2 DEF SelvesFed, SelfFed, At
<1>8. ASSUME NEW f \in Fifos PROVE Balance(f)
  <2>1. Wrote(f) = 0 /\ Took(f) = 0 /\ Made(f) = 0
    BY <1>2 DEF Wrote, Took, Made, WroteAt, TookAt, MadeAt, At, One
  <2>2. Uses(f) = 0 /\ Makes(f) = 0
    <3>1. \A s : {i \in 1 .. 0 : s[i] = f} = {}
      OBVIOUS
    <3>2. \A s : Hits(s, 0, f) = 0
      BY <3>1, FS_EmptySet DEF Hits
    <3>3. QED
      BY <1>3, <3>2 DEF Uses, Makes
  <2>3. QED
    BY <1>3, <1>4, <2>1, <2>2 DEF Balance
<1>9. QED
  BY <1>5, <1>6, <1>7, <1>8 DEF JobInv, Balanced

LEMMA StepJobs ==
  HoldInv /\ DataInv /\ ObjectShape /\ GraphInv /\ JobInv /\ [Next]_vars => JobInv'
<1> SUFFICES ASSUME HoldInv, DataInv, ObjectShape, GraphInv, JobInv, [Next]_vars, Pipelined'
             PROVE  (DeviceUp /\ JobsFed /\ SelvesFed /\ (Alive => Balanced))'
  BY DEF JobInv
<1>0. usage' = usage
  BY UsageStays
<1>1. /\ Pipelined /\ DeviceUp /\ JobsFed /\ SelvesFed /\ (Alive => Balanced)
      /\ Callers({"CLOSE"}) = {} /\ DataShape
  <2>1. Pipelined
    BY <1>0 DEF Pipelined, Alone, Callers
  <2>2. Callers({"CLOSE"}) = {}
    BY <2>1 DEF Pipelined, Callers
  <2>3. QED
    BY <2>1, <2>2 DEF JobInv, DataInv
<1>2. CASE StickRuns
  <2>0. PICK j \in JobRecords : \E e : Ran(j, e)
    BY <1>1, <1>2, StickDoes
  <2>1. PICK e : Ran(j, e)
    BY <2>0
  <2>2. UNCHANGED <<dev, graph, thr>>
    BY <2>1 DEF Ran
  <2>3. DeviceUp' /\ Alive' = Alive
    BY <1>1, <2>2 DEF DeviceUp, Alive, GraphLive, Allocating, Triggering, At
  <2>4. JobsFed' /\ SelvesFed' /\ (Balanced => Balanced')
    BY <1>1, <2>1, StickFeed
  <2>5. QED
    BY <1>1, <2>3, <2>4
<1>3. ASSUME NEW t \in Threads, Thread(t)
      PROVE  (DeviceUp /\ JobsFed /\ SelvesFed /\ (Alive => Balanced))'
  <2>1. CASE Call(t)
    <3>1. DeviceUp' /\ Alive
      BY <1>1, <2>1, CallUp
    <3>2. FeedInv
      BY <1>1, <3>1 DEF FeedInv
    <3>3. FeedInv'
      BY <2>1, <3>2, CallFeed
    <3>4. QED
      BY <3>1, <3>3 DEF FeedInv
  <2>2. CASE OpsOf(t) /\ thr[t].pc # "idle" /\ Steps(t) /\ thr[t].op \in DeviceOps
    <3>1. Devices(t)
      BY <2>2 DEF OpsOf, DeviceOps
    <3>2. DeviceUp'
      BY <1>1, <2>2, <3>1, DevicesUp
    <3>3. JobsFed' /\ SelvesFed' /\ (Alive' => Balanced')
      BY <1>1, <2>2, <3>1, DevicesFeed
    <3>4. QED
      BY <3>2, <3>3
  <2>3. CASE OpsOf(t) /\ thr[t].pc # "idle" /\ Steps(t) /\ thr[t].op \notin DeviceOps
    <3>1. DeviceUp' /\ Alive
      BY <1>1, <2>3, CallsUp
    <3>2. FeedInv
      BY <1>1, <3>1 DEF FeedInv
    <3>3. FeedInv'
      BY <1>1, <2>3, <3>1, <3>2, CallsFeed
    <3>4. QED
      BY <3>1, <3>3 DEF FeedInv
  <2>4. QED
    BY <1>3, <2>1, <2>2, <2>3, StepOps
<1>4. CASE UNCHANGED vars
  <2>1. UNCHANGED <<usage, dev, graph, thr, stick, fifo>>
    BY <1>4 DEF vars
  <2>2. DeviceUp' /\ Alive' = Alive
    BY <1>1, <2>1 DEF DeviceUp, Alive, GraphLive, Allocating, Triggering, At
  <2>3. JobsFed'
    BY <1>1, <2>1 DEF JobsFed, Fed, Chained
  <2>4. SelvesFed'
    BY <1>1, <2>1 DEF SelvesFed, SelfFed, At
  <2>5. Balanced' = Balanced
    BY <2>1 DEF Balanced, Balance, Chained, Wrote, Took, Made, WroteAt, TookAt, MadeAt, At,
       Uses, Makes
  <2>6. QED
    BY <1>1, <2>2, <2>3, <2>4, <2>5
<1>5. QED
  BY <1>2, <1>3, <1>4 DEF Next

LEMMA JobsHold == DataInv /\ JobInv => JobHasElement
<1> SUFFICES ASSUME DataInv, JobsFed, NEW k \in 1 .. Len(stick.jobs)
             PROVE  LET f == stick.jobs[k].f
                    IN Cardinality({i \in 1 .. k : stick.jobs[i].f = f})
                         <= Len(stick.buf[f])
                              + Cardinality({i \in 1 .. k - 1 : stick.jobs[i].o = f})
  BY DEF JobInv, JobHasElement
<1>1. PICK f : f = stick.jobs[k].f
  OBVIOUS
<1>2. PICK p : p = Inputs(stick.jobs)
  OBVIOUS
<1>3. PICK q : q = Outputs(stick.jobs)
  OBVIOUS
<1>4. \A i \in 1 .. k : p[i] = stick.jobs[i].f /\ q[i] = stick.jobs[i].o
  <2>1. Len(stick.jobs) \in Nat
    BY LenProperties DEF DataInv, DataShape, StickShape
  <2>2. QED
    BY <1>2, <1>3, <2>1 DEF Inputs, Outputs
<1>5. {i \in 1 .. k : p[i] = f} = {i \in 1 .. k : stick.jobs[i].f = f}
  BY <1>4
<1>6. {i \in 1 .. k - 1 : q[i] = f} = {i \in 1 .. k - 1 : stick.jobs[i].o = f}
  BY <1>4
<1>7. Hits(p, k, f) <= Len(stick.buf[f]) + Hits(q, k - 1, f)
  BY <1>1, <1>2, <1>3 DEF JobsFed, Fed
<1>8. Cardinality({i \in 1 .. k : stick.jobs[i].f = f})
        <= Len(stick.buf[f]) + Cardinality({i \in 1 .. k - 1 : stick.jobs[i].o = f})
  BY <1>5, <1>6, <1>7 DEF Hits
<1>9. QED
  BY <1>1, <1>8

\* The inferences never stop for want of an input, for every use of the API in which one
\* thread writes and one triggers, no fifo is destroyed and no trigger fails: a trigger
\* that ncGraphQueueInference accepts has its element at the stick or comes after one
\* that leaves it there (write_count and consumed_by_graph, which the writer, the
\* trigger and an output that is also an input count at different moments).
THEOREM JobsHaveElements == Spec => []JobHasElement
<1>1. Init => TypeInv /\ GraphInv /\ JobInv
  BY InitHold, InitTypes, InitShape, InitBound, InitGraphs, InitJobs DEF TypeInv
<1>2. TypeInv /\ GraphInv /\ JobInv /\ [Next]_vars => (TypeInv /\ GraphInv /\ JobInv)'
  BY StepHold, StepTypes, StepShape, StepBound, StepGraphs, StepJobs DEF TypeInv
<1>3. TypeInv /\ JobInv => JobHasElement
  BY JobsHold DEF TypeInv
<1>4. QED
  BY <1>1, <1>2, <1>3, PTL DEF Spec

=============================================================================
