--------------------------- MODULE XLinkStreamProofs ---------------------------
(***************************************************************************)
(* Theorems about a stream for any threads, sizes and bounds, any number   *)
(* of packets, lives of the stream and directions: the writer's credit and *)
(* the reader's level are exact, no packet is lost, a stream is a bounded  *)
(* queue in each direction. They are about applications that do not use a  *)
(* stream which another thread of the same end is closing, as the code     *)
(* asks of them nowhere; the last, that the two ends agree on a stream, is *)
(* about peers that open and close it alike.                               *)
(***************************************************************************)
EXTENDS XLinkStream, WellFoundedInduction, SequenceTheorems, TLAPS

-----------------------------------------------------------------------------
(* The inductive invariants.                                                 *)

Careful == "local" \in usage.careful

\* The levels are numbers here; that they are never negative rests on the credit.
Packets == Nat \ {0}
Letters == {m \in Messages : m.op # "CLOSE" => m.size # 0}
Asking == {"queued", "ready", "blocked", "pending"}
Requesters ==
  {r \in [pc : {"idle", "lookup", "locking"} \cup Asking,
          op : AllOps, size : Nat, id : Ids, block : BOOLEAN] :
     /\ r.pc \notin Asking => r.op = "OPEN"
     /\ r.pc \in Asking => /\ r.op = "OPEN" => r.size # 0
                           /\ r.op = "WRITE" => r.size \in Sizes}
StreamsType ==
  /\ stream \in [Peers -> [id : Ids, ws : Nat, rs : Nat, rfill : Int, rpkts : Int,
                           lfill : Int, closing : BOOLEAN, sem : {0, 1}]]
  /\ \A p \in Peers : stream[p].id = None =>
       stream[p].ws = 0 /\ stream[p].rs = 0 /\ stream[p].sem = 0
  /\ nextSid \in [Peers -> Nat]
PacketsType == avail \in [Peers -> Seq(Packets)] /\ held \in [Peers -> Seq(Packets)]
ThreadsType ==
  thr \in [Peers -> [Threads -> Requesters]] /\ queue \in [Peers -> Seq(Threads)]
WireType ==
  /\ inq \in [Peers -> Seq(Letters)] /\ wire \in [Peers -> Seq(Letters)]
  /\ rd \in [Peers -> {"read", "locking"}]
  /\ \A p \in Peers : rd[p] = "locking" =>
       /\ wire[Other(p)] # <<>>
       /\ Head(wire[Other(p)]).kind = "req" /\ Head(wire[Other(p)]).op = "WRITE"
AppType ==
  /\ usage \in Uses
  /\ known \in [Peers -> [Threads -> Ids]]
  /\ holds \in [Peers -> [Threads -> Nat]] /\ calls \in [Peers -> [AllOps -> Nat]]
  /\ fault \in {"none", "noStream"}
Types == StreamsType /\ PacketsType /\ ThreadsType /\ WireType /\ AppType

\* A request waits in the queue once; a thread has one message under way, its request
\* or the response to it.
Queued ==
  \A p \in Peers :
    /\ \A i \in DOMAIN queue[p] : thr[p][queue[p][i]].pc = "queued"
    /\ \A i, j \in DOMAIN queue[p] : queue[p][i] = queue[p][j] => i = j
Msgs(line, kind) == {line[i] : i \in {j \in DOMAIN line : line[j].kind = kind}}
Once(line, kind) ==
  \A i, j \in DOMAIN line :
    line[i].kind = kind /\ line[j].kind = kind /\ line[i].t = line[j].t => i = j
Asked(p) == Msgs(Line(p), "req")
Answered(p) == Msgs(Line(Other(p)), "resp")
WaitsFor(p, m) == thr[p][m.t].pc = "pending" /\ thr[p][m.t].op = m.op
Matched(p) ==
  /\ \A m \in Asked(p) \cup Answered(p) : WaitsFor(p, m)
  /\ Once(Line(p), "req") /\ Once(Line(p), "resp")
  /\ \A m \in Asked(p), n \in Answered(p) : m.t # n.t
Corresponding == \A p \in Peers : Matched(p)
Requesting == Queued /\ Corresponding

\* The sizes of a direction are those that its writer opens with; a stream in use is
\* not left locked when these are the same.
Sized ==
  /\ \A p \in Peers :
       /\ stream[p].ws \in {0} \cup usage.open[p]
       /\ stream[Other(p)].rs \in {0} \cup usage.open[p]
       /\ \A t \in Threads : thr[p][t].op = "OPEN" /\ thr[p][t].pc \in Asking =>
            thr[p][t].size \in usage.open[p]
       /\ \A m \in Asked(p) \cup Answered(p) : m.op = "OPEN" => m.size \in usage.open[p]
  /\ SemReturned

\* A thread that closes is alone with those that read.
Apart(r, s) ==
  r.op = "CLOSE" /\ r.pc # "idle" /\ s.pc # "idle" => s.op \in {"READ", "REL"}
Disciplined ==
  \A p \in Peers : \A t, u \in Threads : t # u => Apart(thr[p][t], thr[p][u])

\* A stream that is not open for writing has sent nothing that is not released.
Bounded ==
  \A p \in Peers :
    /\ stream[p].ws = 0 => stream[p].rfill = 0 /\ stream[p].rpkts = 0
    /\ stream[p].rfill \in Nat /\ stream[p].rpkts \in 0 .. MaxPackets

\* A close goes out after everything was released and nothing is written before
\* its response.
Closing ==
  \A p \in Peers : \A m \in Asked(p) \cup Answered(p) : m.op = "CLOSE" =>
    /\ stream[p].rfill = 0 /\ stream[p].rpkts = 0
    /\ stream[p].id = m.id \/ stream[p].ws = 0

\* What is open for writing at one end is open for reading at the other, or the other is
\* kept by allocateNewStream, until the other has handled the close.
Frozen(p) == stream[p].id # None /\ stream[p].sem = 0
Opened ==
  \A p \in Peers :
    \/ stream[Other(p)].rs # 0 \/ Frozen(Other(p))
    \/ /\ \A m \in Answered(p) : m.op # "OPEN"
       /\ stream[p].ws = 0 \/ \E m \in Answered(p) : m.op = "CLOSE"

-----------------------------------------------------------------------------
(* Induction over numbers, with a set for the property: the library has it   *)
(* with an operator as a parameter only, but also that every set of numbers  *)
(* has a least element.                                                      *)

LEMMA Least ==
  ASSUME NEW T \in SUBSET Nat, T # {}
  PROVE  \E m \in T : \A k \in T : m <= k
<1> DEFINE R == {ss \in Nat \X Nat : ss[1] < ss[2]}
<1>1. IsWellFoundedOn(R, Nat)
  BY NatLessThanWellFounded, Zenon DEF OpToRel
<1>2. PICK m \in T : \A k \in T : ~(<<k, m>> \in R)
  <2> HIDE DEF R
  <2>1. QED
    BY <1>1, WFMin, Zenon
<1>3. \A k \in T : ~(k < m)
  BY <1>2
<1>4. QED
  BY <1>3

LEMMA Induct ==
  ASSUME NEW S, 0 \in S, \A k \in Nat : k \in S => k + 1 \in S
  PROVE  Nat \subseteq S
<1> SUFFICES ASSUME NEW n \in Nat, n \notin S PROVE FALSE
  OBVIOUS
<1>1. PICK m \in Nat \ S : \A k \in Nat \ S : m <= k
  BY Least
<1>2. m # 0 /\ m - 1 \in Nat /\ m - 1 \in S
  BY <1>1
<1>3. QED
  BY <1>1, <1>2

-----------------------------------------------------------------------------
(* Sums of sequences.                                                        *)

IsSums(g, s, k) ==
  /\ g \in [0 .. k -> Int] /\ g[0] = 0
  /\ \A n \in 1 .. k : n <= Len(s) => g[n] = g[n - 1] + s[n]

LEMMA SumsExist ==
  ASSUME NEW s \in Seq(Int)
  PROVE  \A k \in Nat : \E g : IsSums(g, s, k)
<1> DEFINE S == {k \in Nat : \E g : IsSums(g, s, k)}
<1>1. 0 \in S
  <2>1. IsSums([n \in 0 .. 0 |-> 0], s, 0)
    BY DEF IsSums
  <2>2. QED
    BY <2>1
<1>2. ASSUME NEW k \in Nat, k \in S PROVE k + 1 \in S
  <2>1. PICK g : IsSums(g, s, k)
    BY <1>2
  <2> DEFINE h == [n \in 0 .. k + 1 |-> IF n <= k THEN g[n]
                                        ELSE IF k + 1 <= Len(s) THEN g[k] + s[k + 1] ELSE 0]
  <2>2. h \in [0 .. k + 1 -> Int]
    BY <2>1 DEF IsSums
  <2>3. h[0] = 0 /\ \A n \in 1 .. k + 1 : n <= Len(s) => h[n] = h[n - 1] + s[n]
    BY <2>1 DEF IsSums
  <2>4. IsSums(h, s, k + 1)
    <3> HIDE DEF h
    <3>1. QED BY <2>2, <2>3 DEF IsSums
  <2>5. QED
    BY <2>4
<1>3. Nat \subseteq S
  <2> HIDE DEF S
  <2>1. QED BY <1>1, <1>2, Induct
<1>4. QED
  BY <1>3

\* Two partial sums agree as far as both go.
LEMMA SumsUnique ==
  ASSUME NEW s, NEW f, NEW g, NEW k \in Nat, f[0] = g[0],
         \A n \in 1 .. k : f[n - 1] = g[n - 1] => f[n] = g[n]
  PROVE  \A n \in 0 .. k : f[n] = g[n]
<1> DEFINE S == {n \in Nat : n <= k => f[n] = g[n]}
<1>1. 0 \in S
  OBVIOUS
<1>2. ASSUME NEW n \in Nat, n \in S PROVE n + 1 \in S
  BY <1>2
<1>3. Nat \subseteq S
  <2> HIDE DEF S
  <2>1. QED BY <1>1, <1>2, Induct
<1>4. QED
  BY <1>3

LEMMA SumsDef ==
  ASSUME NEW s \in Seq(Int)
  PROVE  IsSums(Sums(s), s, Len(s))
<1> DEFINE Step(f) == [n \in 0 .. Len(s) |-> IF n = 0 THEN 0 ELSE f[n - 1] + s[n]]
<1>1. PICK g : IsSums(g, s, Len(s))
  BY SumsExist, LenProperties
<1>2. g = Step(g)
  BY <1>1 DEF IsSums
<1>3. Sums(s) = CHOOSE f : f = Step(f)
  BY DEF Sums
<1>4. Sums(s) = Step(Sums(s))
  <2> HIDE DEF Step
  <2>1. QED BY <1>2, <1>3, Zenon
<1> DEFINE f == Sums(s)
<1>5. f = Step(f)
  BY <1>4
<1> HIDE DEF f
<1>6. f[0] = 0 /\ \A n \in 1 .. Len(s) : f[n] = f[n - 1] + s[n]
  BY <1>5, LenProperties, SMTT(30)
<1>7. \A n \in 0 .. Len(s) : f[n] = g[n]
  <2>1. Len(s) \in Nat /\ f[0] = g[0]
        /\ \A n \in 1 .. Len(s) : f[n - 1] = g[n - 1] => f[n] = g[n]
    BY <1>1, <1>6, LenProperties DEF IsSums
  <2>2. QED
    BY <2>1, SumsUnique
<1>8. f \in [0 .. Len(s) -> Int]
  BY <1>1, <1>5, <1>7 DEF IsSums
<1>9. QED
  BY <1>6, <1>8 DEF IsSums, f

LEMMA TotalIs ==
  ASSUME NEW s \in Seq(Int), NEW g, IsSums(g, s, Len(s))
  PROVE  Total(s) = g[Len(s)]
<1>1. IsSums(Sums(s), s, Len(s))
  BY SumsDef
<1>2. \A n \in 0 .. Len(s) : Sums(s)[n] = g[n]
  <2> DEFINE f == Sums(s)
  <2> HIDE DEF f
  <2>1. IsSums(f, s, Len(s)) BY <1>1 DEF f
  <2>2. Len(s) \in Nat /\ f[0] = g[0]
        /\ \A n \in 1 .. Len(s) : f[n - 1] = g[n - 1] => f[n] = g[n]
    BY <2>1, LenProperties DEF IsSums
  <2>3. QED
    BY <2>2, SumsUnique DEF f
<1>3. QED
  BY <1>2, LenProperties DEF Total

LEMMA TotalInt ==
  ASSUME NEW s \in Seq(Int)
  PROVE  Total(s) \in Int
BY SumsDef, LenProperties DEF IsSums, Total

LEMMA TotalEmpty == Total(<< >>) = 0
<1>1. << >> \in Seq(Int) /\ Len(<< >>) = 0
  OBVIOUS
<1>2. QED
  BY <1>1, SumsDef DEF IsSums, Total

LEMMA TotalAppend ==
  ASSUME NEW s \in Seq(Int), NEW x \in Int
  PROVE  Total(Append(s, x)) = Total(s) + x
<1> DEFINE r == Append(s, x)
<1>1. r \in Seq(Int) /\ Len(r) = Len(s) + 1 /\ r[Len(s) + 1] = x
      /\ \A n \in 1 .. Len(s) : r[n] = s[n]
  OBVIOUS
<1> HIDE DEF r
<1>2. IsSums(Sums(r), r, Len(s) + 1)
  BY <1>1, SumsDef
<1>3. PICK g : g = [n \in 0 .. Len(s) |-> Sums(r)[n]]
  OBVIOUS
<1>4. IsSums(g, s, Len(s))
  BY <1>1, <1>2, <1>3, LenProperties DEF IsSums
<1>5. Total(s) = Sums(r)[Len(s)]
  BY <1>3, <1>4, TotalIs, LenProperties
<1>6. Total(r) = Sums(r)[Len(s)] + x
  BY <1>1, <1>2, LenProperties, SMTT(30) DEF IsSums, Total
<1>7. QED
  BY <1>5, <1>6 DEF r

LEMMA TotalHead ==
  ASSUME NEW s \in Seq(Int), s # << >>
  PROVE  Total(s) = Head(s) + Total(Tail(s))
<1> DEFINE r == Tail(s)
<1>1. r \in Seq(Int) /\ Len(s) = Len(r) + 1 /\ Head(s) = s[1] /\ Head(s) \in Int
      /\ \A n \in 1 .. Len(r) : r[n] = s[n + 1]
  OBVIOUS
<1> HIDE DEF r
<1>2. IsSums(Sums(s), s, Len(r) + 1)
  BY <1>1, SumsDef
<1>3. PICK g : g = [n \in 0 .. Len(r) |-> Sums(s)[n + 1] - s[1]]
  OBVIOUS
<1>4. Sums(s)[1] = s[1]
  BY <1>1, <1>2, LenProperties DEF IsSums
<1>5. IsSums(g, r, Len(r))
  <2>1. g \in [0 .. Len(r) -> Int] /\ g[0] = 0
    BY <1>1, <1>2, <1>3, <1>4, LenProperties DEF IsSums
  <2>2. ASSUME NEW n \in 1 .. Len(r) PROVE g[n] = g[n - 1] + r[n]
    <3>0. Len(r) \in Nat /\ n \in Nat /\ n \in 0 .. Len(r) + 1 /\ n + 1 \in 1 .. Len(r) + 1
          /\ (n + 1) - 1 = n
      BY <1>1, LenProperties
    <3>1. Sums(s)[n + 1] = Sums(s)[n] + s[n + 1] /\ r[n] = s[n + 1]
          /\ Sums(s)[n] \in Int /\ s[n + 1] \in Int
      <4> DEFINE f == Sums(s)
      <4> HIDE DEF f
      <4>1. IsSums(f, s, Len(r) + 1)
        BY <1>2 DEF f
      <4>2. f \in [0 .. Len(r) + 1 -> Int] /\ f[n + 1] = f[(n + 1) - 1] + s[n + 1]
        <5>1. n + 1 <= Len(s)
          BY <1>1, <3>0
        <5>2. QED
          BY <3>0, <4>1, <5>1 DEF IsSums
      <4>3. r[n] = s[n + 1] /\ s[n + 1] \in Int
        BY <1>1, <3>0
      <4>4. QED
        BY <3>0, <4>2, <4>3 DEF f
    <3>2. g[n] = Sums(s)[n + 1] - s[1] /\ g[n - 1] = Sums(s)[n] - s[1]
      BY <1>3, LenProperties
    <3>3. QED
      BY <1>1, <3>1, <3>2, SMTT(30)
  <2>3. QED
    BY <2>1, <2>2 DEF IsSums
<1>6. Total(r) = Total(s) - s[1]
  BY <1>1, <1>3, <1>5, TotalIs, LenProperties DEF Total
<1>7. Total(s) \in Int /\ s[1] \in Int
  BY <1>1, TotalInt
<1>8. QED
  BY <1>1, <1>6, <1>7 DEF r

\* A sum of positive numbers is zero for no number only, and at least the first of
\* them.
LEMMA TotalNat ==
  ASSUME NEW s \in Seq(Packets)
  PROVE  /\ Total(s) \in Nat
         /\ Total(s) = 0 <=> s = << >>
         /\ s # << >> => Head(s) \in Packets /\ Head(s) <= Total(s)
<1> DEFINE S == {k \in Nat : \A r \in Seq(Packets) : Len(r) = k => Total(r) \in Nat}
<1>0. \A r \in Seq(Packets) : r \in Seq(Int)
  BY DEF Packets
<1>1. 0 \in S
  <2>1. \A r \in Seq(Packets) : Len(r) = 0 => r = << >>
    OBVIOUS
  <2>2. QED BY <2>1, TotalEmpty
<1>2. ASSUME NEW k \in Nat, k \in S PROVE k + 1 \in S
  <2> SUFFICES ASSUME NEW r \in Seq(Packets), Len(r) = k + 1 PROVE Total(r) \in Nat
    OBVIOUS
  <2>1. r # << >> /\ Tail(r) \in Seq(Packets) /\ Len(Tail(r)) = k /\ Head(r) \in Packets
    OBVIOUS
  <2>2. Total(r) = Head(r) + Total(Tail(r))
    BY <1>0, <2>1, TotalHead
  <2>3. Total(Tail(r)) \in Nat /\ Head(r) \in Nat
    BY <1>2, <2>1 DEF Packets
  <2>4. QED
    BY <2>2, <2>3
<1>3. \A r \in Seq(Packets) : Total(r) \in Nat
  <2>1. Nat \subseteq S
    <3> HIDE DEF S
    <3>1. QED BY <1>1, <1>2, Induct
  <2>2. QED BY <2>1, LenProperties
<1>4. CASE s = << >>
  BY <1>4, TotalEmpty
<1>5. CASE s # << >>
  <2>1. Tail(s) \in Seq(Packets) /\ Head(s) \in Packets
    BY <1>5
  <2>2. Total(s) = Head(s) + Total(Tail(s))
    BY <1>0, <1>5, TotalHead
  <2>3. Total(Tail(s)) \in Nat /\ Head(s) \in Nat \ {0}
    BY <1>3, <2>1 DEF Packets
  <2>4. QED
    BY <1>5, <2>2, <2>3 DEF Packets
<1>6. QED
  BY <1>4, <1>5

LEMMA TotalConcat ==
  ASSUME NEW s \in Seq(Int), NEW r \in Seq(Int)
  PROVE  Total(s \o r) = Total(s) + Total(r)
<1> DEFINE S == {k \in Nat : \A x \in Seq(Int) : Len(x) = k => Total(x \o r) = Total(x) + Total(r)}
<1>1. 0 \in S
  <2> SUFFICES ASSUME NEW x \in Seq(Int), Len(x) = 0 PROVE Total(x \o r) = Total(x) + Total(r)
    OBVIOUS
  <2>1. x = << >> /\ x \o r = r
    OBVIOUS
  <2>2. QED BY <2>1, TotalEmpty, TotalInt
<1>2. ASSUME NEW k \in Nat, k \in S PROVE k + 1 \in S
  <2> SUFFICES ASSUME NEW x \in Seq(Int), Len(x) = k + 1
               PROVE  Total(x \o r) = Total(x) + Total(r)
    OBVIOUS
  <2>1. x # << >> /\ Tail(x) \in Seq(Int) /\ Len(Tail(x)) = k /\ Head(x) \in Int
        /\ x \o r \in Seq(Int) /\ x \o r # << >> /\ Head(x \o r) = Head(x)
        /\ Tail(x \o r) = Tail(x) \o r
    BY SMTT(30)
  <2>2. Total(x) = Head(x) + Total(Tail(x)) /\ Total(x \o r) = Head(x) + Total(Tail(x) \o r)
    BY <2>1, TotalHead
  <2>3. Total(Tail(x) \o r) = Total(Tail(x)) + Total(r)
    BY <1>2, <2>1
  <2>4. Total(Tail(x)) \in Int /\ Total(r) \in Int
    BY <2>1, TotalInt
  <2>5. QED
    BY <2>1, <2>2, <2>3, <2>4
<1>3. Nat \subseteq S
  <2> HIDE DEF S
  <2>1. QED BY <1>1, <1>2, Induct
<1>4. QED
  BY <1>3, LenProperties

-----------------------------------------------------------------------------
(* The requests among messages.                                              *)

Is(m, op) == m.kind = "req" /\ m.op = op
IsPartial(g, s, op, k) ==
  /\ g \in [0 .. k -> Seq(Nat)] /\ g[0] = << >>
  /\ \A n \in 1 .. k : n <= Len(s) =>
       g[n] = IF Is(s[n], op) THEN Append(g[n - 1], s[n].size) ELSE g[n - 1]

LEMMA PartialExists ==
  ASSUME NEW s \in Seq(Letters), NEW op
  PROVE  \A k \in Nat : \E g : IsPartial(g, s, op, k)
<1> DEFINE S == {k \in Nat : \E g : IsPartial(g, s, op, k)}
<1>1. 0 \in S
  <2>1. IsPartial([n \in 0 .. 0 |-> << >>], s, op, 0)
    BY DEF IsPartial
  <2>2. QED
    BY <2>1
<1>2. ASSUME NEW k \in Nat, k \in S PROVE k + 1 \in S
  <2>1. PICK g : IsPartial(g, s, op, k)
    BY <1>2
  <2> DEFINE x == IF k + 1 <= Len(s) /\ Is(s[k + 1], op)
                  THEN Append(g[k], s[k + 1].size) ELSE g[k]
             h == [n \in 0 .. k + 1 |-> IF n <= k THEN g[n] ELSE x]
  <2>2. g \in [0 .. k -> Seq(Nat)] /\ g[k] \in Seq(Nat)
    BY <2>1 DEF IsPartial
  <2>3. x \in Seq(Nat)
    BY <2>2, LenProperties DEF Letters, Messages
  <2>4. h \in [0 .. k + 1 -> Seq(Nat)]
    <3> HIDE DEF x
    <3>1. QED BY <2>2, <2>3
  <2>5. h[0] = << >> /\ h[k + 1] = x /\ \A n \in 0 .. k : h[n] = g[n]
    BY <2>1 DEF IsPartial
  <2>6. IsPartial(h, s, op, k + 1)
    <3> HIDE DEF h
    <3> SUFFICES ASSUME NEW n \in 1 .. k + 1, n <= Len(s)
                 PROVE  h[n] = IF Is(s[n], op) THEN Append(h[n - 1], s[n].size) ELSE h[n - 1]
      BY <2>4, <2>5 DEF IsPartial
    <3>1. CASE n <= k
      <4>1. n \in 1 .. k /\ n \in 0 .. k /\ n - 1 \in 0 .. k
        BY <3>1
      <4>2. QED BY <2>1, <2>5, <4>1 DEF IsPartial
    <3>2. CASE n = k + 1
      <4>1. n - 1 = k /\ k \in 0 .. k
        BY <3>2
      <4>2. QED BY <2>5, <3>2, <4>1
    <3>3. QED BY <3>1, <3>2
  <2>7. QED
    BY <2>6
<1>3. Nat \subseteq S
  <2> HIDE DEF S
  <2>1. QED BY <1>1, <1>2, Induct
<1>4. QED
  BY <1>3

LEMMA PartialDef ==
  ASSUME NEW s \in Seq(Letters), NEW op
  PROVE  IsPartial(Partial(s, op), s, op, Len(s))
<1> DEFINE Step(f) == [n \in 0 .. Len(s) |->
             IF n = 0 THEN << >>
             ELSE IF s[n].kind = "req" /\ s[n].op = op
                  THEN Append(f[n - 1], s[n].size) ELSE f[n - 1]]
<1>1. PICK g : IsPartial(g, s, op, Len(s))
  BY PartialExists, LenProperties
<1>2. g = Step(g)
  <2>1. \A n \in 0 .. Len(s) : g[n] = Step(g)[n]
    <3> SUFFICES ASSUME NEW n \in 0 .. Len(s)
                 PROVE  g[n] = IF n = 0 THEN << >>
                               ELSE IF s[n].kind = "req" /\ s[n].op = op
                                    THEN Append(g[n - 1], s[n].size) ELSE g[n - 1]
      OBVIOUS
    <3>1. CASE n = 0
      BY <1>1, <3>1 DEF IsPartial
    <3>2. CASE n # 0
      <4>1. n \in 1 .. Len(s) /\ n <= Len(s)
        BY <3>2, LenProperties
      <4>2. g[n] = IF Is(s[n], op) THEN Append(g[n - 1], s[n].size) ELSE g[n - 1]
        BY <1>1, <4>1 DEF IsPartial
      <4>3. QED
        BY <3>2, <4>2 DEF Is
    <3>3. QED BY <3>1, <3>2
  <2>2. g = [n \in 0 .. Len(s) |-> g[n]]
    BY <1>1 DEF IsPartial
  <2>3. QED BY <2>1, <2>2
<1>3. Partial(s, op) = CHOOSE f : f = Step(f)
  BY DEF Partial
<1>4. Partial(s, op) = Step(Partial(s, op))
  <2> HIDE DEF Step
  <2>1. QED BY <1>2, <1>3, Zenon
<1> DEFINE f == Partial(s, op)
<1>5. f = Step(f)
  BY <1>4
<1> HIDE DEF f
<1>6. f[0] = << >> /\ \A n \in 1 .. Len(s) :
        f[n] = IF Is(s[n], op) THEN Append(f[n - 1], s[n].size) ELSE f[n - 1]
  <2>1. ASSUME NEW n \in 0 .. Len(s)
        PROVE  f[n] = IF n = 0 THEN << >>
                      ELSE IF s[n].kind = "req" /\ s[n].op = op
                           THEN Append(f[n - 1], s[n].size) ELSE f[n - 1]
    <3>1. Step(f)[n] = IF n = 0 THEN << >>
                       ELSE IF s[n].kind = "req" /\ s[n].op = op
                            THEN Append(f[n - 1], s[n].size) ELSE f[n - 1]
      OBVIOUS
    <3> HIDE DEF Step
    <3>2. QED BY <1>5, <3>1
  <2>2. 0 \in 0 .. Len(s) /\ \A n \in 1 .. Len(s) : n \in 0 .. Len(s) /\ n # 0
    BY LenProperties
  <2>3. f[0] = << >>
    BY <2>1, <2>2
  <2>4. ASSUME NEW n \in 1 .. Len(s)
        PROVE  f[n] = IF Is(s[n], op) THEN Append(f[n - 1], s[n].size) ELSE f[n - 1]
    <3>1. f[n] = IF n = 0 THEN << >>
                 ELSE IF s[n].kind = "req" /\ s[n].op = op
                      THEN Append(f[n - 1], s[n].size) ELSE f[n - 1]
      BY <2>1, <2>2
    <3>2. QED BY <2>2, <3>1 DEF Is
  <2>5. QED BY <2>3, <2>4
<1>7. \A n \in 0 .. Len(s) : f[n] = g[n]
  <2>1. ASSUME NEW n \in 1 .. Len(s), f[n - 1] = g[n - 1] PROVE f[n] = g[n]
    <3>1. n <= Len(s)
      BY LenProperties
    <3>2. g[n] = IF Is(s[n], op) THEN Append(g[n - 1], s[n].size) ELSE g[n - 1]
      BY <1>1, <3>1 DEF IsPartial
    <3>3. QED
      BY <1>6, <2>1, <3>2
  <2>2. Len(s) \in Nat /\ f[0] = g[0]
    BY <1>1, <1>6, LenProperties DEF IsPartial
  <2>3. QED
    BY <2>1, <2>2, SumsUnique
<1>8. f \in [0 .. Len(s) -> Seq(Nat)]
  <2>1. f = [n \in 0 .. Len(s) |-> f[n]]
    <3> HIDE DEF Step
    <3>1. f = Step(f) BY <1>5
    <3>2. QED BY <3>1 DEF Step
  <2>2. \A n \in 0 .. Len(s) : f[n] \in Seq(Nat)
    BY <1>1, <1>7 DEF IsPartial
  <2>3. QED
    BY <2>1, <2>2
<1>9. QED
  BY <1>6, <1>8 DEF IsPartial, f

LEMMA RequestsAre ==
  ASSUME NEW s \in Seq(Letters), NEW op, NEW g, IsPartial(g, s, op, Len(s))
  PROVE  Requests(s, op) = g[Len(s)]
<1> DEFINE f == Partial(s, op)
<1>1. IsPartial(f, s, op, Len(s))
  BY PartialDef
<1> HIDE DEF f
<1>2. Len(s) \in Nat /\ f[0] = g[0]
      /\ \A n \in 1 .. Len(s) : f[n - 1] = g[n - 1] => f[n] = g[n]
  <2>1. ASSUME NEW n \in 1 .. Len(s), f[n - 1] = g[n - 1] PROVE f[n] = g[n]
    <3>1. n <= Len(s)
      BY LenProperties
    <3>2. /\ g[n] = IF Is(s[n], op) THEN Append(g[n - 1], s[n].size) ELSE g[n - 1]
          /\ f[n] = IF Is(s[n], op) THEN Append(f[n - 1], s[n].size) ELSE f[n - 1]
      BY <1>1, <3>1 DEF IsPartial
    <3>3. QED
      BY <2>1, <3>2
  <2>2. QED
    BY <1>1, <2>1, LenProperties DEF IsPartial
<1>3. \A n \in 0 .. Len(s) : f[n] = g[n]
  BY <1>2, SumsUnique
<1>4. QED
  BY <1>2, <1>3 DEF Requests, f

LEMMA RequestsEmpty == \A op : Requests(<< >>, op) = << >>
<1> SUFFICES ASSUME NEW op PROVE Requests(<< >>, op) = << >>
  OBVIOUS
<1>1. << >> \in Seq(Letters) /\ Len(<< >>) = 0
  OBVIOUS
<1>2. QED
  BY <1>1, PartialDef DEF IsPartial, Requests

LEMMA RequestsAppend ==
  ASSUME NEW s \in Seq(Letters), NEW m \in Letters, NEW op
  PROVE  Requests(Append(s, m), op) =
           IF Is(m, op) THEN Append(Requests(s, op), m.size) ELSE Requests(s, op)
<1> DEFINE r == Append(s, m)
           f == Partial(r, op)
           g == [n \in 0 .. Len(s) |-> f[n]]
<1>1. r \in Seq(Letters) /\ Len(r) = Len(s) + 1 /\ r[Len(s) + 1] = m
      /\ (\A n \in 1 .. Len(s) : r[n] = s[n]) /\ Len(s) \in Nat
  BY LenProperties
<1> HIDE DEF r
<1>2. IsPartial(f, r, op, Len(s) + 1)
  BY <1>1, PartialDef
<1>3. Requests(r, op) = f[Len(s) + 1]
  BY <1>1 DEF Requests
<1> HIDE DEF f
<1>4. IsPartial(g, s, op, Len(s))
  BY <1>1, <1>2 DEF IsPartial
<1>5. Requests(s, op) = f[Len(s)]
  <2>1. Requests(s, op) = g[Len(s)]
    <3> HIDE DEF g
    <3>1. QED BY <1>4, RequestsAre
  <2>2. QED BY <1>1, <2>1
<1>6. f[Len(s) + 1] = IF Is(r[Len(s) + 1], op) THEN Append(f[(Len(s) + 1) - 1], r[Len(s) + 1].size)
                      ELSE f[(Len(s) + 1) - 1]
  BY <1>1, <1>2 DEF IsPartial
<1>7. (Len(s) + 1) - 1 = Len(s)
  BY <1>1
<1>8. QED
  BY <1>1, <1>3, <1>5, <1>6, <1>7 DEF r

LEMMA RequestsHead ==
  ASSUME NEW s \in Seq(Letters), s # << >>, NEW op
  PROVE  Requests(s, op) =
           IF Is(Head(s), op) THEN <<Head(s).size>> \o Requests(Tail(s), op)
           ELSE Requests(Tail(s), op)
<1> DEFINE r == Tail(s)
           f == Partial(s, op)
           g == Partial(r, op)
           first == IF Is(Head(s), op) THEN <<Head(s).size>> ELSE << >>
           h == [n \in 0 .. Len(s) |-> IF n = 0 THEN << >> ELSE first \o g[n - 1]]
<1>1. r \in Seq(Letters) /\ Len(s) = Len(r) + 1 /\ Head(s) = s[1] /\ Head(s) \in Letters
      /\ (\A n \in 1 .. Len(r) : r[n] = s[n + 1]) /\ Len(r) \in Nat
  BY LenProperties
<1>2. first \in Seq(Nat)
  BY <1>1 DEF Letters, Messages
<1> HIDE DEF r
<1>3. IsPartial(g, r, op, Len(r))
  BY <1>1, PartialDef
<1>4. Requests(r, op) = g[Len(r)]
  BY DEF Requests
<1> HIDE DEF f, g
<1>a. h[0] = << >> /\ \A n \in 1 .. Len(s) : h[n] = first \o g[n - 1]
  <2> HIDE DEF first
  <2>1. QED BY <1>1
<1>b. /\ g \in [0 .. Len(r) -> Seq(Nat)] /\ g[0] = << >>
      /\ \A n \in 1 .. Len(r) :
           g[n] = IF Is(r[n], op) THEN Append(g[n - 1], r[n].size) ELSE g[n - 1]
  BY <1>1, <1>3 DEF IsPartial
<1>5. h \in [0 .. Len(s) -> Seq(Nat)] /\ h[0] = << >>
  <2>1. \A n \in 1 .. Len(s) : h[n] \in Seq(Nat)
    <3> SUFFICES ASSUME NEW n \in 1 .. Len(s) PROVE first \o g[n - 1] \in Seq(Nat)
      BY <1>a
    <3>1. g[n - 1] \in Seq(Nat)
      BY <1>1, <1>b
    <3> HIDE DEF first
    <3>2. QED BY <1>2, <3>1, ConcatProperties
  <2>2. h = [n \in 0 .. Len(s) |-> h[n]]
    OBVIOUS
  <2> HIDE DEF h, first
  <2>3. ASSUME NEW n \in 0 .. Len(s) PROVE h[n] \in Seq(Nat)
    <3>1. n = 0 \/ n \in 1 .. Len(s)
      BY <1>1
    <3>2. << >> \in Seq(Nat)
      OBVIOUS
    <3>3. QED BY <1>a, <2>1, <3>1, <3>2
  <2>4. QED BY <1>a, <2>2, <2>3
<1> HIDE DEF h
<1>6. ASSUME NEW n \in 1 .. Len(s)
      PROVE  h[n] = IF Is(s[n], op) THEN Append(h[n - 1], s[n].size) ELSE h[n - 1]
  <2>1. CASE n = 1
    <3>1. h[1] = first \o << >> /\ h[0] = << >>
      <4>1. 1 \in 1 .. Len(s) /\ 1 - 1 = 0
        BY <1>1
      <4> HIDE DEF first
      <4>2. QED BY <1>a, <1>b, <4>1
    <3>2. h[1] = first
      <4> HIDE DEF first
      <4>1. QED BY <1>2, <3>1
    <3>3. Append(<< >>, Head(s).size) = <<Head(s).size>>
      OBVIOUS
    <3>4. s[n] = Head(s) /\ n - 1 = 0
      BY <1>1, <2>1
    <3>5. h[n] = IF Is(s[n], op) THEN <<Head(s).size>> ELSE << >>
      BY <2>1, <3>2, <3>4
    <3>6. QED
      BY <3>1, <3>3, <3>4, <3>5
  <2>2. CASE n # 1
    <3>1. n - 1 \in 1 .. Len(r) /\ r[n - 1] = s[n] /\ (n - 1) - 1 \in 0 .. Len(r)
      BY <1>1, <2>2
    <3>2. h[n] = first \o g[n - 1] /\ h[n - 1] = first \o g[(n - 1) - 1]
      <4>1. n - 1 \in 1 .. Len(s)
        BY <1>1, <3>1
      <4> HIDE DEF first
      <4>2. QED BY <1>a, <4>1
    <3>3. g[n - 1] = IF Is(s[n], op) THEN Append(g[(n - 1) - 1], s[n].size)
                     ELSE g[(n - 1) - 1]
      BY <1>b, <3>1
    <3>4. g[(n - 1) - 1] \in Seq(Nat) /\ s[n].size \in Nat
      <4>1. s[n] \in Letters
        OBVIOUS
      <4>2. QED BY <1>b, <3>1, <4>1 DEF Letters, Messages
    <3>5. first \o Append(g[(n - 1) - 1], s[n].size) = Append(first \o g[(n - 1) - 1], s[n].size)
      <4> HIDE DEF first
      <4>1. QED BY <1>2, <3>4, SMTT(30)
    <3> HIDE DEF first
    <3>6. QED
      BY <3>2, <3>3, <3>5
  <2>3. QED BY <2>1, <2>2
<1>7. IsPartial(h, s, op, Len(s))
  BY <1>5, <1>6 DEF IsPartial
<1>8. Requests(s, op) = h[Len(s)]
  BY <1>7, RequestsAre
<1>9. Requests(s, op) = first \o g[Len(r)]
  <2>1. Len(s) \in 1 .. Len(s) /\ Len(s) - 1 = Len(r)
    BY <1>1
  <2> HIDE DEF first
  <2>2. QED BY <1>8, <1>a, <2>1
<1>10. g[Len(r)] \in Seq(Nat) /\ << >> \o g[Len(r)] = g[Len(r)]
  BY <1>1, <1>b
<1>11. QED
  BY <1>4, <1>9, <1>10 DEF r

LEMMA RequestsSeq ==
  ASSUME NEW s \in Seq(Letters), NEW op, op # "CLOSE"
  PROVE  Requests(s, op) \in Seq(Packets)
<1> DEFINE S == {k \in Nat : \A r \in Seq(Letters) : Len(r) = k => Requests(r, op) \in Seq(Packets)}
<1>1. 0 \in S
  <2>1. \A r \in Seq(Letters) : Len(r) = 0 => r = << >>
    OBVIOUS
  <2>2. QED BY <2>1, RequestsEmpty
<1>2. ASSUME NEW k \in Nat, k \in S PROVE k + 1 \in S
  <2> SUFFICES ASSUME NEW r \in Seq(Letters), Len(r) = k + 1
               PROVE  Requests(r, op) \in Seq(Packets)
    OBVIOUS
  <2>1. r # << >> /\ Tail(r) \in Seq(Letters) /\ Len(Tail(r)) = k /\ Head(r) \in Letters
    OBVIOUS
  <2>2. Requests(Tail(r), op) \in Seq(Packets)
    BY <1>2, <2>1
  <2>3. CASE Is(Head(r), op)
    <3>1. Head(r).size \in Packets
      BY <2>1, <2>3 DEF Is, Letters, Messages, Packets
    <3>2. Requests(r, op) = <<Head(r).size>> \o Requests(Tail(r), op)
      BY <2>1, <2>3, RequestsHead
    <3>3. <<Head(r).size>> \in Seq(Packets)
      BY <3>1
    <3>4. QED BY <2>2, <3>2, <3>3, ConcatProperties
  <2>4. CASE ~Is(Head(r), op)
    BY <2>1, <2>2, <2>4, RequestsHead
  <2>5. QED BY <2>3, <2>4
<1>3. Nat \subseteq S
  <2> HIDE DEF S
  <2>1. QED BY <1>1, <1>2, Induct
<1>4. QED
  BY <1>3, LenProperties

LEMMA ConcatAppend ==
  ASSUME NEW S, NEW s \in Seq(S), NEW r \in Seq(S), NEW m \in S
  PROVE  s \o Append(r, m) = Append(s \o r, m) /\ s \o r \in Seq(S)
OBVIOUS

LEMMA ConcatTail ==
  ASSUME NEW S, NEW s \in Seq(S), NEW r \in Seq(S), s # << >>
  PROVE  /\ s \o r \in Seq(S) /\ s \o r # << >> /\ Head(s \o r) = Head(s) /\ Head(s) \in S
         /\ Tail(s \o r) = Tail(s) \o r /\ Tail(s) \in Seq(S)
OBVIOUS

LEMMA ConcatMove ==
  ASSUME NEW S, NEW s \in Seq(S), NEW r \in Seq(S), r # << >>
  PROVE  Append(s, Head(r)) \o Tail(r) = s \o r /\ s \o r \in Seq(S)
OBVIOUS

-----------------------------------------------------------------------------
(* The two peers, and the messages between them.                             *)

LEMMA TwoPeers ==
  ASSUME NEW p \in Peers
  PROVE  /\ Other(p) \in Peers /\ Other(p) # p /\ Other(Other(p)) = p
         /\ \A r \in Peers : r = p \/ r = Other(p)
<1>1. PICK a \in Peers, b \in Peers : a # b /\ Peers = {a, b}
  BY StreamAssumption
<1>2. \A r \in Peers : Other(r) \in Peers /\ Other(r) # r
  <2> SUFFICES ASSUME NEW r \in Peers PROVE Other(r) \in Peers /\ Other(r) # r
    OBVIOUS
  <2>1. \E x \in Peers : x # r
    BY <1>1
  <2>2. QED
    BY <2>1 DEF Other
<1>3. QED
  BY <1>1, <1>2

LEMMA AppendMsgs ==
  ASSUME NEW s \in Seq(Letters), NEW m \in Letters, NEW kind
  PROVE  /\ m.kind = kind => Msgs(Append(s, m), kind) = Msgs(s, kind) \cup {m}
         /\ m.kind # kind => Msgs(Append(s, m), kind) = Msgs(s, kind)
         /\ Once(s, kind) /\ (m.kind = kind => \A n \in Msgs(s, kind) : n.t # m.t)
              => Once(Append(s, m), kind)
<1> DEFINE r == Append(s, m)
<1>1. /\ Len(s) \in Nat /\ DOMAIN s = 1 .. Len(s) /\ DOMAIN r = 1 .. Len(s) + 1
      /\ r[Len(s) + 1] = m /\ \A k \in 1 .. Len(s) : r[k] = s[k]
  BY LenProperties
<1> HIDE DEF r
<1>2. \A k \in DOMAIN r : \/ k \in DOMAIN s /\ r[k] = s[k]
                          \/ k = Len(s) + 1 /\ r[k] = m
  BY <1>1
<1>3. DOMAIN s \subseteq DOMAIN r /\ Len(s) + 1 \in DOMAIN r
  BY <1>1
<1>4. ASSUME NEW x PROVE x \in Msgs(r, kind) <=>
        x \in Msgs(s, kind) \cup (IF m.kind = kind THEN {m} ELSE {})
  <2>1. ASSUME x \in Msgs(r, kind)
        PROVE  x \in Msgs(s, kind) \cup (IF m.kind = kind THEN {m} ELSE {})
    <3>1. PICK k \in DOMAIN r : r[k].kind = kind /\ x = r[k]
      BY <2>1 DEF Msgs
    <3>2. QED
      BY <1>2, <3>1 DEF Msgs
  <2>2. ASSUME x \in Msgs(s, kind) PROVE x \in Msgs(r, kind)
    <3>1. PICK k \in DOMAIN s : s[k].kind = kind /\ x = s[k]
      BY <2>2 DEF Msgs
    <3>2. k \in DOMAIN r /\ r[k] = s[k]
      BY <1>1, <1>3
    <3>3. QED
      BY <3>1, <3>2 DEF Msgs
  <2>3. ASSUME m.kind = kind PROVE m \in Msgs(r, kind)
    BY <1>1, <1>3, <2>3 DEF Msgs
  <2>4. QED
    BY <2>1, <2>2, <2>3
<1>5. ASSUME Once(s, kind), m.kind = kind => \A n \in Msgs(s, kind) : n.t # m.t
      PROVE  Once(r, kind)
  <2> SUFFICES ASSUME NEW i \in DOMAIN r, NEW j \in DOMAIN r, r[i].kind = kind,
                      r[j].kind = kind, r[i].t = r[j].t
               PROVE  i = j
    BY DEF Once
  <2>1. ASSUME NEW k \in DOMAIN s, s[k].kind = kind, m.kind = kind PROVE s[k].t # m.t
    BY <1>5, <2>1 DEF Msgs
  <2>2. QED
    BY <1>2, <1>5, <2>1 DEF Once
<1>6. QED
  BY <1>4, <1>5 DEF r

LEMMA TailMsgs ==
  ASSUME NEW s \in Seq(Letters), s # << >>, NEW kind
  PROVE  /\ Head(s).kind = kind => Msgs(s, kind) = Msgs(Tail(s), kind) \cup {Head(s)}
         /\ Head(s).kind # kind => Msgs(s, kind) = Msgs(Tail(s), kind)
         /\ Once(s, kind) => /\ Once(Tail(s), kind)
                             /\ Head(s).kind = kind =>
                                  \A m \in Msgs(Tail(s), kind) : m.t # Head(s).t
<1> DEFINE r == Tail(s)
           h == Head(s)
<1>1. /\ Len(s) \in Nat \ {0} /\ DOMAIN s = 1 .. Len(s) /\ h = s[1]
      /\ DOMAIN r = 1 .. Len(s) - 1 /\ \A k \in 1 .. Len(s) - 1 : r[k] = s[k + 1]
  BY LenProperties
<1> HIDE DEF r, h
<1>2. \A k \in DOMAIN r : k + 1 \in DOMAIN s /\ r[k] = s[k + 1] /\ k + 1 # 1
  BY <1>1
<1>3. 1 \in DOMAIN s
      /\ \A k \in DOMAIN s : k = 1 \/ (k - 1 \in DOMAIN r /\ r[k - 1] = s[k])
  BY <1>1
<1>4. ASSUME NEW x PROVE x \in Msgs(s, kind) <=>
        x \in Msgs(r, kind) \cup (IF h.kind = kind THEN {h} ELSE {})
  <2>1. ASSUME x \in Msgs(s, kind)
        PROVE  x \in Msgs(r, kind) \cup (IF h.kind = kind THEN {h} ELSE {})
    <3>1. PICK k \in DOMAIN s : s[k].kind = kind /\ x = s[k]
      BY <2>1 DEF Msgs
    <3>2. QED
      BY <1>1, <1>3, <3>1 DEF Msgs
  <2>2. ASSUME x \in Msgs(r, kind) PROVE x \in Msgs(s, kind)
    <3>1. PICK k \in DOMAIN r : r[k].kind = kind /\ x = r[k]
      BY <2>2 DEF Msgs
    <3>2. QED
      BY <1>2, <3>1 DEF Msgs
  <2>3. ASSUME h.kind = kind PROVE h \in Msgs(s, kind)
    BY <1>1, <1>3, <2>3 DEF Msgs
  <2>4. QED
    BY <2>1, <2>2, <2>3
<1>5. ASSUME Once(s, kind) PROVE Once(r, kind)
  <2> SUFFICES ASSUME NEW i \in DOMAIN r, NEW j \in DOMAIN r, r[i].kind = kind,
                      r[j].kind = kind, r[i].t = r[j].t
               PROVE  i = j
    BY DEF Once
  <2>1. i + 1 = j + 1
    BY <1>2, <1>5 DEF Once
  <2>2. QED
    BY <1>1, <2>1
<1>6. ASSUME Once(s, kind), h.kind = kind, NEW m \in Msgs(r, kind) PROVE m.t # h.t
  <2>1. PICK k \in DOMAIN r : r[k].kind = kind /\ m = r[k]
    BY <1>6 DEF Msgs
  <2>2. QED
    BY <1>1, <1>2, <1>3, <1>6, <2>1 DEF Once
<1>7. QED
  BY <1>4, <1>5, <1>6 DEF r, h

\* What a message changes of the two lines.
LEMMA LineAppend ==
  ASSUME WireType, NEW p \in Peers, NEW m \in Letters,
         wire' = [wire EXCEPT ![p] = Append(@, m)], inq' = inq
  PROVE  /\ Line(p)' = Append(Line(p), m) /\ Line(Other(p))' = Line(Other(p))
         /\ Line(p) \in Seq(Letters)
<1> DEFINE q == Other(p)
<1>1. q \in Peers /\ q # p /\ Other(q) = p
  BY TwoPeers
<1>2. inq[q] \in Seq(Letters) /\ wire[p] \in Seq(Letters)
      /\ wire'[p] = Append(wire[p], m) /\ wire'[q] = wire[q] /\ inq' = inq
  BY <1>1 DEF WireType
<1> HIDE DEF q
<1>3. inq[q] \o Append(wire[p], m) = Append(inq[q] \o wire[p], m)
      /\ inq[q] \o wire[p] \in Seq(Letters)
  BY <1>2, ConcatAppend
<1>4. Line(p)' = Append(Line(p), m) /\ Line(q)' = Line(q) /\ Line(p) \in Seq(Letters)
  BY <1>1, <1>2, <1>3 DEF Line, q
<1>5. QED
  BY <1>4 DEF q

LEMMA LineType ==
  ASSUME WireType
  PROVE  \A p \in Peers : Line(p) \in Seq(Letters) /\ wire[p] \in Seq(Letters)
<1> SUFFICES ASSUME NEW p \in Peers PROVE Line(p) \in Seq(Letters) /\ wire[p] \in Seq(Letters)
  OBVIOUS
<1>1. inq[Other(p)] \in Seq(Letters) /\ wire[p] \in Seq(Letters)
  BY TwoPeers DEF WireType
<1>2. QED
  BY <1>1, ConcatProperties DEF Line

LEMMA LineTake ==
  ASSUME WireType, NEW p \in Peers, inq[p] # << >>,
         inq' = [inq EXCEPT ![p] = Tail(@)], wire'[Other(p)] = wire[Other(p)]
  PROVE  /\ Line(Other(p)) \in Seq(Letters) /\ Line(Other(p)) # << >>
         /\ Head(Line(Other(p))) = Head(inq[p]) /\ Line(Other(p))' = Tail(Line(Other(p)))
         /\ Head(inq[p]) \in Letters
         /\ wire'[p] = wire[p] => Line(p)' = Line(p)
         /\ \A m \in Letters : wire'[p] = Append(wire[p], m) => Line(p)' = Append(Line(p), m)
<1> DEFINE q == Other(p)
<1>1. q \in Peers /\ q # p /\ Other(q) = p
  BY TwoPeers
<1>2. inq[p] \in Seq(Letters) /\ wire[q] \in Seq(Letters) /\ inq[q] \in Seq(Letters)
      /\ wire[p] \in Seq(Letters)
      /\ inq'[p] = Tail(inq[p]) /\ inq'[q] = inq[q] /\ wire'[q] = wire[q]
  BY <1>1 DEF WireType
<1> HIDE DEF q
<1> DEFINE l == inq[p] \o wire[q]
<1>3. l \in Seq(Letters) /\ l # << >> /\ Head(l) = Head(inq[p]) /\ Head(inq[p]) \in Letters
      /\ Tail(l) = Tail(inq[p]) \o wire[q]
  <2>1. PICK s \in Seq(Letters), r \in Seq(Letters) :
          s = inq[p] /\ r = wire[q] /\ s # << >>
    BY <1>2
  <2>2. /\ s \o r \in Seq(Letters) /\ s \o r # << >> /\ Head(s \o r) = Head(s)
        /\ Head(s) \in Letters /\ Tail(s \o r) = Tail(s) \o r
    <3>1. s # << >> BY <2>1
    <3>2. QED BY <3>1, ConcatTail
  <2>3. QED
    BY <2>1, <2>2
<1>4. Line(q) = l /\ Line(q)' = Tail(inq[p]) \o wire[q]
  BY <1>1, <1>2 DEF Line
<1> HIDE DEF l
<1>5. wire'[p] = wire[p] => Line(p)' = Line(p)
  BY <1>1, <1>2 DEF Line, q
<1>6. ASSUME NEW m \in Letters, wire'[p] = Append(wire[p], m)
      PROVE  Line(p)' = Append(Line(p), m)
  <2>1. inq[q] \o Append(wire[p], m) = Append(inq[q] \o wire[p], m)
    <3>1. PICK s \in Seq(Letters), r \in Seq(Letters) : s = inq[q] /\ r = wire[p]
      BY <1>2
    <3>2. s \o Append(r, m) = Append(s \o r, m)
      OBVIOUS
    <3>3. QED
      BY <3>1, <3>2
  <2>2. QED
    BY <1>2, <1>6, <2>1 DEF Line, q
<1>7. QED
  BY <1>3, <1>4, <1>5, <1>6 DEF q

LEMMA LineMove ==
  ASSUME WireType, NEW p \in Peers, wire[Other(p)] # << >>,
         Queues(p, Head(wire[Other(p)]))
  PROVE  /\ \A r \in Peers : Line(r)' = Line(r)
         /\ wire'[p] = wire[p] /\ wire'[Other(p)] = Tail(wire[Other(p)])
<1> DEFINE q == Other(p)
<1>1. q \in Peers /\ q # p /\ Other(q) = p /\ \A r \in Peers : r = p \/ r = q
  BY TwoPeers
<1>2. inq[p] \in Seq(Letters) /\ wire[q] \in Seq(Letters) /\ inq[q] \in Seq(Letters)
      /\ wire[p] \in Seq(Letters) /\ wire[q] # << >>
      /\ inq'[p] = Append(inq[p], Head(wire[q])) /\ inq'[q] = inq[q]
      /\ wire'[q] = Tail(wire[q]) /\ wire'[p] = wire[p]
  BY <1>1 DEF WireType, Queues
<1> HIDE DEF q
<1>3. Append(inq[p], Head(wire[q])) \o Tail(wire[q]) = inq[p] \o wire[q]
  BY <1>2, ConcatMove
<1>4. Line(q)' = Line(q) /\ Line(p)' = Line(p)
  BY <1>1, <1>2, <1>3 DEF Line, q
<1>5. QED
  BY <1>1, <1>2, <1>4 DEF q

-----------------------------------------------------------------------------
(* Requests and the messages of p and q = Other(p): kinds of a step.         *)
LEMMA Primes ==
  \A r \in Peers :
    /\ Asked(r)' = Msgs(Line(r)', "req") /\ Answered(r)' = Msgs(Line(Other(r))', "resp")
    /\ Asked(r) = Msgs(Line(r), "req") /\ Answered(r) = Msgs(Line(Other(r)), "resp")
    /\ Once(Line(r), "req")' <=> Once(Line(r)', "req")
    /\ Once(Line(r), "resp")' <=> Once(Line(r)', "resp")
BY DEF Asked, Answered, Msgs, Once

LEMMA MsgsType ==
  ASSUME WireType
  PROVE  \A r \in Peers : Asked(r) \subseteq Letters /\ Answered(r) \subseteq Letters
<1>1. \A r \in Peers : \A kind : Msgs(Line(r), kind) \subseteq Letters
  BY LineType DEF Msgs
<1>2. QED
  BY <1>1, TwoPeers DEF Asked, Answered

LEMMA MatchedNext ==
  ASSUME NEW r \in Peers,
         \A m \in Asked(r)' \cup Answered(r)' : WaitsFor(r, m)',
         Once(Line(r)', "req"), Once(Line(r)', "resp"),
         \A m \in Asked(r)', n \in Answered(r)' : m.t # n.t
  PROVE  Matched(r)'
BY Primes DEF Matched

\* Nothing of the requests under way is lost: a thread that waits for a response stays so.
KeepsPending == \A r \in Peers, t \in Threads :
  thr[r][t].pc = "pending" => thr'[r][t] = thr[r][t]

LEMMA WaitsKept ==
  ASSUME WireType, Corresponding, KeepsPending
  PROVE  \A r \in Peers : \A m \in Asked(r) \cup Answered(r) : WaitsFor(r, m)'
<1> SUFFICES ASSUME NEW r \in Peers, NEW m \in Asked(r) \cup Answered(r)
             PROVE  WaitsFor(r, m)'
  OBVIOUS
<1>1. m.t \in Threads
  BY MsgsType DEF Letters, Messages
<1>2. WaitsFor(r, m)
  BY DEF Corresponding, Matched
<1>3. QED
  BY <1>1, <1>2 DEF WaitsFor, KeepsPending

LEMMA CorrespondingStays ==
  ASSUME WireType, Corresponding, KeepsPending, \A r \in Peers : Line(r)' = Line(r)
  PROVE  /\ Corresponding'
         /\ \A r \in Peers : Asked(r)' = Asked(r) /\ Answered(r)' = Answered(r)
<1>1. \A r \in Peers : Asked(r)' = Asked(r) /\ Answered(r)' = Answered(r)
  BY Primes, TwoPeers
<1>2. \A r \in Peers : Matched(r)'
  <2> SUFFICES ASSUME NEW r \in Peers PROVE Matched(r)'
    OBVIOUS
  <2>1. Matched(r) /\ Line(r)' = Line(r) /\ Asked(r)' = Asked(r) /\ Answered(r)' = Answered(r)
    BY <1>1 DEF Corresponding
  <2>2. \A m \in Asked(r)' \cup Answered(r)' : WaitsFor(r, m)'
    BY <2>1, WaitsKept
  <2>3. Once(Line(r)', "req") /\ Once(Line(r)', "resp")
        /\ \A m \in Asked(r)', n \in Answered(r)' : m.t # n.t
    BY <2>1 DEF Matched
  <2>4. QED
    BY <2>2, <2>3, MatchedNext
<1>3. QED
  BY <1>1, <1>2 DEF Corresponding

\* A request goes out.
LEMMA CorrespondingSend ==
  ASSUME WireType, Corresponding, KeepsPending, NEW p \in Peers, NEW m \in Letters,
         m.kind = "req", thr[p][m.t].pc # "pending", WaitsFor(p, m)',
         Line(p)' = Append(Line(p), m), Line(Other(p))' = Line(Other(p))
  PROVE  /\ Corresponding'
         /\ Asked(p)' = Asked(p) \cup {m} /\ Answered(p)' = Answered(p)
         /\ Asked(Other(p))' = Asked(Other(p)) /\ Answered(Other(p))' = Answered(Other(p))
<1> DEFINE q == Other(p)
<1>1. q \in Peers /\ q # p /\ Other(q) = p /\ \A r \in Peers : r = p \/ r = q
  BY TwoPeers
<1>2. Line(p) \in Seq(Letters) /\ Matched(p) /\ Matched(q)
  BY <1>1, LineType DEF Corresponding
<1>3. \A n \in Asked(p) \cup Answered(p) : n.t # m.t
  BY <1>2 DEF Matched, WaitsFor
<1> HIDE DEF q
<1>4. /\ Msgs(Line(p)', "req") = Msgs(Line(p), "req") \cup {m}
      /\ Msgs(Line(p)', "resp") = Msgs(Line(p), "resp")
      /\ Once(Line(p)', "req") /\ Once(Line(p)', "resp")
  <2>1. Once(Line(p), "req") /\ Once(Line(p), "resp")
        /\ \A n \in Msgs(Line(p), "req") : n.t # m.t
    BY <1>2, <1>3 DEF Matched, Asked
  <2>2. Msgs(Line(p)', "resp") = Msgs(Line(p), "resp") /\ Once(Line(p)', "resp")
    BY <1>2, <2>1, AppendMsgs
  <2>3. Msgs(Line(p)', "req") = Msgs(Line(p), "req") \cup {m} /\ Once(Line(p)', "req")
    BY <1>2, <2>1, AppendMsgs
  <2>4. QED
    BY <2>2, <2>3
<1>5. /\ Asked(p)' = Asked(p) \cup {m} /\ Answered(q)' = Answered(q)
      /\ Answered(p)' = Answered(p) /\ Asked(q)' = Asked(q)
  BY <1>1, <1>4, Primes DEF q
<1>6. Matched(p)'
  <2>1. \A n \in Asked(p)' \cup Answered(p)' : WaitsFor(p, n)'
    BY <1>5, WaitsKept
  <2>2. \A n \in Asked(p)', o \in Answered(p)' : n.t # o.t
    BY <1>2, <1>3, <1>5 DEF Matched
  <2>3. QED
    BY <1>4, <2>1, <2>2, MatchedNext
<1>7. Matched(q)'
  <2>1. \A n \in Asked(q)' \cup Answered(q)' : WaitsFor(q, n)'
    BY <1>1, <1>5, WaitsKept
  <2>2. Once(Line(q)', "req") /\ Once(Line(q)', "resp")
        /\ \A n \in Asked(q)', o \in Answered(q)' : n.t # o.t
    BY <1>2, <1>5 DEF Matched, q
  <2>3. QED
    BY <1>1, <2>1, <2>2, MatchedNext
<1>8. QED
  BY <1>1, <1>5, <1>6, <1>7 DEF q, Corresponding

\* A request is answered.
LEMMA CorrespondingAnswer ==
  ASSUME WireType, Corresponding, KeepsPending, NEW p \in Peers, NEW h \in Letters,
         NEW a \in Letters,
         Line(Other(p)) # << >>, h = Head(Line(Other(p))), h.kind = "req",
         a.kind = "resp", a.t = h.t, a.op = h.op,
         Line(p)' = Append(Line(p), a), Line(Other(p))' = Tail(Line(Other(p)))
  PROVE  /\ Corresponding'
         /\ h \in Asked(Other(p)) /\ Asked(Other(p))' \subseteq Asked(Other(p))
         /\ Answered(Other(p))' = Answered(Other(p)) \cup {a}
         /\ Asked(p)' = Asked(p) /\ Answered(p)' = Answered(p)
<1> DEFINE q == Other(p)
<1>1. q \in Peers /\ q # p /\ Other(q) = p /\ \A r \in Peers : r = p \/ r = q
  BY TwoPeers
<1>2. Line(p) \in Seq(Letters) /\ Line(q) \in Seq(Letters) /\ Line(q) # << >>
      /\ Matched(p) /\ Matched(q) /\ h = Head(Line(q)) /\ Line(q)' = Tail(Line(q))
  BY <1>1, LineType DEF Corresponding
<1> HIDE DEF q
<1>3. /\ Once(Line(p), "req") /\ Once(Line(p), "resp")
      /\ Once(Line(q), "req") /\ Once(Line(q), "resp")
  BY <1>2 DEF Matched
<1>4. /\ Msgs(Line(q)', "resp") = Msgs(Line(q), "resp")
      /\ Msgs(Line(q), "req") = Msgs(Line(q)', "req") \cup {h}
      /\ Once(Line(q)', "req") /\ Once(Line(q)', "resp")
      /\ \A m \in Msgs(Line(q)', "req") : m.t # h.t
  <2>1. Msgs(Line(q)', "resp") = Msgs(Line(q), "resp") /\ Once(Line(q)', "resp")
    BY <1>2, <1>3, TailMsgs
  <2>2. Msgs(Line(q), "req") = Msgs(Line(q)', "req") \cup {h}
    <3>1. Msgs(Line(q), "req") = Msgs(Tail(Line(q)), "req") \cup {Head(Line(q))}
      BY <1>2, TailMsgs
    <3>2. QED
      BY <1>2, <3>1
  <2>3. Once(Line(q)', "req") /\ \A m \in Msgs(Line(q)', "req") : m.t # h.t
    BY <1>2, <1>3, TailMsgs
  <2>4. QED
    BY <2>1, <2>2, <2>3
<1>5. /\ Msgs(Line(p)', "req") = Msgs(Line(p), "req")
      /\ Msgs(Line(p)', "resp") = Msgs(Line(p), "resp") \cup {a}
      /\ Once(Line(p)', "req")
      /\ (\A n \in Msgs(Line(p), "resp") : n.t # a.t) => Once(Line(p)', "resp")
  <2>1. Msgs(Line(p)', "req") = Msgs(Line(p), "req") /\ Once(Line(p)', "req")
    BY <1>2, <1>3, AppendMsgs
  <2>2. Msgs(Line(p)', "resp") = Msgs(Line(p), "resp") \cup {a}
    <3>1. PICK s \in Seq(Letters) : s = Line(p)
      BY <1>2
    <3>2. Msgs(Append(s, a), "resp") = Msgs(s, "resp") \cup {a}
      BY AppendMsgs
    <3>3. QED
      BY <3>1, <3>2, Zenon
  <2>3. ASSUME \A n \in Msgs(Line(p), "resp") : n.t # a.t PROVE Once(Line(p)', "resp")
    BY <1>2, <1>3, <2>3, AppendMsgs
  <2>4. QED
    BY <2>1, <2>2, <2>3
<1>6. /\ h \in Asked(q) /\ Asked(q)' \subseteq Asked(q) /\ Asked(p)' = Asked(p)
      /\ Answered(q)' = Answered(q) \cup {a} /\ Answered(p)' = Answered(p)
      /\ \A m \in Asked(q)' : m.t # h.t
  BY <1>1, <1>4, <1>5, Primes DEF q
<1>7. \A n \in Answered(q) : n.t # a.t
  BY <1>2, <1>6 DEF Matched
<1>8. Once(Line(p)', "resp")
  BY <1>1, <1>5, <1>7, Primes
<1>9. Matched(p)'
  <2>1. \A n \in Asked(p)' \cup Answered(p)' : WaitsFor(p, n)'
    BY <1>6, WaitsKept
  <2>2. \A n \in Asked(p)', o \in Answered(p)' : n.t # o.t
    BY <1>2, <1>6 DEF Matched
  <2>3. QED
    BY <1>5, <1>8, <2>1, <2>2, MatchedNext
<1>10. Matched(q)'
  <2>1. \A n \in Asked(q)' \cup Answered(q)' : WaitsFor(q, n)'
    <3>1. \A n \in Asked(q) \cup Answered(q) : WaitsFor(q, n)'
      BY <1>1, WaitsKept
    <3>2. WaitsFor(q, h)' => WaitsFor(q, a)'
      BY DEF WaitsFor
    <3>3. QED
      BY <1>6, <3>1, <3>2
  <2>2. \A n \in Asked(q)', o \in Answered(q)' : n.t # o.t
    BY <1>2, <1>6 DEF Matched
  <2>3. QED
    BY <1>1, <1>4, <2>1, <2>2, MatchedNext
<1>11. QED
  BY <1>1, <1>6, <1>9, <1>10 DEF q, Corresponding

\* A message is taken: the response to a thread's request, which goes on, or a request
\* that finds no stream.
LEMMA CorrespondingTake ==
  ASSUME WireType, Corresponding, NEW p \in Peers, NEW h \in Letters,
         Line(Other(p)) # << >>, h = Head(Line(Other(p))),
         \A r \in Peers, t \in Threads :
           thr[r][t].pc = "pending" /\ ~(r = p /\ t = h.t /\ h.kind = "resp")
             => thr'[r][t] = thr[r][t],
         Line(p)' = Line(p), Line(Other(p))' = Tail(Line(Other(p)))
  PROVE  /\ Corresponding'
         /\ h.kind = "resp" => /\ Answered(p) = Answered(p)' \cup {h}
                              /\ Asked(Other(p))' = Asked(Other(p))
         /\ h.kind = "req" => Answered(p)' = Answered(p)
         /\ Answered(p)' \subseteq Answered(p) /\ Asked(Other(p))' \subseteq Asked(Other(p))
         /\ Asked(p)' = Asked(p) /\ Answered(Other(p))' = Answered(Other(p))
<1> DEFINE q == Other(p)
<1>1. q \in Peers /\ q # p /\ Other(q) = p /\ \A r \in Peers : r = p \/ r = q
  BY TwoPeers
<1>2. Line(q) \in Seq(Letters) /\ Line(q) # << >>
      /\ Matched(p) /\ Matched(q) /\ h = Head(Line(q)) /\ Line(q)' = Tail(Line(q))
  BY <1>1, LineType DEF Corresponding
<1> HIDE DEF q
<1>3. /\ Once(Line(p)', "req") /\ Once(Line(p)', "resp")
      /\ Once(Line(q), "req") /\ Once(Line(q), "resp")
  BY <1>2 DEF Matched
<1>4. ASSUME NEW kind \in {"req", "resp"}
      PROVE  /\ h.kind = kind => Msgs(Line(q), kind) = Msgs(Line(q)', kind) \cup {h}
             /\ h.kind # kind => Msgs(Line(q), kind) = Msgs(Line(q)', kind)
             /\ Once(Line(q)', kind)
             /\ h.kind = kind => \A m \in Msgs(Line(q)', kind) : m.t # h.t
  BY <1>2, <1>3, TailMsgs
<1>5. /\ h.kind = "resp" => Answered(p) = Answered(p)' \cup {h} /\ Asked(q)' = Asked(q)
      /\ h.kind = "req" => Asked(q) = Asked(q)' \cup {h} /\ Answered(p)' = Answered(p)
      /\ h.kind = "resp" \/ h.kind = "req"
      /\ Asked(p)' = Asked(p) /\ Answered(q)' = Answered(q)
      /\ h.kind = "resp" => \A m \in Answered(p)' : m.t # h.t
  <2>1. Asked(q) = Msgs(Line(q), "req") /\ Asked(q)' = Msgs(Line(q)', "req")
    BY <1>1, Primes
  <2>2. Answered(p) = Msgs(Line(q), "resp") /\ Answered(p)' = Msgs(Line(q)', "resp")
    BY <1>1, Primes DEF q
  <2>3. Asked(p)' = Asked(p) /\ Answered(q)' = Answered(q)
    BY <1>1, Primes DEF q
  <2>4. h.kind = "resp" \/ h.kind = "req"
    BY DEF Letters, Messages
  <2>5. QED
    BY <1>4, <2>1, <2>2, <2>3, <2>4
<1>6. h.kind = "resp" => \A m \in Asked(p)' \cup Answered(p)' : m.t # h.t
  BY <1>2, <1>5 DEF Matched
<1>7. \A m \in Letters : m.t \in Threads
  BY DEF Letters, Messages
<1>8. Matched(p)'
  <2>1. ASSUME NEW m \in Asked(p)' \cup Answered(p)' PROVE WaitsFor(p, m)'
    <3>1. m \in Letters /\ WaitsFor(p, m) /\ (h.kind = "resp" => m.t # h.t)
      BY <1>2, <1>5, <1>6, MsgsType DEF Matched
    <3>2. QED
      BY <1>7, <3>1 DEF WaitsFor
  <2>2. \A n \in Asked(p)', o \in Answered(p)' : n.t # o.t
    BY <1>2, <1>5 DEF Matched
  <2>3. QED
    BY <1>3, <2>1, <2>2, MatchedNext
<1>9. Matched(q)'
  <2>1. ASSUME NEW m \in Asked(q)' \cup Answered(q)' PROVE WaitsFor(q, m)'
    <3>1. m \in Letters /\ WaitsFor(q, m)
      BY <1>1, <1>2, <1>5, MsgsType DEF Matched
    <3>2. QED
      BY <1>1, <1>7, <3>1 DEF WaitsFor
  <2>2. \A n \in Asked(q)', o \in Answered(q)' : n.t # o.t
    BY <1>2, <1>5 DEF Matched
  <2>3. QED
    BY <1>1, <1>4, <2>1, <2>2, MatchedNext
<1>10. QED
  BY <1>1, <1>5, <1>8, <1>9 DEF q, Corresponding
-----------------------------------------------------------------------------
(* Steps of the application threads.                                         *)

\* A thread begins or ends a call, or looks the stream up.
Begins(p, t) ==
  /\ UNCHANGED <<data, inq, rd, wire, usage, fault>>
  /\ thr[p][t].pc \notin Asking
  /\ \E r \in Requesters :
       /\ thr' = [thr EXCEPT ![p][t] = r]
       /\ \/ r.pc = "queued" /\ queue' = [queue EXCEPT ![p] = Append(@, t)]
          \/ r.pc \notin Asking /\ queue' = queue
       /\ r.op = "OPEN" /\ r.pc \in Asking => r.size \in usage.open[p]
       /\ Careful /\ Disciplined =>
            \A u \in Threads \ {t} : Apart(r, thr[p][u]) /\ Apart(thr[p][u], r)

LEMMA UsageType ==
  ASSUME AppType
  PROVE  \A p \in Peers : usage.open[p] \subseteq Nat \ {0}
BY StreamAssumption DEF AppType

\* A call that adds a request.
LEMMA AddBegins ==
  ASSUME Types, NEW p \in Peers, NEW t \in Threads, NEW op \in AllOps, NEW size \in Nat,
         Calls(p, t, op), Add(p, t, op, size),
         op = "OPEN" => size \in usage.open[p] /\ size # 0, op = "WRITE" => size \in Sizes,
         UNCHANGED <<data, inq, rd, wire, usage, fault>>
  PROVE  Begins(p, t)
<1> DEFINE r == [pc |-> "queued", op |-> op, size |-> size, id |-> known[p][t],
                 block |-> FALSE]
<1>1. r \in Requesters /\ r.pc = "queued" /\ r.op = op /\ r.size = size
  <2>1. known[p][t] \in Ids
    BY DEF Types, AppType
  <2>2. QED
    BY <2>1 DEF Requesters, Asking
<1>2. thr[p][t].pc = "idle"
  BY DEF Calls
<1>3. ASSUME Careful, Disciplined, NEW u \in Threads \ {t}
      PROVE  Apart(r, thr[p][u]) /\ Apart(thr[p][u], r)
  <2>1. /\ op \notin {"READ", "REL"} => ~Busy(p, {"CLOSE"})
        /\ op = "CLOSE" => ~Busy(p, {"OPEN", "WRITE"})
    BY <1>3 DEF Calls, Agreed, Careful
  <2>2. thr[p][u].op \in AllOps
    BY DEF Types, ThreadsType, Requesters
  <2>3. QED
    BY <1>1, <2>1, <2>2 DEF Busy, Apart, AllOps
<1> HIDE DEF r
<1>4. thr' = [thr EXCEPT ![p][t] = r] /\ queue' = [queue EXCEPT ![p] = Append(@, t)]
  BY DEF Add, r
<1>5. QED
  BY <1>1, <1>2, <1>3, <1>4 DEF Begins, Asking

LEMMA CallsBegin ==
  ASSUME Types, NEW p \in Peers, NEW t \in Threads, Application(p, t)
  PROVE  Begins(p, t)
<1>1. CASE CallOpen(p, t)
  <2>1. PICK size \in usage.open[p] : Add(p, t, "OPEN", size)
    BY <1>1 DEF CallOpen
  <2>2. size \in Nat /\ size # 0
    BY UsageType DEF Types
  <2>3. QED
    BY <1>1, <2>1, <2>2, AddBegins DEF CallOpen, AllOps
<1>2. CASE CallWrite(p, t)
  <2>1. PICK size \in Sizes : Add(p, t, "WRITE", size)
    BY <1>2 DEF CallWrite
  <2>2. size \in Nat
    BY StreamAssumption
  <2>3. QED
    BY <1>2, <2>1, <2>2, AddBegins DEF CallWrite, AllOps
<1>3. CASE CallRead(p, t)
  BY <1>3, AddBegins DEF CallRead, AllOps
<1>4. CASE CallRelease(p, t)
  BY <1>4, AddBegins DEF CallRelease, AllOps
<1>5. CASE CallClose(p, t)
  BY <1>5, AddBegins DEF CallClose, AllOps
<1>6. ASSUME NEW r \in Requesters, r.pc \notin Asking, r.op = "OPEN", thr[p][t].pc \notin Asking,
             thr' = [thr EXCEPT ![p][t] = r], queue' = queue,
             r.pc = "idle" \/ thr[p][t].pc # "idle" \/ (Careful => ~Busy(p, {"CLOSE"})),
             UNCHANGED <<data, inq, rd, wire, usage, fault>>
      PROVE  Begins(p, t)
  <2>1. ASSUME Careful, Disciplined, NEW u \in Threads \ {t}
        PROVE  Apart(r, thr[p][u]) /\ Apart(thr[p][u], r)
    <3>1. thr[p][t].op = "OPEN" /\ Apart(thr[p][u], thr[p][t])
      BY <1>6, <2>1 DEF Types, ThreadsType, Requesters, Disciplined
    <3>2. QED
      BY <1>6, <2>1, <3>1 DEF Busy, Apart
  <2>2. QED
    BY <1>6, <2>1 DEF Begins
<1>7. /\ IdleThread \in Requesters /\ IdleThread.pc = "idle" /\ IdleThread.op = "OPEN"
      /\ \A pc \in {"lookup", "locking"} : LET r == [IdleThread EXCEPT !.pc = pc] IN
           r \in Requesters /\ r.pc = pc /\ r.op = "OPEN"
      /\ \A pc \in {"idle", "lookup", "locking"} : pc \notin Asking
  BY DEF IdleThread, Requesters, Asking, AllOps, Ids
<1>8. CASE CallLookup(p, t)
  <2>1. thr[p][t].pc = "idle" /\ (Careful => ~Busy(p, {"CLOSE"}))
    BY <1>8 DEF CallLookup, Calls, Agreed, Careful
  <2>2. QED
    BY <1>6, <1>7, <1>8, <2>1 DEF CallLookup, app
<1>9. CASE Lookup(p, t)
  <2>1. CASE stream[p].id = None
    BY <1>6, <1>7, <1>9, <2>1 DEF Lookup
  <2>2. CASE stream[p].id # None
    <3> DEFINE r == [thr[p][t] EXCEPT !.pc = "locking"]
    <3>1. thr' = [thr EXCEPT ![p][t] = r] /\ queue' = queue /\ thr[p][t].pc = "lookup"
      BY <1>9, <2>2 DEF Lookup
    <3>2. r \in Requesters /\ r.pc = "locking" /\ r.op = "OPEN"
      <4>1. thr[p][t] \in Requesters
        BY DEF Types, ThreadsType
      <4>2. QED
        BY <3>1, <4>1 DEF Requesters, Asking
    <3> HIDE DEF r
    <3>3. QED
      BY <1>6, <1>7, <1>9, <3>1, <3>2 DEF Lookup
  <2>3. QED BY <2>1, <2>2
<1>10. CASE LookupLock(p, t)
  BY <1>6, <1>7, <1>10 DEF LookupLock
<1>11. QED
  BY <1>1, <1>2, <1>3, <1>4, <1>5, <1>8, <1>9, <1>10 DEF Application

LEMMA ApplicationApp ==
  ASSUME Types, NEW p \in Peers, NEW t \in Threads, Application(p, t)
  PROVE  AppType'
<1> USE DEF Types, AppType
<1>0. stream[p].id \in Ids /\ None \in Ids
  BY DEF StreamsType, Ids
<1>1. \A op \in AllOps : Counted(p, op) => calls' \in [Peers -> [AllOps -> Nat]]
  BY DEF Counted
<1>2. \A id \in Ids : Share(p, id) => known' \in [Peers -> [Threads -> Ids]]
  BY DEF Share
<1>3. CASE CallOpen(p, t)
  BY <1>1, <1>3 DEF CallOpen, AllOps
<1>4. CASE CallLookup(p, t)
  BY <1>4 DEF CallLookup, app
<1>5. CASE CallWrite(p, t)
  BY <1>1, <1>5 DEF CallWrite, AllOps
<1>6. CASE CallRead(p, t)
  BY <1>1, <1>6 DEF CallRead, AllOps
<1>7. CASE CallRelease(p, t)
  <2>1. holds[p][t] \in Nat /\ holds[p][t] > 0
    BY <1>7 DEF CallRelease
  <2>2. QED
    BY <1>7, <2>1 DEF CallRelease
<1>8. CASE CallClose(p, t)
  <2>1. known' \in [Peers -> [Threads -> Ids]]
    BY <1>0, <1>8 DEF CallClose
  <2>2. QED
    BY <1>1, <1>8, <2>1 DEF CallClose, AllOps
<1>9. CASE Lookup(p, t)
  BY <1>0, <1>2, <1>9 DEF Lookup
<1>10. CASE LookupLock(p, t)
  BY <1>0, <1>2, <1>10 DEF LookupLock
<1>11. QED
  BY <1>3, <1>4, <1>5, <1>6, <1>7, <1>8, <1>9, <1>10 DEF Application
-----------------------------------------------------------------------------
(* Steps of the scheduler for the requests of its own peer.                  *)

LEMMA RequestKept ==
  ASSUME NEW r \in Requesters, r.pc \in Asking, NEW pc \in Asking, NEW block \in BOOLEAN
  PROVE  LET s == [r EXCEPT !.pc = pc, !.block = block] IN
           s \in Requesters /\ s.pc = pc /\ s.op = r.op /\ s.size = r.size /\ s.id = r.id
BY DEF Requesters, Asking

\* The request of a thread is served: it is answered or waits here, or goes out.
Stops(p, t) ==
  /\ wire' = wire /\ UNCHANGED <<inq, rd, usage, fault>>
  /\ \E r \in Requesters :
       /\ thr' = [thr EXCEPT ![p][t] = r]
       /\ r.pc \in {"idle", "blocked"}
       /\ r.pc = "blocked" => r.op = thr[p][t].op /\ r.size = thr[p][t].size
Sends(p, t, m) ==
  /\ wire' = [wire EXCEPT ![p] = Append(@, m)] /\ UNCHANGED <<inq, rd, usage, fault>>
  /\ m \in Letters /\ m.kind = "req" /\ m.t = t /\ m.op = thr[p][t].op
  /\ \E r \in Requesters :
       /\ thr' = [thr EXCEPT ![p][t] = r]
       /\ r.pc = "pending" /\ r.op = thr[p][t].op /\ r.size = thr[p][t].size

LEMMA TurnTakes ==
  ASSUME Types, Queued, NEW p \in Peers, NEW t \in Threads, NEW op, Turn(p, t, op)
  PROVE  /\ thr[p][t] \in Requesters /\ thr[p][t].pc \in {"queued", "ready"}
         /\ thr[p][t].op = op /\ fault = "none"
         /\ queue' \in [Peers -> Seq(Threads)]
         /\ \A r \in Peers : \A i, j \in DOMAIN queue'[r] :
              /\ thr[r][queue'[r][i]].pc = "queued"
              /\ ~(r = p /\ queue'[r][i] = t)
              /\ queue'[r][i] = queue'[r][j] => i = j
<1> USE DEF Types, ThreadsType
<1>1. thr[p][t] \in Requesters /\ thr[p][t].op = op /\ fault = "none"
  BY DEF Turn
<1>2. CASE Ready(p) # {}
  <2>1. t \in Ready(p) /\ queue' = queue
    BY <1>2 DEF Turn
  <2>2. thr[p][t].pc = "ready"
    BY <2>1 DEF Ready
  <2>3. \A r \in Peers : \A i, j \in DOMAIN queue[r] :
          /\ thr[r][queue[r][i]].pc = "queued"
          /\ queue[r][i] = queue[r][j] => i = j
    BY DEF Queued
  <2>4. QED
    BY <1>1, <2>1, <2>2, <2>3
<1>3. CASE Ready(p) = {}
  <2>1. queue[p] # << >> /\ t = Head(queue[p]) /\ queue' = [queue EXCEPT ![p] = Tail(@)]
    BY <1>3 DEF Turn
  <2>2. queue[p] \in Seq(Threads) /\ queue'[p] = Tail(queue[p])
        /\ queue' \in [Peers -> Seq(Threads)] /\ \A r \in Peers : r # p => queue'[r] = queue[r]
    BY <2>1
  <2> DEFINE s == queue[p]
  <2>3. /\ Len(s) \in Nat \ {0} /\ DOMAIN s = 1 .. Len(s) /\ t = s[1]
        /\ DOMAIN queue'[p] = 1 .. Len(s) - 1
        /\ \A k \in 1 .. Len(s) - 1 : queue'[p][k] = s[k + 1]
    BY <2>1, <2>2, LenProperties
  <2>4. \A i, j \in DOMAIN s : thr[p][s[i]].pc = "queued" /\ (s[i] = s[j] => i = j)
    BY DEF Queued
  <2> HIDE DEF s
  <2>5. \A i \in DOMAIN queue'[p] : i + 1 \in DOMAIN s /\ i + 1 # 1 /\ queue'[p][i] = s[i + 1]
    BY <2>3
  <2>6. thr[p][t].pc = "queued" /\ 1 \in DOMAIN s
    BY <2>3, <2>4
  <2>7. \A i, j \in DOMAIN queue'[p] :
          /\ thr[p][queue'[p][i]].pc = "queued" /\ queue'[p][i] # t
          /\ queue'[p][i] = queue'[p][j] => i = j
    <3> SUFFICES ASSUME NEW i \in DOMAIN queue'[p], NEW j \in DOMAIN queue'[p]
                 PROVE  /\ thr[p][queue'[p][i]].pc = "queued" /\ queue'[p][i] # t
                        /\ queue'[p][i] = queue'[p][j] => i = j
      OBVIOUS
    <3>1. i \in Nat /\ j \in Nat
      BY <2>3
    <3>2. /\ queue'[p][i] = s[i + 1] /\ queue'[p][j] = s[j + 1]
          /\ i + 1 \in DOMAIN s /\ j + 1 \in DOMAIN s /\ i + 1 # 1
      BY <2>5
    <3>3. s[i + 1] = s[j + 1] => i + 1 = j + 1
      BY <2>4, <3>2
    <3>4. s[i + 1] # s[1] /\ thr[p][s[i + 1]].pc = "queued"
      BY <2>4, <2>6, <3>2
    <3>5. QED
      BY <2>3, <3>1, <3>2, <3>3, <3>4
  <2>8. \A r \in Peers : r # p => \A i, j \in DOMAIN queue[r] :
          /\ thr[r][queue[r][i]].pc = "queued"
          /\ queue[r][i] = queue[r][j] => i = j
    BY DEF Queued
  <2>9. ASSUME NEW r \in Peers, NEW i \in DOMAIN queue'[r], NEW j \in DOMAIN queue'[r]
        PROVE  /\ thr[r][queue'[r][i]].pc = "queued"
               /\ ~(r = p /\ queue'[r][i] = t)
               /\ queue'[r][i] = queue'[r][j] => i = j
    <3>1. CASE r = p
      BY <2>7, <3>1
    <3>2. CASE r # p
      BY <2>2, <2>8, <3>2
    <3>3. QED
      BY <3>1, <3>2
  <2>10. QED
    BY <1>1, <2>2, <2>6, <2>9
<1>4. QED
  BY <1>2, <1>3

\* The threads and their requests after a request was served.
LEMMA ServedRequests ==
  ASSUME Types, Requesting, NEW p \in Peers, NEW t \in Threads, NEW op, Turn(p, t, op),
         Stops(p, t) \/ \E m : Sends(p, t, m)
  PROVE  /\ ThreadsType' /\ Queued' /\ KeepsPending
         /\ \A r \in Peers, u \in Threads : ~(r = p /\ u = t) => thr'[r][u] = thr[r][u]
         /\ thr'[p][t].pc # "idle" => thr'[p][t].op = op /\ thr'[p][t].size = thr[p][t].size
<1>1. PICK r \in Requesters :
        /\ thr' = [thr EXCEPT ![p][t] = r]
        /\ r.pc \in {"idle", "blocked", "pending"}
        /\ r.pc # "idle" => r.op = thr[p][t].op /\ r.size = thr[p][t].size
  BY DEF Stops, Sends
<1>2. /\ thr[p][t].op = op /\ thr[p][t].pc \in {"queued", "ready"}
      /\ queue' \in [Peers -> Seq(Threads)]
      /\ \A s \in Peers : \A i, j \in DOMAIN queue'[s] :
           /\ thr[s][queue'[s][i]].pc = "queued"
           /\ ~(s = p /\ queue'[s][i] = t)
           /\ queue'[s][i] = queue'[s][j] => i = j
  BY TurnTakes DEF Requesting
<1>3. thr' \in [Peers -> [Threads -> Requesters]] /\ thr'[p][t] = r
      /\ \A s \in Peers, u \in Threads : ~(s = p /\ u = t) => thr'[s][u] = thr[s][u]
  BY <1>1 DEF Types, ThreadsType
<1>4. Queued'
  <2> SUFFICES ASSUME NEW s \in Peers
               PROVE  /\ \A i \in DOMAIN queue'[s] : thr'[s][queue'[s][i]].pc = "queued"
                      /\ \A i, j \in DOMAIN queue'[s] : queue'[s][i] = queue'[s][j] => i = j
    BY DEF Queued
  <2>1. \A i \in DOMAIN queue'[s] : queue'[s][i] \in Threads
    BY <1>2
  <2>2. QED
    BY <1>2, <1>3, <2>1
<1>5. KeepsPending
  BY <1>2, <1>3 DEF KeepsPending
<1>6. QED
  BY <1>1, <1>2, <1>3, <1>4, <1>5 DEF ThreadsType
LEMMA PendingSends ==
  ASSUME Types, Queued, NEW p \in Peers, NEW t \in Threads, NEW op \in AllOps, Turn(p, t, op),
         NEW size \in Nat, op # "CLOSE" => size # 0, Pending(p, t, size), UNCHANGED fault
  PROVE  Sends(p, t, Msg("req", op, thr[p][t].id, size, t))
<1> DEFINE m == Msg("req", op, thr[p][t].id, size, t)
           r == [thr[p][t] EXCEPT !.pc = "pending", !.block = FALSE]
<1>1. thr[p][t] \in Requesters /\ thr[p][t].pc \in Asking /\ thr[p][t].op = op
      /\ thr[p][t].id \in Ids
  BY TurnTakes DEF Asking, Requesters
<1>2. m \in Letters /\ m.kind = "req" /\ m.t = t /\ m.op = op
  BY <1>1 DEF Msg, Letters, Messages
<1>3. r \in Requesters /\ r.pc = "pending" /\ r.op = op /\ r.size = thr[p][t].size
  BY <1>1, RequestKept DEF Asking
<1>4. wire' = [wire EXCEPT ![p] = Append(@, m)] /\ UNCHANGED <<inq, rd, usage, fault>>
  BY <1>1 DEF Pending, Turn
<1>5. thr' = [thr EXCEPT ![p][t] = r]
  BY DEF Pending, Types, ThreadsType
<1> HIDE DEF m, r
<1>6. QED
  BY <1>1, <1>2, <1>3, <1>4, <1>5 DEF Sends, m

LEMMA BlockedStops ==
  ASSUME Types, Queued, NEW p \in Peers, NEW t \in Threads, NEW op, Turn(p, t, op),
         Blocked(p, t) \/ Done(p, t), UNCHANGED <<wire, fault>>
  PROVE  Stops(p, t)
<1>1. thr[p][t] \in Requesters /\ thr[p][t].pc \in Asking
  BY TurnTakes DEF Asking
<1>2. UNCHANGED <<inq, rd, usage, fault, wire>>
  BY DEF Turn
<1>3. CASE Blocked(p, t)
  <2> DEFINE r == [thr[p][t] EXCEPT !.pc = "blocked", !.block = TRUE]
  <2>1. r \in Requesters /\ r.pc = "blocked" /\ r.op = thr[p][t].op /\ r.size = thr[p][t].size
    BY <1>1, RequestKept DEF Asking
  <2>2. thr' = [thr EXCEPT ![p][t] = r]
    BY <1>3 DEF Blocked, Types, ThreadsType
  <2> HIDE DEF r
  <2>3. QED
    BY <1>2, <2>1, <2>2 DEF Stops
<1>4. CASE Done(p, t)
  <2>1. IdleThread \in Requesters /\ IdleThread.pc = "idle"
    BY DEF IdleThread, Requesters, Asking, AllOps, Ids
  <2>2. QED
    BY <1>2, <1>4, <2>1 DEF Stops, Done
<1>5. QED
  BY <1>3, <1>4

\* What each local request does.
Writes(p, t) ==
  LET m == Msg("req", "WRITE", thr[p][t].id, thr[p][t].size, t)
      s == stream[p]
  IN
  /\ Sends(p, t, m) /\ m.size \in Sizes
  /\ SpaceFor(s, m.size)
  /\ stream' = [stream EXCEPT ![p].rfill = @ + m.size, ![p].rpkts = @ + 1]
  /\ UNCHANGED <<avail, held, nextSid>>
Reads(p, t) ==
  /\ Stops(p, t)
  /\ avail[p] # << >>
  /\ avail' = [avail EXCEPT ![p] = Tail(@)]
  /\ held' = [held EXCEPT ![p] = Append(@, Head(avail[p]))]
  /\ UNCHANGED <<stream, nextSid>>
Releases(p, t) ==
  LET m == Msg("req", "REL", thr[p][t].id, Head(held[p]), t) IN
  /\ Sends(p, t, m)
  /\ held[p] # << >>
  /\ held' = [held EXCEPT ![p] = Tail(@)]
  /\ stream' = [stream EXCEPT ![p].lfill = @ - Head(held[p])]
  /\ UNCHANGED <<avail, nextSid>>
Closes(p, t) ==
  LET m == Msg("req", "CLOSE", thr[p][t].id, 0, t) IN
  /\ Sends(p, t, m)
  /\ stream[p].rfill = 0 /\ stream[p].id = m.id
  /\ UNCHANGED data
AsksOpen(p, t) ==
  LET m == Msg("req", "OPEN", None, thr[p][t].size, t) IN
  /\ Sends(p, t, m) /\ m.size # 0
  /\ UNCHANGED data
Waits(p, t) ==
  /\ Stops(p, t)
  /\ stream' = stream \/ stream' = [stream EXCEPT ![p].closing = TRUE]
  /\ UNCHANGED <<avail, held, nextSid>>

LEMMA LocalEffects ==
  ASSUME Types, Queued, NEW p \in Peers, NEW t \in Threads, LocalRequest(p, t)
  PROVE  \/ Turn(p, t, "OPEN") /\ AsksOpen(p, t)
         \/ LocalNotFound(p, t)
         \/ Turn(p, t, "WRITE") /\ Writes(p, t)
         \/ Turn(p, t, "READ") /\ Reads(p, t)
         \/ Turn(p, t, "REL") /\ Releases(p, t)
         \/ Turn(p, t, "CLOSE") /\ Closes(p, t)
         \/ \E op \in AllOps : Turn(p, t, op) /\ Waits(p, t)
<1>1. CASE LocalCreate(p, t)
  <2> DEFINE m == Msg("req", "OPEN", None, thr[p][t].size, t)
             r == [thr[p][t] EXCEPT !.pc = "pending"]
  <2>1. Turn(p, t, "OPEN") /\ UNCHANGED data
    BY <1>1 DEF LocalCreate
  <2>2. thr[p][t] \in Requesters /\ thr[p][t].pc \in Asking /\ thr[p][t].op = "OPEN"
    BY <2>1, TurnTakes DEF Asking
  <2>3. m \in Letters /\ m.kind = "req" /\ m.t = t /\ m.op = "OPEN" /\ m.size # 0
    BY <2>2 DEF Msg, Letters, Messages, Requesters, Ids, AllOps
  <2>4. r \in Requesters /\ r.pc = "pending" /\ r.op = "OPEN" /\ r.size = thr[p][t].size
    BY <2>2 DEF Requesters, Asking
  <2>5. thr' = [thr EXCEPT ![p][t] = r] /\ wire' = [wire EXCEPT ![p] = Append(@, m)]
        /\ UNCHANGED <<inq, rd, usage, fault>>
    BY <1>1, <2>1 DEF LocalCreate, Turn
  <2> HIDE DEF m, r
  <2>6. Sends(p, t, m)
    BY <2>2, <2>3, <2>4, <2>5 DEF Sends
  <2>7. QED
    BY <2>1, <2>3, <2>6 DEF AsksOpen, m
<1>2. CASE LocalWrite(p, t)
  <2>1. Turn(p, t, "WRITE") /\ UNCHANGED <<avail, held, nextSid, fault>>
    BY <1>2 DEF LocalWrite, Found
  <2>2. thr[p][t].size \in Sizes /\ thr[p][t].size \in Nat /\ thr[p][t].size # 0
    <3>1. thr[p][t] \in Requesters /\ thr[p][t].pc \in Asking /\ thr[p][t].op = "WRITE"
      BY <2>1, TurnTakes DEF Asking
    <3>2. QED
      BY <3>1, StreamAssumption DEF Requesters
  <2>3. CASE Pending(p, t, thr[p][t].size)
             /\ stream' = [stream EXCEPT ![p].rfill = @ + thr[p][t].size, ![p].rpkts = @ + 1]
             /\ SpaceFor(stream[p], thr[p][t].size)
    <3> DEFINE m == Msg("req", "WRITE", thr[p][t].id, thr[p][t].size, t)
    <3>1. Sends(p, t, m)
      BY <2>1, <2>2, <2>3, PendingSends DEF AllOps
    <3>2. m.size = thr[p][t].size
      BY DEF Msg
    <3>3. QED
      BY <2>1, <2>2, <2>3, <3>1, <3>2 DEF Writes
  <2>4. CASE (Blocked(p, t) \/ Done(p, t)) /\ UNCHANGED <<stream, wire>>
    <3>1. Stops(p, t)
      BY <2>1, <2>4, BlockedStops
    <3>2. QED
      BY <2>1, <2>4, <3>1 DEF Waits, AllOps
  <2>5. QED
    BY <1>2, <2>3, <2>4 DEF LocalWrite
<1>3. CASE LocalRead(p, t)
  <2>1. Turn(p, t, "READ") /\ UNCHANGED <<stream, nextSid, wire, fault>>
    BY <1>3 DEF LocalRead, Found
  <2>2. CASE avail[p] = << >>
    <3>1. Stops(p, t)
      BY <1>3, <2>1, <2>2, BlockedStops DEF LocalRead
    <3>2. QED
      BY <1>3, <2>1, <2>2, <3>1 DEF Waits, LocalRead, AllOps
  <2>3. CASE avail[p] # << >>
    <3>1. Stops(p, t)
      BY <1>3, <2>1, <2>3, BlockedStops DEF LocalRead
    <3>2. QED
      BY <1>3, <2>1, <2>3, <3>1 DEF Reads, LocalRead
  <2>4. QED
    BY <2>2, <2>3
<1>4. CASE LocalRelease(p, t)
  <2>1. Turn(p, t, "REL") /\ held[p] # << >> /\ UNCHANGED fault
    BY <1>4 DEF LocalRelease, Found
  <2>2. Head(held[p]) \in Nat /\ Head(held[p]) # 0
    <3>1. held[p] \in Seq(Packets)
      BY DEF Types, PacketsType
    <3>2. Head(held[p]) \in Packets
      BY <2>1, <3>1
    <3>3. QED
      BY <3>2 DEF Packets
  <2>3. Sends(p, t, Msg("req", "REL", thr[p][t].id, Head(held[p]), t))
    BY <1>4, <2>1, <2>2, PendingSends DEF LocalRelease, AllOps
  <2>4. QED
    BY <1>4, <2>1, <2>3 DEF LocalRelease, Releases
<1>5. CASE LocalClose(p, t)
  <2>1. Turn(p, t, "CLOSE") /\ UNCHANGED <<avail, held, nextSid, fault>>
        /\ stream[p].id = thr[p][t].id
    BY <1>5 DEF LocalClose, Found, Locks
  <2>2. CASE stream[p].rfill # 0
    <3>1. Stops(p, t)
      BY <1>5, <2>1, <2>2, BlockedStops DEF LocalClose
    <3>2. QED
      BY <1>5, <2>1, <2>2, <3>1 DEF Waits, LocalClose, AllOps
  <2>3. CASE stream[p].rfill = 0
    <3> DEFINE m == Msg("req", "CLOSE", thr[p][t].id, 0, t)
    <3>1. Sends(p, t, m)
      BY <1>5, <2>1, <2>3, PendingSends DEF LocalClose, AllOps
    <3>2. m.id = thr[p][t].id
      BY DEF Msg
    <3>3. QED
      BY <1>5, <2>1, <2>3, <3>1, <3>2 DEF Closes, LocalClose, data
  <2>4. QED
    BY <2>2, <2>3
<1>6. QED
  BY <1>1, <1>2, <1>3, <1>4, <1>5 DEF LocalRequest
\* The wire after a message was sent.
LEMMA SentWire ==
  ASSUME WireType, NEW p \in Peers, NEW m \in Letters, NEW x,
         x = [wire EXCEPT ![p] = Append(@, m)]
  PROVE  /\ x \in [Peers -> Seq(Letters)]
         /\ \A r \in Peers : wire[r] # << >> => x[r] # << >> /\ Head(x[r]) = Head(wire[r])
<1>1. wire[p] \in Seq(Letters)
  BY DEF WireType
<1>2. Append(wire[p], m) \in Seq(Letters)
      /\ (wire[p] # << >> => Append(wire[p], m) # << >> /\ Head(Append(wire[p], m)) = Head(wire[p]))
  BY <1>1
<1>3. QED
  BY <1>2 DEF WireType

LEMMA SentWireType ==
  ASSUME WireType, NEW p \in Peers, NEW m \in Letters,
         wire' = [wire EXCEPT ![p] = Append(@, m)],
         inq' \in [Peers -> Seq(Letters)], rd' = rd
  PROVE  WireType'
<1>1. /\ wire' \in [Peers -> Seq(Letters)]
      /\ \A r \in Peers : wire[r] # << >> => wire'[r] # << >> /\ Head(wire'[r]) = Head(wire[r])
  BY SentWire
<1>2. QED
  BY <1>1, TwoPeers DEF WireType

LEMMA TakenType ==
  ASSUME WireType, NEW p \in Peers, inq[p] # << >>, inq' = [inq EXCEPT ![p] = Tail(@)]
  PROVE  inq' \in [Peers -> Seq(Letters)] /\ Head(inq[p]) \in Letters
<1>1. inq[p] \in Seq(Letters)
  BY DEF WireType
<1>2. Tail(inq[p]) \in Seq(Letters) /\ Head(inq[p]) \in Letters
  BY <1>1
<1>3. QED
  BY <1>2 DEF WireType

-----------------------------------------------------------------------------
(* Steps of the scheduler for the messages of the peer.                      *)

\* Some requests that were blocked are ready; the others stay.
Wakes ==
  /\ thr' \in [Peers -> [Threads -> Requesters]]
  /\ \A r \in Peers, u \in Threads :
       \/ thr'[r][u] = thr[r][u]
       \/ /\ thr[r][u].pc = "blocked" /\ thr'[r][u].pc = "ready"
          /\ thr'[r][u].op = thr[r][u].op /\ thr'[r][u].size = thr[r][u].size

LEMMA UnblockWakes ==
  ASSUME ThreadsType, NEW p \in Peers, NEW ops, NEW id, Unblock(p, ops, id)
  PROVE  Wakes
<1>1. PICK chosen \in SUBSET Threads :
        /\ \A u \in chosen : thr[p][u].pc = "blocked"
        /\ thr' = [thr EXCEPT ![p] = [t \in Threads |->
                     IF t \in chosen THEN [@[t] EXCEPT !.pc = "ready"] ELSE @[t]]]
  <2>1. PICK chosen \in SUBSET {t \in Threads :
                 thr[p][t].op \in ops /\ t \in BlockedOn(p, thr[p][t].op, id)} :
          thr' = [thr EXCEPT ![p] = [t \in Threads |->
                     IF t \in chosen THEN [@[t] EXCEPT !.pc = "ready"] ELSE @[t]]]
    BY DEF Unblock
  <2>2. chosen \in SUBSET Threads /\ \A u \in chosen : thr[p][u].pc = "blocked"
    BY DEF BlockedOn
  <2>3. QED
    BY <2>1, <2>2
<1> DEFINE f == [t \in Threads |->
                   IF t \in chosen THEN [thr[p][t] EXCEPT !.pc = "ready"] ELSE thr[p][t]]
<1>2. thr' = [thr EXCEPT ![p] = f]
  BY <1>1
<1>3. ASSUME NEW u \in Threads
      PROVE  /\ f[u] \in Requesters
             /\ \/ f[u] = thr[p][u]
                \/ /\ thr[p][u].pc = "blocked" /\ f[u].pc = "ready"
                   /\ f[u].op = thr[p][u].op /\ f[u].size = thr[p][u].size
  <2>1. thr[p][u] \in Requesters
    BY DEF ThreadsType
  <2>2. CASE u \in chosen
    <3> DEFINE r == [thr[p][u] EXCEPT !.pc = "ready"]
    <3>1. thr[p][u].pc = "blocked"
      BY <1>1, <2>2
    <3>2. r \in Requesters /\ r.pc = "ready" /\ r.op = thr[p][u].op /\ r.size = thr[p][u].size
      BY <2>1, <3>1 DEF Requesters, Asking
    <3>3. f[u] = r
      BY <2>2
    <3> HIDE DEF f, r
    <3>4. QED
      BY <3>1, <3>2, <3>3
  <2>3. CASE u \notin chosen
    BY <2>1, <2>3
  <2>4. QED
    BY <2>2, <2>3
<1>4. f \in [Threads -> Requesters]
  <2>1. \A u \in Threads : f[u] \in Requesters
    BY <1>3
  <2>2. f = [u \in Threads |-> f[u]]
    OBVIOUS
  <2> HIDE DEF f
  <2>3. QED
    BY <2>1, <2>2
<1>5. /\ \A u \in Threads : \/ f[u] = thr[p][u]
                            \/ /\ thr[p][u].pc = "blocked" /\ f[u].pc = "ready"
                               /\ f[u].op = thr[p][u].op /\ f[u].size = thr[p][u].size
  BY <1>3
<1> HIDE DEF f
<1>6. QED
  BY <1>2, <1>4, <1>5 DEF Wakes, ThreadsType

\* A request of the peer is answered.
Answers(p, a) ==
  LET h == Head(inq[p]) IN
  /\ inq[p] # << >> /\ inq' = [inq EXCEPT ![p] = Tail(@)]
  /\ h \in Letters /\ h.kind = "req"
  /\ a \in Letters /\ a.kind = "resp" /\ a.t = h.t /\ a.op = h.op /\ a.size = h.size
  /\ wire' = [wire EXCEPT ![p] = Append(@, a)]
  /\ Wakes /\ UNCHANGED <<avail, held, queue, rd, app, fault>>

LEMMA AnsweredRequests ==
  ASSUME Types, Requesting, NEW p \in Peers, NEW a, Answers(p, a)
  PROVE  LET q == Other(p)
             h == Head(inq[p])
         IN
         /\ WireType' /\ ThreadsType' /\ Requesting'
         /\ Line(p)' = Append(Line(p), a) /\ Line(q)' = Tail(Line(q))
         /\ Line(q) # << >> /\ h = Head(Line(q))
         /\ h \in Asked(q) /\ Asked(q)' \subseteq Asked(q)
         /\ Answered(q)' = Answered(q) \cup {a}
         /\ Asked(p)' = Asked(p) /\ Answered(p)' = Answered(p)
<1> DEFINE q == Other(p)
           h == Head(inq[p])
<1>1. /\ q \in Peers /\ q # p
  BY TwoPeers
<1>2. /\ inq[p] # << >> /\ inq' = [inq EXCEPT ![p] = Tail(@)]
      /\ h \in Letters /\ h.kind = "req"
      /\ a \in Letters /\ a.kind = "resp" /\ a.t = h.t /\ a.op = h.op
      /\ wire' = [wire EXCEPT ![p] = Append(@, a)]
      /\ Wakes /\ rd' = rd /\ queue' = queue
  BY DEF Answers
<1>3. WireType' /\ WireType
  <2>1. inq' \in [Peers -> Seq(Letters)]
    BY <1>2, TakenType DEF Types
  <2>2. QED
    BY <1>2, <2>1, SentWireType DEF Types
<1>4. wire'[q] = wire[q] /\ wire'[p] = Append(wire[p], a)
  BY <1>1, <1>2, <1>3 DEF WireType
<1>5. /\ Line(q) # << >> /\ h = Head(Line(q)) /\ Line(q)' = Tail(Line(q))
      /\ Line(p)' = Append(Line(p), a)
  BY <1>2, <1>3, <1>4, LineTake
<1>6. ThreadsType' /\ KeepsPending /\ Queued'
  <2>1. ThreadsType' /\ KeepsPending
    BY <1>2 DEF Wakes, ThreadsType, KeepsPending, Types
  <2>2. ASSUME NEW r \in Peers, NEW i \in DOMAIN queue[r]
        PROVE  thr'[r][queue[r][i]].pc = "queued"
    <3>1. queue[r][i] \in Threads
      BY DEF Types, ThreadsType
    <3>2. thr[r][queue[r][i]].pc = "queued"
      BY DEF Requesting, Queued
    <3>3. QED
      BY <1>2, <3>1, <3>2 DEF Wakes
  <2>3. QED
    BY <1>2, <2>1, <2>2 DEF Queued, Requesting
<1> HIDE DEF q, h
<1>7. /\ Corresponding'
      /\ h \in Asked(q) /\ Asked(q)' \subseteq Asked(q)
      /\ Answered(q)' = Answered(q) \cup {a}
      /\ Asked(p)' = Asked(p) /\ Answered(p)' = Answered(p)
  BY <1>2, <1>3, <1>5, <1>6, CorrespondingAnswer DEF Requesting, q
<1>8. QED
  BY <1>2, <1>3, <1>5, <1>6, <1>7 DEF Requesting, q, h

\* The response to a thread's request is taken.
Takes(p) ==
  LET h == Head(inq[p]) IN
  /\ inq[p] # << >> /\ inq' = [inq EXCEPT ![p] = Tail(@)]
  /\ h \in Letters /\ h.kind = "resp"
  /\ \E r \in Requesters : /\ thr' = [thr EXCEPT ![p][h.t] = r]
                           /\ r.pc = "idle" \/ (r.pc = "lookup" /\ h.op = "OPEN")
  /\ UNCHANGED <<avail, held, queue, rd, app, fault, wire>>

LEMMA TakenRequests ==
  ASSUME Types, Requesting, NEW p \in Peers, Takes(p)
  PROVE  LET q == Other(p)
             h == Head(inq[p])
         IN
         /\ WireType' /\ ThreadsType' /\ Requesting'
         /\ Line(p)' = Line(p) /\ Line(q)' = Tail(Line(q))
         /\ Line(q) # << >> /\ h = Head(Line(q))
         /\ h \in Answered(p) /\ Answered(p) = Answered(p)' \cup {h}
         /\ Asked(q)' = Asked(q)
         /\ Asked(p)' = Asked(p) /\ Answered(q)' = Answered(q)
<1> DEFINE q == Other(p)
           h == Head(inq[p])
<1>1. /\ q \in Peers /\ q # p
  BY TwoPeers
<1>2. /\ inq[p] # << >> /\ inq' = [inq EXCEPT ![p] = Tail(@)]
      /\ h \in Letters /\ h.kind = "resp" /\ h.t \in Threads
      /\ wire' = wire /\ rd' = rd /\ queue' = queue
  BY DEF Takes, Letters, Messages
<1>3. WireType' /\ WireType
  <2>1. inq' \in [Peers -> Seq(Letters)]
    BY <1>2, TakenType DEF Types
  <2>2. QED
    BY <1>2, <2>1 DEF Types, WireType
<1>4. PICK r \in Requesters : thr' = [thr EXCEPT ![p][h.t] = r]
  BY DEF Takes
<1>5. /\ Line(q) # << >> /\ h = Head(Line(q)) /\ Line(q)' = Tail(Line(q))
      /\ Line(p)' = Line(p)
  BY <1>2, <1>3, LineTake
<1>6. /\ ThreadsType'
      /\ \A s \in Peers, u \in Threads : ~(s = p /\ u = h.t) => thr'[s][u] = thr[s][u]
  BY <1>2, <1>4 DEF ThreadsType, Types
<1> HIDE DEF q, h
<1>7. /\ Corresponding'
      /\ h \in Answered(p) /\ Answered(p) = Answered(p)' \cup {h}
      /\ Asked(q)' = Asked(q)
      /\ Asked(p)' = Asked(p) /\ Answered(q)' = Answered(q)
  BY <1>2, <1>3, <1>5, <1>6, CorrespondingTake DEF Requesting, q
<1>8. Queued'
  <2>1. thr[p][h.t].pc = "pending"
    BY <1>7 DEF Requesting, Corresponding, Matched, WaitsFor
  <2>2. ASSUME NEW s \in Peers, NEW i \in DOMAIN queue[s]
        PROVE  thr'[s][queue[s][i]].pc = "queued"
    <3>1. queue[s][i] \in Threads
      BY DEF Types, ThreadsType
    <3>2. thr[s][queue[s][i]].pc = "queued"
      BY DEF Requesting, Queued
    <3>3. QED
      BY <1>6, <2>1, <3>1, <3>2
  <2>3. QED
    BY <1>2, <2>2 DEF Queued, Requesting
<1>9. QED
  BY <1>3, <1>5, <1>6, <1>7, <1>8 DEF Requesting, q, h
-----------------------------------------------------------------------------
(* Changes of a descriptor.                                                  *)

Streams == [id : Ids, ws : Nat, rs : Nat, rfill : Int, rpkts : Int, lfill : Int,
            closing : BOOLEAN, sem : {0, 1}]

LEMMA NoStreamType ==
  NoStream \in Streams /\ NoStream.rfill = 0 /\ NoStream.rpkts = 0 /\ NoStream.lfill = 0
BY DEF NoStream, Streams, Ids

\* The types of a change of one descriptor.
LEMMA StreamChange ==
  ASSUME StreamsType, NEW p \in Peers, NEW s \in Streams, stream' = [stream EXCEPT ![p] = s],
         s.id = None => s.ws = 0 /\ s.rs = 0 /\ s.sem = 0, nextSid' \in [Peers -> Nat]
  PROVE  /\ StreamsType'
         /\ stream'[p] = s /\ \A r \in Peers : r # p => stream'[r] = stream[r]
BY DEF StreamsType, Streams

\* What allocateNewStream does.
Created(p, ws, rs) ==
  /\ stream[p].id = None
  /\ stream'[p].id # None /\ stream'[p].sem = 1
  /\ stream'[p].ws = ws /\ stream'[p].rs = rs
  /\ stream'[p].rfill = 0 /\ stream'[p].rpkts = 0 /\ stream'[p].lfill = 0
SameLevels(p) ==
  /\ stream'[p].rfill = stream[p].rfill /\ stream'[p].rpkts = stream[p].rpkts
  /\ stream'[p].lfill = stream[p].lfill
Kept(p, ws, rs) ==
  /\ stream[p].id # None /\ stream[p].sem = 1
  /\ (stream[p].ws # 0 /\ ws > stream[p].ws) \/ (stream[p].rs # 0 /\ rs > stream[p].rs)
  /\ stream'[p].id = stream[p].id /\ stream'[p].sem = 0
  /\ stream'[p].ws = stream[p].ws /\ stream'[p].rs = stream[p].rs
  /\ SameLevels(p)
Extended(p, ws, rs) ==
  /\ stream[p].id # None /\ stream[p].sem = 1
  /\ stream'[p].id = stream[p].id /\ stream'[p].sem = 1
  /\ stream'[p].ws = IF stream[p].ws = 0 THEN ws ELSE stream[p].ws
  /\ stream'[p].rs = IF stream[p].rs = 0 THEN rs ELSE stream[p].rs
  /\ SameLevels(p)

\* The id of a new stream, and the next one.
Numbered(p, forced) ==
  IF stream[p].id = None
  THEN /\ stream'[p].id = IF forced = None THEN nextSid[p] ELSE forced
       /\ nextSid' = [nextSid EXCEPT ![p] = @ + 1]
  ELSE nextSid' = nextSid

LEMMA AllocateDoes ==
  ASSUME StreamsType, NEW p \in Peers, NEW ws \in Nat, NEW rs \in Nat, NEW forced \in Ids,
         Allocate(p, ws, rs, forced)
  PROVE  /\ StreamsType' /\ \A r \in Peers : r # p => stream'[r] = stream[r]
         /\ Created(p, ws, rs) \/ Kept(p, ws, rs) \/ Extended(p, ws, rs)
         /\ Numbered(p, forced)
<1>1. stream[p] \in Streams /\ nextSid[p] \in Nat
      /\ (stream[p].id = None => stream[p].ws = 0 /\ stream[p].rs = 0 /\ stream[p].sem = 0)
  BY DEF StreamsType, Streams
<1>2. CASE stream[p].id = None
  <2> DEFINE id == IF forced = None THEN nextSid[p] ELSE forced
             sem == stream[p].sem + 1
             s == [NoStream EXCEPT !.id = id, !.ws = ws, !.rs = rs, !.sem = sem]
  <2>1. id \in Ids /\ id # None /\ sem = 1
    BY <1>1, <1>2, StreamAssumption DEF Ids
  <2>2. stream' = [stream EXCEPT ![p] = s] /\ nextSid' = [nextSid EXCEPT ![p] = @ + 1]
    BY <1>2 DEF Allocate
  <2>3. nextSid' \in [Peers -> Nat]
    BY <1>1, <2>2 DEF StreamsType
  <2> HIDE DEF id, sem
  <2>4. /\ s \in Streams
        /\ s.id = id /\ s.ws = ws /\ s.rs = rs /\ s.sem = sem
        /\ s.rfill = 0 /\ s.rpkts = 0 /\ s.lfill = 0
    <3>1. PICK n \in Streams : n = NoStream
      BY NoStreamType
    <3>2. n.rfill = 0 /\ n.rpkts = 0 /\ n.lfill = 0
      BY <3>1, NoStreamType
    <3>3. s = [n EXCEPT !.id = id, !.ws = ws, !.rs = rs, !.sem = sem]
      BY <3>1
    <3>4. QED
      BY <2>1, <3>2, <3>3 DEF Streams
  <2> HIDE DEF s
  <2>5. /\ StreamsType'
        /\ stream'[p] = s /\ \A r \in Peers : r # p => stream'[r] = stream[r]
    BY <2>1, <2>2, <2>3, <2>4, StreamChange
  <2>6. QED
    BY <1>2, <2>1, <2>2, <2>4, <2>5 DEF Created, Numbered, id
<1>3. CASE stream[p].id # None
  <2> DEFINE s == stream[p]
             small == (s.ws # 0 /\ ws > s.ws) \/ (s.rs # 0 /\ rs > s.rs)
             kept == [s EXCEPT !.sem = 0]
             old == [s EXCEPT !.rs = IF @ = 0 THEN rs ELSE @, !.ws = IF @ = 0 THEN ws ELSE @]
  <2>1. /\ s.sem = 1
        /\ stream' = [stream EXCEPT ![p] = IF small THEN kept ELSE old]
        /\ nextSid' = nextSid
    BY <1>3 DEF Allocate
  <2>2. nextSid' \in [Peers -> Nat]
    BY <2>1 DEF StreamsType
  <2>3. CASE small
    <3>1. /\ kept \in Streams /\ kept.id = s.id /\ kept.sem = 0 /\ kept.ws = s.ws /\ kept.rs = s.rs
          /\ kept.rfill = s.rfill /\ kept.rpkts = s.rpkts /\ kept.lfill = s.lfill
      BY <1>1 DEF Streams
    <3>2. stream' = [stream EXCEPT ![p] = kept]
      BY <2>1, <2>3
    <3> HIDE DEF kept, small
    <3>3. /\ StreamsType'
          /\ stream'[p] = kept /\ \A r \in Peers : r # p => stream'[r] = stream[r]
      BY <1>3, <2>2, <3>1, <3>2, StreamChange
    <3>4. QED
      BY <1>3, <2>1, <2>3, <3>1, <3>3 DEF Kept, SameLevels, Numbered, small
  <2>4. CASE ~small
    <3>1. /\ old \in Streams /\ old.id = s.id /\ old.sem = s.sem
          /\ old.ws = (IF s.ws = 0 THEN ws ELSE s.ws) /\ old.rs = (IF s.rs = 0 THEN rs ELSE s.rs)
          /\ old.rfill = s.rfill /\ old.rpkts = s.rpkts /\ old.lfill = s.lfill
      BY <1>1 DEF Streams
    <3>2. stream' = [stream EXCEPT ![p] = old]
      BY <2>1, <2>4
    <3> HIDE DEF old, small
    <3>3. /\ StreamsType'
          /\ stream'[p] = old /\ \A r \in Peers : r # p => stream'[r] = stream[r]
      BY <1>3, <2>2, <3>1, <3>2, StreamChange
    <3>4. QED
      BY <1>3, <2>1, <3>1, <3>3 DEF Extended, SameLevels, Numbered
  <2>5. QED
    BY <2>3, <2>4
<1>4. QED
  BY <1>2, <1>3
\* A step that changes levels only.
SameEnds(p) ==
  /\ stream'[p].id = stream[p].id /\ stream'[p].sem = stream[p].sem
  /\ stream'[p].ws = stream[p].ws /\ stream'[p].rs = stream[p].rs
Levels(p, rfill, rpkts, lfill) ==
  /\ SameEnds(p)
  /\ stream'[p].rfill = rfill /\ stream'[p].rpkts = rpkts /\ stream'[p].lfill = lfill

LEMMA LevelsChange ==
  ASSUME StreamsType, NEW p \in Peers, nextSid' = nextSid, NEW n \in Nat
  PROVE  /\ stream' = [stream EXCEPT ![p].rfill = @ + n, ![p].rpkts = @ + 1] =>
              /\ StreamsType' /\ \A r \in Peers : r # p => stream'[r] = stream[r]
              /\ Levels(p, stream[p].rfill + n, stream[p].rpkts + 1, stream[p].lfill)
         /\ stream' = [stream EXCEPT ![p].rfill = @ - n, ![p].rpkts = @ - 1] =>
              /\ StreamsType' /\ \A r \in Peers : r # p => stream'[r] = stream[r]
              /\ Levels(p, stream[p].rfill - n, stream[p].rpkts - 1, stream[p].lfill)
         /\ stream' = [stream EXCEPT ![p].lfill = @ + n] =>
              /\ StreamsType' /\ \A r \in Peers : r # p => stream'[r] = stream[r]
              /\ Levels(p, stream[p].rfill, stream[p].rpkts, stream[p].lfill + n)
         /\ stream' = [stream EXCEPT ![p].lfill = @ - n] =>
              /\ StreamsType' /\ \A r \in Peers : r # p => stream'[r] = stream[r]
              /\ Levels(p, stream[p].rfill, stream[p].rpkts, stream[p].lfill - n)
         /\ stream' = [stream EXCEPT ![p].closing = TRUE] \/ stream' = stream =>
              /\ StreamsType' /\ \A r \in Peers : r # p => stream'[r] = stream[r]
              /\ Levels(p, stream[p].rfill, stream[p].rpkts, stream[p].lfill)
<1>1. stream \in [Peers -> Streams] /\ stream[p] \in Streams /\ nextSid' \in [Peers -> Nat]
      /\ (stream[p].id = None => stream[p].ws = 0 /\ stream[p].rs = 0 /\ stream[p].sem = 0)
  BY DEF StreamsType, Streams
<1>2. ASSUME NEW s \in Streams, stream' = [stream EXCEPT ![p] = s],
             s.id = stream[p].id, s.sem = stream[p].sem, s.ws = stream[p].ws,
             s.rs = stream[p].rs
      PROVE  /\ StreamsType' /\ \A r \in Peers : r # p => stream'[r] = stream[r]
             /\ Levels(p, s.rfill, s.rpkts, s.lfill)
  <2>1. /\ StreamsType'
        /\ stream'[p] = s /\ \A r \in Peers : r # p => stream'[r] = stream[r]
    BY <1>1, <1>2, StreamChange
  <2>2. QED
    BY <1>2, <2>1 DEF Levels, SameEnds
<1>3. ASSUME stream' = [stream EXCEPT ![p].rfill = @ + n, ![p].rpkts = @ + 1]
      PROVE  /\ StreamsType' /\ \A r \in Peers : r # p => stream'[r] = stream[r]
             /\ Levels(p, stream[p].rfill + n, stream[p].rpkts + 1, stream[p].lfill)
  <2> DEFINE a == stream[p].rfill + n
             b == stream[p].rpkts + 1
             s == [stream[p] EXCEPT !.rfill = a, !.rpkts = b]
  <2>0. a \in Int /\ b \in Int /\ stream' = [stream EXCEPT ![p] = s]
    BY <1>1, <1>3 DEF Streams
  <2> HIDE DEF a, b
  <2>1. /\ s \in Streams /\ s.id = stream[p].id /\ s.sem = stream[p].sem /\ s.ws = stream[p].ws
        /\ s.rs = stream[p].rs /\ s.rfill = a /\ s.rpkts = b /\ s.lfill = stream[p].lfill
    BY <1>1, <2>0 DEF Streams
  <2> HIDE DEF s
  <2>2. QED
    BY <1>2, <2>0, <2>1 DEF a, b
<1>4. ASSUME stream' = [stream EXCEPT ![p].rfill = @ - n, ![p].rpkts = @ - 1]
      PROVE  /\ StreamsType' /\ \A r \in Peers : r # p => stream'[r] = stream[r]
             /\ Levels(p, stream[p].rfill - n, stream[p].rpkts - 1, stream[p].lfill)
  <2> DEFINE a == stream[p].rfill - n
             b == stream[p].rpkts - 1
             s == [stream[p] EXCEPT !.rfill = a, !.rpkts = b]
  <2>0. a \in Int /\ b \in Int /\ stream' = [stream EXCEPT ![p] = s]
    BY <1>1, <1>4 DEF Streams
  <2> HIDE DEF a, b
  <2>1. /\ s \in Streams /\ s.id = stream[p].id /\ s.sem = stream[p].sem /\ s.ws = stream[p].ws
        /\ s.rs = stream[p].rs /\ s.rfill = a /\ s.rpkts = b /\ s.lfill = stream[p].lfill
    BY <1>1, <2>0 DEF Streams
  <2> HIDE DEF s
  <2>2. QED
    BY <1>2, <2>0, <2>1 DEF a, b
<1>5. ASSUME stream' = [stream EXCEPT ![p].lfill = @ + n]
      PROVE  /\ StreamsType' /\ \A r \in Peers : r # p => stream'[r] = stream[r]
             /\ Levels(p, stream[p].rfill, stream[p].rpkts, stream[p].lfill + n)
  <2> DEFINE s == [stream[p] EXCEPT !.lfill = @ + n]
  <2>1. /\ s \in Streams /\ s.id = stream[p].id /\ s.sem = stream[p].sem /\ s.ws = stream[p].ws
        /\ s.rs = stream[p].rs /\ s.rfill = stream[p].rfill
        /\ s.rpkts = stream[p].rpkts /\ s.lfill = stream[p].lfill + n
    BY <1>1 DEF Streams
  <2>2. stream' = [stream EXCEPT ![p] = s]
    BY <1>1, <1>5
  <2> HIDE DEF s
  <2>3. QED
    BY <1>2, <2>1, <2>2
<1>6. ASSUME stream' = [stream EXCEPT ![p].lfill = @ - n]
      PROVE  /\ StreamsType' /\ \A r \in Peers : r # p => stream'[r] = stream[r]
             /\ Levels(p, stream[p].rfill, stream[p].rpkts, stream[p].lfill - n)
  <2> DEFINE s == [stream[p] EXCEPT !.lfill = @ - n]
  <2>1. /\ s \in Streams /\ s.id = stream[p].id /\ s.sem = stream[p].sem /\ s.ws = stream[p].ws
        /\ s.rs = stream[p].rs /\ s.rfill = stream[p].rfill
        /\ s.rpkts = stream[p].rpkts /\ s.lfill = stream[p].lfill - n
    BY <1>1 DEF Streams
  <2>2. stream' = [stream EXCEPT ![p] = s]
    BY <1>1, <1>6
  <2> HIDE DEF s
  <2>3. QED
    BY <1>2, <2>1, <2>2
<1>7. ASSUME stream' = [stream EXCEPT ![p].closing = TRUE]
      PROVE  /\ StreamsType' /\ \A r \in Peers : r # p => stream'[r] = stream[r]
             /\ Levels(p, stream[p].rfill, stream[p].rpkts, stream[p].lfill)
  <2> DEFINE s == [stream[p] EXCEPT !.closing = TRUE]
  <2>1. /\ s \in Streams /\ s.id = stream[p].id /\ s.sem = stream[p].sem /\ s.ws = stream[p].ws
        /\ s.rs = stream[p].rs /\ s.rfill = stream[p].rfill
        /\ s.rpkts = stream[p].rpkts /\ s.lfill = stream[p].lfill
    BY <1>1 DEF Streams
  <2>2. stream' = [stream EXCEPT ![p] = s]
    BY <1>1, <1>7
  <2> HIDE DEF s
  <2>3. QED
    BY <1>2, <2>1, <2>2
<1>8. ASSUME stream' = stream
      PROVE  /\ StreamsType' /\ \A r \in Peers : r # p => stream'[r] = stream[r]
             /\ Levels(p, stream[p].rfill, stream[p].rpkts, stream[p].lfill)
  BY <1>8 DEF StreamsType, Levels, SameEnds
<1>9. QED
  BY <1>3, <1>4, <1>5, <1>6, <1>7, <1>8

\* What a close does to the reading end, and its response to the writing end.
ClosedIn(p) ==
  /\ stream[p].sem = 1 /\ stream[p].lfill = 0 /\ SameLevels(p)
  /\ stream'[p].rs = 0 /\ stream'[p].ws = stream[p].ws
  /\ \/ stream[p].ws = 0 /\ stream'[p].id = None /\ stream'[p].sem = 0
     \/ stream[p].ws # 0 /\ stream'[p].id = stream[p].id /\ stream'[p].sem = 1
ClosedOut(p, id) ==
  /\ stream[p].sem = 1 /\ stream[p].id = id /\ SameLevels(p)
  /\ stream'[p].ws = 0 /\ stream'[p].rs = stream[p].rs
  /\ \/ stream[p].rs = 0 /\ stream'[p].id = None /\ stream'[p].sem = 0
     \/ stream[p].rs # 0 /\ stream'[p].id = stream[p].id /\ stream'[p].sem = 1

LEMMA CloseInDoes ==
  ASSUME StreamsType, NEW p \in Peers, NEW id, Locks(p, id), nextSid' = nextSid,
         stream[p].lfill = 0,
         LET s == stream[p]
             freed == IF s.rs # 0 THEN [s EXCEPT !.rs = 0, !.closing = FALSE] ELSE s
             gone == [freed EXCEPT !.id = None, !.sem = 0]
         IN  stream' = [stream EXCEPT ![p] = IF s.ws = 0 THEN gone ELSE freed]
  PROVE  /\ StreamsType' /\ \A r \in Peers : r # p => stream'[r] = stream[r]
         /\ ClosedIn(p)
<1> DEFINE s == stream[p]
           freed == IF s.rs # 0 THEN [s EXCEPT !.rs = 0, !.closing = FALSE] ELSE s
           gone == [freed EXCEPT !.id = None, !.sem = 0]
<1>1. s \in Streams /\ nextSid' \in [Peers -> Nat] /\ s.sem = 1 /\ s.id = id /\ id # None
  BY DEF StreamsType, Streams, Locks
<1>2. /\ freed \in Streams /\ freed.rs = 0 /\ freed.ws = s.ws /\ freed.id = s.id /\ freed.sem = 1
      /\ freed.rfill = s.rfill /\ freed.rpkts = s.rpkts /\ freed.lfill = s.lfill
  <2>1. CASE s.rs # 0
    <3> DEFINE f == [s EXCEPT !.rs = 0, !.closing = FALSE]
    <3>1. /\ f \in Streams /\ f.rs = 0 /\ f.ws = s.ws /\ f.id = s.id /\ f.sem = 1
          /\ f.rfill = s.rfill /\ f.rpkts = s.rpkts /\ f.lfill = s.lfill
      BY <1>1 DEF Streams
    <3>2. freed = f
      BY <2>1
    <3>3. QED
      BY <3>1, <3>2
  <2>2. CASE s.rs = 0
    BY <1>1, <2>2
  <2>3. QED
    BY <2>1, <2>2
<1> HIDE DEF freed
<1>3. /\ gone \in Streams /\ gone.rs = 0 /\ gone.ws = s.ws /\ gone.id = None /\ gone.sem = 0
      /\ gone.rfill = s.rfill /\ gone.rpkts = s.rpkts /\ gone.lfill = s.lfill
  BY <1>2 DEF Streams, Ids
<1> DEFINE new == IF s.ws = 0 THEN gone ELSE freed
<1>4. stream' = [stream EXCEPT ![p] = new]
  BY DEF freed
<1> HIDE DEF gone
<1>5. new \in Streams /\ (new.id = None => new.ws = 0 /\ new.rs = 0 /\ new.sem = 0)
  BY <1>1, <1>2, <1>3
<1> HIDE DEF new
<1>6. /\ StreamsType'
      /\ stream'[p] = new /\ \A r \in Peers : r # p => stream'[r] = stream[r]
  BY <1>1, <1>4, <1>5, StreamChange
<1>7. QED
  BY <1>1, <1>2, <1>3, <1>6 DEF new, ClosedIn, SameLevels

LEMMA CloseOutDoes ==
  ASSUME StreamsType, NEW p \in Peers, NEW id, Locks(p, id), nextSid' = nextSid,
         LET s == [stream[p] EXCEPT !.ws = 0]
         IN  stream' = [stream EXCEPT ![p] =
                          IF s.rs = 0 THEN [s EXCEPT !.id = None, !.sem = 0] ELSE s]
  PROVE  /\ StreamsType' /\ \A r \in Peers : r # p => stream'[r] = stream[r]
         /\ ClosedOut(p, id)
<1> DEFINE o == stream[p]
           s == [o EXCEPT !.ws = 0]
           gone == [s EXCEPT !.id = None, !.sem = 0]
<1>1. o \in Streams /\ nextSid' \in [Peers -> Nat] /\ o.sem = 1 /\ o.id = id /\ id # None
  BY DEF StreamsType, Streams, Locks
<1>2. /\ s \in Streams /\ s.rs = o.rs /\ s.ws = 0 /\ s.id = o.id /\ s.sem = 1
      /\ s.rfill = o.rfill /\ s.rpkts = o.rpkts /\ s.lfill = o.lfill
  BY <1>1 DEF Streams
<1> HIDE DEF s
<1>3. /\ gone \in Streams /\ gone.rs = s.rs /\ gone.ws = 0 /\ gone.id = None /\ gone.sem = 0
      /\ gone.rfill = s.rfill /\ gone.rpkts = s.rpkts /\ gone.lfill = s.lfill
  BY <1>2 DEF Streams, Ids
<1> DEFINE new == IF s.rs = 0 THEN gone ELSE s
<1>4. stream' = [stream EXCEPT ![p] = new]
  BY DEF s
<1> HIDE DEF gone
<1>5. new \in Streams /\ (new.id = None => new.ws = 0 /\ new.rs = 0 /\ new.sem = 0)
  BY <1>1, <1>2, <1>3
<1> HIDE DEF new
<1>6. /\ StreamsType'
      /\ stream'[p] = new /\ \A r \in Peers : r # p => stream'[r] = stream[r]
  BY <1>1, <1>4, <1>5, StreamChange, ZenonT(30)
<1>7. QED
  BY <1>1, <1>2, <1>3, <1>6 DEF new, ClosedOut, SameLevels
\* What each message of the peer does.
Stays(p) ==
  /\ nextSid' = nextSid
  /\ \A r \in Peers : r # p => stream'[r] = stream[r]
  /\ Levels(p, stream[p].rfill, stream[p].rpkts, stream[p].lfill)
AnsweredWrite(p, a) == Answers(p, a) /\ a.op = "WRITE" /\ Stays(p)
AnsweredRelease(p, a) ==
  /\ Answers(p, a) /\ a.op = "REL" /\ nextSid' = nextSid
  /\ \A r \in Peers : r # p => stream'[r] = stream[r]
  /\ Levels(p, stream[p].rfill - a.size, stream[p].rpkts - 1, stream[p].lfill)
AnsweredOpen(p, a) ==
  /\ Answers(p, a) /\ a.op = "OPEN" /\ (stream'[p].sem = 1 => a.id = stream'[p].id)
  /\ \A r \in Peers : r # p => stream'[r] = stream[r]
  /\ Created(p, 0, a.size) \/ Kept(p, 0, a.size) \/ Extended(p, 0, a.size)
  /\ Numbered(p, None)
AnsweredClose(p, a) ==
  /\ Answers(p, a) /\ a.op = "CLOSE" /\ a.id = Head(inq[p]).id /\ nextSid' = nextSid
  /\ \A r \in Peers : r # p => stream'[r] = stream[r]
  /\ \/ /\ NotFound(p, a.id) \/ stream[p].lfill # 0
        /\ Levels(p, stream[p].rfill, stream[p].rpkts, stream[p].lfill)
     \/ ClosedIn(p)
TakenData(p) == Takes(p) /\ Head(inq[p]).op \in {"WRITE", "REL"} /\ Stays(p)
TakenOpen(p) ==
  LET h == Head(inq[p]) IN
  /\ Takes(p) /\ h.op = "OPEN"
  /\ \A r \in Peers : r # p => stream'[r] = stream[r]
  /\ Created(p, h.size, 0) \/ Kept(p, h.size, 0) \/ Extended(p, h.size, 0)
  /\ Numbered(p, h.id)
TakenClose(p) ==
  LET h == Head(inq[p]) IN
  /\ Takes(p) /\ h.op = "CLOSE" /\ nextSid' = nextSid
  /\ \A r \in Peers : r # p => stream'[r] = stream[r]
  /\ \/ NotFound(p, h.id) /\ Levels(p, stream[p].rfill, stream[p].rpkts, stream[p].lfill)
     \/ ClosedOut(p, h.id)

LEMMA IncomingMessage ==
  ASSUME Types, NEW p \in Peers, NEW kind, NEW op, Incoming(p, kind, op)
  PROVE  /\ inq[p] # << >> /\ inq' = [inq EXCEPT ![p] = Tail(@)]
         /\ Head(inq[p]) \in Letters /\ Head(inq[p]).kind = kind /\ Head(inq[p]).op = op
         /\ UNCHANGED <<avail, held, queue, rd, app>>
BY TakenType DEF Incoming, Types

LEMMA RespondAnswers ==
  ASSUME Types, NEW p \in Peers, NEW op \in AllOps, Incoming(p, "req", op), NEW m,
         m = Head(inq[p]), Respond(p, m), Wakes, UNCHANGED fault
  PROVE  \E a : Answers(p, a) /\ a.op = op /\ a.size = m.size /\ a.id = m.id
<1> DEFINE a == [m EXCEPT !.kind = "resp"]
<1>1. /\ inq[p] # << >> /\ inq' = [inq EXCEPT ![p] = Tail(@)]
      /\ m \in Letters /\ m.kind = "req" /\ m.op = op
      /\ UNCHANGED <<avail, held, queue, rd, app>>
  BY IncomingMessage
<1>2. a \in Letters /\ a.kind = "resp" /\ a.t = m.t /\ a.op = op /\ a.size = m.size
      /\ a.id = m.id
  BY <1>1 DEF Letters, Messages
<1>3. wire' = [wire EXCEPT ![p] = Append(@, a)]
  BY DEF Respond
<1> HIDE DEF a
<1>4. Answers(p, a)
  BY <1>1, <1>2, <1>3 DEF Answers
<1>5. QED
  BY <1>2, <1>4

LEMMA ThreadsWake ==
  ASSUME Types, thr' = thr
  PROVE  Wakes
BY DEF Types, ThreadsType, Wakes

LEMMA DoneTakes ==
  ASSUME Types, NEW p \in Peers, NEW op \in AllOps, Incoming(p, "resp", op), ResponseDone(p)
  PROVE  Takes(p) /\ Head(inq[p]).op = op
<1>1. /\ inq[p] # << >> /\ inq' = [inq EXCEPT ![p] = Tail(@)]
      /\ Head(inq[p]) \in Letters /\ Head(inq[p]).kind = "resp" /\ Head(inq[p]).op = op
      /\ UNCHANGED <<avail, held, queue, rd, app>>
  BY IncomingMessage
<1>2. thr' = [thr EXCEPT ![p][Head(inq[p]).t] = IdleThread] /\ UNCHANGED <<wire, fault>>
  BY DEF ResponseDone, Done
<1>3. IdleThread \in Requesters /\ IdleThread.pc = "idle"
  BY DEF IdleThread, Requesters, Asking, AllOps, Ids
<1>4. QED
  BY <1>1, <1>2, <1>3 DEF Takes

LEMMA LookupTakes ==
  ASSUME Types, Requesting, NEW p \in Peers, Incoming(p, "resp", "OPEN"),
         thr' = [thr EXCEPT ![p][Head(inq[p]).t].pc = "lookup"], UNCHANGED <<wire, fault>>
  PROVE  Takes(p) /\ Head(inq[p]).op = "OPEN"
<1> DEFINE h == Head(inq[p])
           q == Other(p)
<1>1. /\ inq[p] # << >> /\ inq' = [inq EXCEPT ![p] = Tail(@)]
      /\ h \in Letters /\ h.kind = "resp" /\ h.op = "OPEN"
      /\ UNCHANGED <<avail, held, queue, rd, app>>
  BY IncomingMessage
<1>2. h.t \in Threads /\ thr[p][h.t] \in Requesters
  BY <1>1 DEF Letters, Messages, Types, ThreadsType
<1>3. h \in Answered(p)
  <2>1. q \in Peers /\ inq[p] \in Seq(Letters) /\ wire[q] \in Seq(Letters)
    BY TwoPeers DEF Types, WireType
  <2>2. Line(q) = inq[p] \o wire[q] /\ Answered(p) = Msgs(Line(q), "resp")
    BY TwoPeers DEF Line, Answered
  <2>3. PICK s \in Seq(Letters), r \in Seq(Letters) : s = inq[p] /\ r = wire[q] /\ s # << >>
    BY <1>1, <2>1
  <2>4. s \o r \in Seq(Letters) /\ s \o r # << >> /\ Head(s \o r) = Head(s)
    <3>1. s # << >>
      BY <2>3
    <3>2. QED
      BY <3>1, ConcatTail
  <2>5. Msgs(s \o r, "resp") = Msgs(Tail(s \o r), "resp") \cup {Head(s \o r)}
    <3>1. Head(s \o r).kind = "resp"
      BY <1>1, <2>3, <2>4
    <3>2. PICK l \in Seq(Letters) : l = s \o r /\ l # << >> /\ Head(l).kind = "resp"
      BY <2>4, <3>1
    <3>3. Msgs(l, "resp") = Msgs(Tail(l), "resp") \cup {Head(l)}
      BY <3>2, TailMsgs
    <3>4. QED
      BY <3>2, <3>3
  <2>6. QED
    BY <2>2, <2>3, <2>4, <2>5
<1>4. thr[p][h.t].op = "OPEN" /\ thr[p][h.t].pc = "pending"
  BY <1>1, <1>3 DEF Requesting, Corresponding, Matched, WaitsFor
<1> DEFINE r == [thr[p][h.t] EXCEPT !.pc = "lookup"]
<1>5. r \in Requesters /\ r.pc = "lookup"
  BY <1>2, <1>4 DEF Requesters, Asking
<1>6. thr' = [thr EXCEPT ![p][h.t] = r]
  BY DEF Types, ThreadsType
<1> HIDE DEF r
<1>7. QED
  BY <1>1, <1>5, <1>6 DEF Takes

LEMMA RemoteEffects ==
  ASSUME Types, Requesting, NEW p \in Peers, RemoteEvent(p)
  PROVE  \/ StreamsType' /\ \E a : \/ AnsweredWrite(p, a) \/ AnsweredRelease(p, a)
                                   \/ AnsweredOpen(p, a) \/ AnsweredClose(p, a)
         \/ RemoteReleaseNotFound(p)
         \/ StreamsType' /\ (TakenData(p) \/ TakenOpen(p) \/ TakenClose(p))
<1> DEFINE h == Head(inq[p])
<1>0. ThreadsType /\ StreamsType
  BY DEF Types
<1>1. CASE RemoteWrite(p)
  <2>1. PICK a : Answers(p, a) /\ a.op = "WRITE"
    <3>1. Wakes /\ Incoming(p, "req", "WRITE") /\ Respond(p, h) /\ UNCHANGED fault
      BY <1>0, <1>1, UnblockWakes DEF RemoteWrite
    <3>2. QED
      BY <3>1, RespondAnswers DEF AllOps
  <2>2. StreamsType' /\ Stays(p)
    BY <1>0, <1>1, LevelsChange DEF RemoteWrite, Stays
  <2>3. QED
    BY <2>1, <2>2 DEF AnsweredWrite
<1>2. CASE RemoteRelease(p)
  <2>1. PICK a : Answers(p, a) /\ a.op = "REL" /\ a.size = h.size
    <3>1. Wakes /\ Incoming(p, "req", "REL") /\ Respond(p, h) /\ UNCHANGED fault
      BY <1>0, <1>2, UnblockWakes DEF RemoteRelease
    <3>2. QED
      BY <3>1, RespondAnswers DEF AllOps
  <2>2. h.size \in Nat
    BY <2>1 DEF Answers, Letters, Messages
  <2>3. /\ StreamsType' /\ \A r \in Peers : r # p => stream'[r] = stream[r]
        /\ Levels(p, stream[p].rfill - h.size, stream[p].rpkts - 1, stream[p].lfill)
        /\ nextSid' = nextSid
    BY <1>0, <1>2, <2>2, LevelsChange DEF RemoteRelease
  <2>4. QED
    BY <2>1, <2>3 DEF AnsweredRelease
<1>3. CASE RemoteCreate(p)
  <2>1. /\ inq[p] # << >> /\ inq' = [inq EXCEPT ![p] = Tail(@)]
        /\ h \in Letters /\ h.kind = "req" /\ h.op = "OPEN"
        /\ UNCHANGED <<avail, held, queue, rd, app>>
    BY <1>3, IncomingMessage DEF RemoteCreate
  <2>2. h.size \in Nat /\ None \in Ids
    BY <2>1 DEF Letters, Messages, Ids
  <2>3. /\ StreamsType' /\ \A r \in Peers : r # p => stream'[r] = stream[r]
        /\ Created(p, 0, h.size) \/ Kept(p, 0, h.size) \/ Extended(p, 0, h.size)
        /\ Numbered(p, None)
    BY <1>0, <1>3, <2>2, AllocateDoes DEF RemoteCreate
  <2>4. AllocatedId(p) \in Ids
    BY <2>3 DEF AllocatedId, StreamsType, Ids
  <2> DEFINE n == [h EXCEPT !.id = AllocatedId(p)]
             a == [n EXCEPT !.kind = "resp"]
  <2>5. a \in Letters /\ a.kind = "resp" /\ a.t = h.t /\ a.op = h.op /\ a.size = h.size
       /\ a.id = AllocatedId(p)
    <3>1. n \in Letters /\ n.t = h.t /\ n.op = h.op /\ n.size = h.size /\ n.id = AllocatedId(p)
      BY <2>1, <2>4 DEF Letters, Messages
    <3> HIDE DEF n
    <3>2. QED
      BY <3>1 DEF Letters, Messages
  <2>6. wire' = [wire EXCEPT ![p] = Append(@, a)] /\ UNCHANGED <<thr, fault>>
    BY <1>3 DEF RemoteCreate, Respond
  <2> HIDE DEF a, n
  <2>7. Answers(p, a)
    BY <2>1, <2>5, <2>6, ThreadsWake DEF Answers
  <2>8. QED
    BY <2>1, <2>3, <2>5, <2>7 DEF AnsweredOpen, AllocatedId
<1>4. CASE RemoteClose(p)
  <2>1. PICK a : Answers(p, a) /\ a.op = "CLOSE" /\ a.id = h.id
    <3>1. Wakes /\ Incoming(p, "req", "CLOSE") /\ Respond(p, h) /\ UNCHANGED fault
      BY <1>4, ThreadsWake DEF RemoteClose
    <3>2. QED
      BY <3>1, RespondAnswers DEF AllOps
  <2>2. CASE /\ NotFound(p, h.id) \/ stream[p].lfill # 0
             /\ stream' = stream \/ stream' = [stream EXCEPT ![p].closing = TRUE]
    <3>1. /\ StreamsType' /\ \A r \in Peers : r # p => stream'[r] = stream[r]
          /\ Levels(p, stream[p].rfill, stream[p].rpkts, stream[p].lfill)
      BY <1>0, <1>4, <2>2, LevelsChange DEF RemoteClose
    <3>2. nextSid' = nextSid
      BY <1>4 DEF RemoteClose
    <3>3. QED
      BY <2>1, <2>2, <3>1, <3>2 DEF AnsweredClose
  <2>3. CASE Locks(p, h.id) /\ stream[p].lfill = 0
    <3>1. LET s == stream[p]
             freed == IF s.rs # 0 THEN [s EXCEPT !.rs = 0, !.closing = FALSE] ELSE s
             gone == [freed EXCEPT !.id = None, !.sem = 0]
         IN  stream' = [stream EXCEPT ![p] = IF s.ws = 0 THEN gone ELSE freed]
      BY <1>4, <2>3 DEF RemoteClose, Locks, NotFound
    <3>2. nextSid' = nextSid
      BY <1>4 DEF RemoteClose
    <3>3. /\ StreamsType' /\ \A r \in Peers : r # p => stream'[r] = stream[r]
          /\ ClosedIn(p)
      BY <1>0, <2>3, <3>1, <3>2, CloseInDoes
    <3>4. QED
      BY <2>1, <3>2, <3>3 DEF AnsweredClose
  <2>4. QED
    <3>1. \/ NotFound(p, h.id) /\ stream' = stream
          \/ Locks(p, h.id) /\ (stream[p].lfill # 0 =>
                                 stream' = [stream EXCEPT ![p].closing = TRUE])
      BY <1>4 DEF RemoteClose
    <3>2. QED
      BY <2>2, <2>3, <3>1
<1>5. CASE Response(p)
  <2>1. PICK op \in {"WRITE", "REL"} : Incoming(p, "resp", op) /\ ResponseDone(p)
    BY <1>5 DEF Response
  <2>2. Takes(p) /\ h.op = op
    BY <2>1, DoneTakes DEF AllOps
  <2>3. StreamsType' /\ Stays(p)
    BY <1>0, <1>5, LevelsChange DEF Response, Stays
  <2>4. QED
    BY <2>2, <2>3 DEF TakenData
<1>6. CASE ResponseCreate(p)
  <2>1. Takes(p) /\ h.op = "OPEN"
    BY <1>6, LookupTakes DEF ResponseCreate
  <2>2. h.size \in Nat /\ h.id \in Ids
    BY <2>1 DEF Takes, Letters, Messages
  <2>3. /\ StreamsType' /\ \A r \in Peers : r # p => stream'[r] = stream[r]
        /\ Created(p, h.size, 0) \/ Kept(p, h.size, 0) \/ Extended(p, h.size, 0)
        /\ Numbered(p, h.id)
    BY <1>0, <1>6, <2>2, AllocateDoes DEF ResponseCreate
  <2>4. QED
    BY <2>1, <2>3 DEF TakenOpen
<1>7. CASE ResponseClose(p)
  <2>1. Takes(p) /\ h.op = "CLOSE"
    BY <1>7, DoneTakes DEF ResponseClose, AllOps
  <2>2. CASE NotFound(p, h.id) /\ UNCHANGED stream
    <3>1. StreamsType' /\ Stays(p)
      BY <1>0, <1>7, <2>2, LevelsChange DEF ResponseClose, Stays
    <3>2. QED
      BY <2>1, <2>2, <3>1 DEF TakenClose, Stays
  <2>3. CASE Locks(p, h.id)
             /\ LET s == [stream[p] EXCEPT !.ws = 0]
                IN  stream' = [stream EXCEPT ![p] =
                          IF s.rs = 0 THEN [s EXCEPT !.id = None, !.sem = 0] ELSE s]
    <3>1. nextSid' = nextSid
      BY <1>7 DEF ResponseClose
    <3>2. /\ StreamsType' /\ \A r \in Peers : r # p => stream'[r] = stream[r]
          /\ ClosedOut(p, h.id)
      BY <1>0, <2>3, <3>1, CloseOutDoes
    <3>3. QED
      BY <2>1, <3>1, <3>2 DEF TakenClose
  <2>4. QED
    BY <1>7, <2>2, <2>3 DEF ResponseClose
<1>8. QED
  BY <1>1, <1>2, <1>3, <1>4, <1>5, <1>6, <1>7 DEF RemoteEvent
-----------------------------------------------------------------------------
(* Steps of the reader.                                                      *)

\* The reader finds no stream, or the stream whose semaphore it waits for; it queues a
\* message; it stores the data of a write.
Looks(p) == WireType' /\ UNCHANGED <<data, thr, queue, app, wire, inq>>
Moves(p) ==
  LET m == Head(wire[Other(p)]) IN
  /\ WireType' /\ wire[Other(p)] # << >> /\ Queues(p, m) /\ ~Is(m, "WRITE")
  /\ UNCHANGED <<data, thr, queue, app, fault>>
Stores(p) ==
  LET m == Head(wire[Other(p)]) IN
  /\ WireType' /\ wire[Other(p)] # << >> /\ Queues(p, m) /\ Is(m, "WRITE")
  /\ fault = "none" /\ stream[p].sem = 1 /\ nextSid' = nextSid
  /\ \A r \in Peers : r # p => stream'[r] = stream[r]
  /\ Levels(p, stream[p].rfill, stream[p].rpkts, stream[p].lfill + m.size)
  /\ avail' = [avail EXCEPT ![p] =
       IF Len(avail[p]) + Len(held[p]) < MaxPackets THEN Append(@, m.size) ELSE @]
  /\ UNCHANGED <<held, nextSid, thr, queue, app, fault>>

LEMMA QueuesType ==
  ASSUME WireType, NEW p \in Peers, wire[Other(p)] # << >>, Queues(p, Head(wire[Other(p)])),
         rd' = rd \/ rd' = [rd EXCEPT ![p] = "read"], rd'[p] = "read"
  PROVE  WireType'
<1> DEFINE q == Other(p)
<1>1. q \in Peers /\ q # p /\ Other(q) = p /\ \A r \in Peers : r = p \/ r = q
  BY TwoPeers
<1>2. wire[q] \in Seq(Letters) /\ wire[q] # << >> /\ inq[p] \in Seq(Letters)
  BY <1>1 DEF WireType
<1>3. Head(wire[q]) \in Letters /\ Tail(wire[q]) \in Seq(Letters)
      /\ Append(inq[p], Head(wire[q])) \in Seq(Letters)
  BY <1>2
<1>4. wire' \in [Peers -> Seq(Letters)] /\ inq' \in [Peers -> Seq(Letters)]
      /\ wire'[p] = wire[p]
  BY <1>1, <1>3 DEF Queues, WireType
<1>5. rd' \in [Peers -> {"read", "locking"}] /\ rd'[q] = rd[q]
  BY <1>1 DEF WireType
<1> HIDE DEF q
<1>6. ASSUME NEW r \in Peers, rd'[r] = "locking"
      PROVE  /\ wire'[Other(r)] # << >>
             /\ Head(wire'[Other(r)]).kind = "req" /\ Head(wire'[Other(r)]).op = "WRITE"
  <2>1. r = q
    BY <1>1, <1>6
  <2>2. QED
    BY <1>1, <1>4, <1>5, <1>6, <2>1 DEF WireType
<1>7. QED
  BY <1>4, <1>5, <1>6 DEF WireType

LEMMA ReaderEffects ==
  ASSUME Types, NEW p \in Peers, Reader(p)
  PROVE  Looks(p) \/ Moves(p) \/ (StreamsType' /\ PacketsType' /\ Stores(p))
<1> DEFINE q == Other(p)
           m == Head(wire[q])
<1>0. WireType /\ StreamsType /\ q \in Peers
  BY TwoPeers DEF Types
<1>1. CASE Receive(p)
  <2>1. wire[q] # << >> /\ rd[p] = "read" /\ UNCHANGED <<data, thr, queue, app>>
    BY <1>1 DEF Receive
  <2>2. CASE ~Is(m, "WRITE")
    <3>1. Queues(p, m) /\ UNCHANGED <<rd, fault>>
      BY <1>1, <2>2 DEF Receive, Is
    <3>2. WireType'
      BY <1>0, <2>1, <3>1, QueuesType
    <3>3. QED
      BY <2>1, <2>2, <3>1, <3>2 DEF Moves
  <2>3. CASE Is(m, "WRITE")
    <3>1. /\ UNCHANGED <<wire, inq>>
          /\ rd' = rd \/ rd' = [rd EXCEPT ![p] = "locking"]
      BY <1>1, <2>3 DEF Receive, Is
    <3>2. WireType'
      BY <1>0, <2>1, <2>3, <3>1 DEF WireType, Is
    <3>3. QED
      BY <2>1, <3>1, <3>2 DEF Looks
  <2>4. QED
    BY <2>2, <2>3
<1>2. CASE ReceiveData(p)
  <2>1. /\ rd[p] = "locking" /\ stream[p].sem = 1 /\ fault = "none"
        /\ rd' = [rd EXCEPT ![p] = "read"] /\ Queues(p, m)
        /\ stream' = [stream EXCEPT ![p].lfill = @ + m.size]
        /\ avail' = [avail EXCEPT ![p] =
             IF Len(avail[p]) + Len(held[p]) < MaxPackets THEN Append(@, m.size) ELSE @]
        /\ UNCHANGED <<held, nextSid, thr, queue, app, fault>>
    BY <1>2 DEF ReceiveData
  <2>2. wire[q] # << >> /\ Is(m, "WRITE")
    BY <1>0, <2>1 DEF WireType, Is
  <2>3. WireType'
    <3>1. rd'[p] = "read"
      BY <1>0, <2>1 DEF WireType
    <3>2. QED
      BY <1>0, <2>1, <2>2, <3>1, QueuesType
  <2>4. m.size \in Packets /\ m.size \in Nat
    <3>1. wire[q] \in Seq(Letters)
      BY <1>0 DEF WireType
    <3>2. m \in Letters
      BY <2>2, <3>1
    <3>3. QED
      BY <2>2, <3>2 DEF Letters, Messages, Packets, Is
  <2>5. /\ StreamsType' /\ \A r \in Peers : r # p => stream'[r] = stream[r]
        /\ Levels(p, stream[p].rfill, stream[p].rpkts, stream[p].lfill + m.size)
    BY <1>0, <2>1, <2>4, LevelsChange
  <2>6. PacketsType'
    <3>1. avail[p] \in Seq(Packets) /\ Append(avail[p], m.size) \in Seq(Packets)
      BY <2>4 DEF Types, PacketsType
    <3>2. QED
      BY <2>1, <3>1 DEF Types, PacketsType
  <2>7. QED
    BY <2>1, <2>2, <2>3, <2>5, <2>6 DEF Stores
<1>3. QED
  BY <1>1, <1>2 DEF Reader

-----------------------------------------------------------------------------
(* The requests and the types after each kind of step.                       *)

LEMMA SameLines ==
  ASSUME WireType, UNCHANGED <<wire, inq, rd>>
  PROVE  WireType' /\ \A r \in Peers : Line(r)' = Line(r)
BY DEF WireType, Line

SameMessages == \A r \in Peers :
  Line(r)' = Line(r) /\ Asked(r)' = Asked(r) /\ Answered(r)' = Answered(r)

LEMMA SameRequests ==
  ASSUME Types, Requesting, ThreadsType', Queued', KeepsPending, UNCHANGED <<wire, inq, rd>>
  PROVE  WireType' /\ ThreadsType' /\ Requesting' /\ SameMessages
<1>1. WireType' /\ \A r \in Peers : Line(r)' = Line(r)
  BY SameLines DEF Types
<1>2. Corresponding' /\ \A r \in Peers : Asked(r)' = Asked(r) /\ Answered(r)' = Answered(r)
  BY <1>1, CorrespondingStays DEF Types, Requesting
<1>3. QED
  BY <1>1, <1>2 DEF Requesting, SameMessages

LEMMA StoppedRequests ==
  ASSUME Types, Requesting, NEW p \in Peers, NEW t \in Threads, NEW op, Turn(p, t, op),
         Stops(p, t)
  PROVE  WireType' /\ ThreadsType' /\ Requesting' /\ SameMessages
<1>1. ThreadsType' /\ Queued' /\ KeepsPending
  BY ServedRequests
<1>2. UNCHANGED <<wire, inq, rd>>
  BY DEF Stops
<1>3. QED
  BY <1>1, <1>2, SameRequests

LEMMA SentRequests ==
  ASSUME Types, Requesting, NEW p \in Peers, NEW t \in Threads, NEW op, Turn(p, t, op),
         NEW m, Sends(p, t, m)
  PROVE  /\ WireType' /\ ThreadsType' /\ Requesting'
         /\ Line(p) \in Seq(Letters) /\ Line(p)' = Append(Line(p), m)
         /\ Line(Other(p))' = Line(Other(p))
         /\ Asked(p)' = Asked(p) \cup {m} /\ Answered(p)' = Answered(p)
         /\ Asked(Other(p))' = Asked(Other(p)) /\ Answered(Other(p))' = Answered(Other(p))
<1>1. /\ wire' = [wire EXCEPT ![p] = Append(@, m)] /\ inq' = inq /\ rd' = rd
      /\ m \in Letters /\ m.kind = "req" /\ m.t = t /\ m.op = thr[p][t].op
  BY DEF Sends
<1>2. ThreadsType' /\ Queued' /\ KeepsPending
  BY ServedRequests
<1>3. WireType /\ inq \in [Peers -> Seq(Letters)]
  BY DEF Types, WireType
<1>4. WireType'
  BY <1>1, <1>3, SentWireType
<1>5. Line(p) \in Seq(Letters) /\ Line(p)' = Append(Line(p), m)
      /\ Line(Other(p))' = Line(Other(p))
  BY <1>1, <1>3, LineAppend
<1>6. thr[p][m.t].pc # "pending"
  BY <1>1, TurnTakes DEF Requesting
<1>7. WaitsFor(p, m)'
  <2>1. thr'[p][t].pc = "pending" /\ thr'[p][t].op = thr[p][t].op
    BY DEF Sends, Types, ThreadsType
  <2>2. QED
    BY <1>1, <2>1 DEF WaitsFor
<1>8. /\ Corresponding'
      /\ Asked(p)' = Asked(p) \cup {m} /\ Answered(p)' = Answered(p)
      /\ Asked(Other(p))' = Asked(Other(p)) /\ Answered(Other(p))' = Answered(Other(p))
  BY <1>1, <1>2, <1>3, <1>5, <1>6, <1>7, CorrespondingSend DEF Requesting
<1>9. QED
  BY <1>2, <1>4, <1>5, <1>8 DEF Requesting

LEMMA BegunRequests ==
  ASSUME Types, Requesting, NEW p \in Peers, NEW t \in Threads, Begins(p, t)
  PROVE  /\ WireType' /\ ThreadsType' /\ Requesting' /\ SameMessages
         /\ \A r \in Peers, u \in Threads : ~(r = p /\ u = t) => thr'[r][u] = thr[r][u]
<1>1. PICK r \in Requesters :
        /\ thr' = [thr EXCEPT ![p][t] = r]
        /\ \/ r.pc = "queued" /\ queue' = [queue EXCEPT ![p] = Append(@, t)]
           \/ r.pc \notin Asking /\ queue' = queue
  BY DEF Begins
<1>2. thr[p][t].pc \notin Asking /\ UNCHANGED <<wire, inq, rd>>
  BY DEF Begins
<1>3. /\ thr' \in [Peers -> [Threads -> Requesters]] /\ thr'[p][t] = r
      /\ \A s \in Peers, u \in Threads : ~(s = p /\ u = t) => thr'[s][u] = thr[s][u]
  BY <1>1 DEF Types, ThreadsType
<1>4. \A s \in Peers : queue[s] \in Seq(Threads)
  BY DEF Types, ThreadsType
<1>5. queue' \in [Peers -> Seq(Threads)]
  <2>1. Append(queue[p], t) \in Seq(Threads)
    BY <1>4
  <2>2. QED
    BY <1>1, <2>1 DEF Types, ThreadsType
<1>6. KeepsPending
  BY <1>2, <1>3 DEF KeepsPending, Asking
<1>7. ASSUME NEW s \in Peers, NEW i \in DOMAIN queue[s]
      PROVE  /\ queue[s][i] \in Threads /\ thr[s][queue[s][i]].pc = "queued"
             /\ ~(s = p /\ queue[s][i] = t) /\ thr'[s][queue[s][i]] = thr[s][queue[s][i]]
  <2>1. queue[s][i] \in Threads /\ thr[s][queue[s][i]].pc = "queued"
    BY <1>4 DEF Requesting, Queued
  <2>2. ~(s = p /\ queue[s][i] = t)
    BY <1>2, <2>1 DEF Asking
  <2>3. QED
    BY <1>3, <2>1, <2>2
<1>8. Queued'
  <2> SUFFICES ASSUME NEW s \in Peers
               PROVE  /\ \A i \in DOMAIN queue'[s] : thr'[s][queue'[s][i]].pc = "queued"
                      /\ \A i, j \in DOMAIN queue'[s] : queue'[s][i] = queue'[s][j] => i = j
    BY DEF Queued
  <2>1. \A i, j \in DOMAIN queue[s] : queue[s][i] = queue[s][j] => i = j
    BY DEF Requesting, Queued
  <2>2. CASE queue'[s] = queue[s]
    BY <1>7, <2>1, <2>2
  <2>3. CASE s = p /\ r.pc = "queued" /\ queue'[s] = Append(queue[s], t)
    <3>1. PICK c \in Seq(Threads) : c = queue[s]
      BY <1>4
    <3>2. PICK d : d = Append(c, t)
      OBVIOUS
    <3>3. /\ DOMAIN d = DOMAIN c \cup {Len(c) + 1}
          /\ Len(c) + 1 \notin DOMAIN c /\ d[Len(c) + 1] = t /\ \A i \in DOMAIN c : d[i] = c[i]
      BY <3>1, <3>2
    <3>4. QED
      BY <1>3, <1>7, <2>1, <2>3, <3>1, <3>2, <3>3
  <2>4. QED
    BY <1>1, <2>2, <2>3 DEF Types, ThreadsType
<1>9. QED
  BY <1>2, <1>3, <1>5, <1>6, <1>8, SameRequests DEF ThreadsType

LEMMA MovedRequests ==
  ASSUME Types, Requesting, NEW p \in Peers, Moves(p) \/ Stores(p)
  PROVE  /\ WireType' /\ ThreadsType' /\ Requesting' /\ SameMessages
         /\ wire'[p] = wire[p] /\ wire'[Other(p)] = Tail(wire[Other(p)])
<1>1. /\ WireType' /\ wire[Other(p)] # << >> /\ Queues(p, Head(wire[Other(p)]))
      /\ thr' = thr /\ queue' = queue
  BY DEF Moves, Stores
<1>2. /\ \A r \in Peers : Line(r)' = Line(r)
      /\ wire'[p] = wire[p] /\ wire'[Other(p)] = Tail(wire[Other(p)])
  BY <1>1, LineMove DEF Types
<1>3. KeepsPending /\ Queued' /\ ThreadsType'
  BY <1>1 DEF KeepsPending, Queued, Requesting, Types, ThreadsType
<1>4. Corresponding' /\ \A r \in Peers : Asked(r)' = Asked(r) /\ Answered(r)' = Answered(r)
  BY <1>2, <1>3, CorrespondingStays DEF Types, Requesting
<1>5. QED
  BY <1>1, <1>2, <1>3, <1>4 DEF Requesting, SameMessages

LEMMA ServingApp ==
  ASSUME Types, NEW p \in Peers, Scheduler(p) \/ Reader(p)
  PROVE  AppType'
<1>1. ASSUME UNCHANGED <<usage, known, calls>>, holds' = holds, fault' \in {"none", "noStream"}
      PROVE  AppType'
  BY <1>1 DEF Types, AppType
<1>2. fault \in {"none", "noStream"}
  BY DEF Types, AppType
<1>3. ASSUME NEW t \in Threads, LocalRequest(p, t)
      PROVE  AppType'
  <2>1. CASE LocalCreate(p, t)
    BY <1>1, <1>2, <2>1 DEF LocalCreate, Turn
  <2>2. CASE LocalNotFound(p, t)
    BY <1>1, <2>2 DEF LocalNotFound, Turn
  <2>3. CASE LocalWrite(p, t)
    BY <1>1, <1>2, <2>3 DEF LocalWrite, Turn, Found
  <2>4. CASE LocalRead(p, t)
    <3>1. UNCHANGED <<usage, known, calls, fault>>
      BY <2>4 DEF LocalRead, Turn, Found
    <3>2. holds' = holds \/ holds' = [holds EXCEPT ![p][t] = @ + 1]
      BY <2>4 DEF LocalRead
    <3>3. holds' \in [Peers -> [Threads -> Nat]]
      <4>1. CASE holds' = holds
        BY <4>1 DEF Types, AppType
      <4>2. CASE holds' = [holds EXCEPT ![p][t] = @ + 1]
        <5>1. holds[p][t] \in Nat
          BY DEF Types, AppType
        <5>2. holds[p][t] + 1 \in Nat
          BY <5>1
        <5>3. QED
          BY <4>2, <5>2 DEF Types, AppType
      <4>3. QED
        BY <3>2, <4>1, <4>2
    <3>4. QED
      BY <3>1, <3>3 DEF Types, AppType
  <2>5. CASE LocalRelease(p, t)
    BY <1>1, <1>2, <2>5 DEF LocalRelease, Turn, Found
  <2>6. CASE LocalClose(p, t)
    BY <1>1, <1>2, <2>6 DEF LocalClose, Turn, Found
  <2>7. QED
    BY <1>3, <2>1, <2>2, <2>3, <2>4, <2>5, <2>6 DEF LocalRequest
<1>4. CASE RemoteEvent(p)
  <2>1. UNCHANGED app /\ fault' \in {"none", "noStream"}
    <3>1. CASE RemoteWrite(p)
      BY <1>2, <3>1 DEF RemoteWrite, Incoming
    <3>2. CASE RemoteRelease(p)
      BY <1>2, <3>2 DEF RemoteRelease, Incoming
    <3>3. CASE RemoteReleaseNotFound(p)
      BY <3>3 DEF RemoteReleaseNotFound, Incoming
    <3>4. CASE RemoteCreate(p)
      BY <1>2, <3>4 DEF RemoteCreate, Incoming
    <3>5. CASE RemoteClose(p)
      BY <1>2, <3>5 DEF RemoteClose, Incoming
    <3>6. CASE Response(p)
      BY <1>2, <3>6 DEF Response, ResponseDone, Incoming
    <3>7. CASE ResponseCreate(p)
      BY <1>2, <3>7 DEF ResponseCreate, Incoming
    <3>8. CASE ResponseClose(p)
      BY <1>2, <3>8 DEF ResponseClose, ResponseDone, Incoming
    <3>9. QED
      BY <1>4, <3>1, <3>2, <3>3, <3>4, <3>5, <3>6, <3>7, <3>8 DEF RemoteEvent
  <2>2. QED
    BY <1>1, <2>1 DEF app
<1>5. CASE Receive(p)
  BY <1>1, <1>2, <1>5 DEF Receive, app
<1>6. CASE ReceiveData(p)
  BY <1>1, <1>2, <1>6 DEF ReceiveData, app
<1>7. QED
  BY <1>3, <1>4, <1>5, <1>6 DEF Scheduler, Reader

\* The packets of an end after one was read or released.
LEMMA PacketsMove ==
  ASSUME PacketsType, NEW p \in Peers
  PROVE  /\ avail[p] \in Seq(Packets) /\ held[p] \in Seq(Packets)
         /\ avail[p] # << >> /\ avail' = [avail EXCEPT ![p] = Tail(@)]
            /\ held' = [held EXCEPT ![p] = Append(@, Head(avail[p]))] => PacketsType'
         /\ held[p] # << >> /\ held' = [held EXCEPT ![p] = Tail(@)] /\ avail' = avail
              => PacketsType' /\ Head(held[p]) \in Packets
<1>1. avail[p] \in Seq(Packets) /\ held[p] \in Seq(Packets)
  BY DEF PacketsType
<1>2. ASSUME avail[p] # << >>
      PROVE  Tail(avail[p]) \in Seq(Packets) /\ Append(held[p], Head(avail[p])) \in Seq(Packets)
  <2>1. Head(avail[p]) \in Packets /\ Tail(avail[p]) \in Seq(Packets)
    BY <1>1, <1>2
  <2>2. QED
    BY <1>1, <2>1
<1>3. ASSUME held[p] # << >>
      PROVE  Tail(held[p]) \in Seq(Packets) /\ Head(held[p]) \in Packets
  BY <1>1, <1>3
<1>4. QED
  BY <1>1, <1>2, <1>3 DEF PacketsType

LEMMA SameTypes ==
  ASSUME Types, UNCHANGED data
  PROVE  StreamsType' /\ PacketsType'
BY DEF data, Types, StreamsType, PacketsType

\* A thread's request finds no stream.
LEMMA NotFoundRequests ==
  ASSUME Types, Requesting, NEW p \in Peers, NEW t \in Threads, LocalNotFound(p, t)
  PROVE  /\ WireType' /\ ThreadsType' /\ Requesting' /\ SameMessages
         /\ UNCHANGED <<data, thr, wire, inq, rd, usage>> /\ fault' = "noStream"
<1>1. PICK op \in AllOps : Turn(p, t, op)
  BY DEF LocalNotFound
<1>2. UNCHANGED <<data, thr, wire, inq, rd, usage>> /\ fault' = "noStream"
  BY <1>1 DEF LocalNotFound, Turn
<1>3. /\ queue' \in [Peers -> Seq(Threads)]
      /\ \A r \in Peers : \A i, j \in DOMAIN queue'[r] :
           /\ thr[r][queue'[r][i]].pc = "queued"
           /\ queue'[r][i] = queue'[r][j] => i = j
  BY <1>1, TurnTakes DEF Requesting
<1>4. ThreadsType' /\ Queued' /\ KeepsPending
  BY <1>2, <1>3 DEF ThreadsType, Types, Queued, KeepsPending
<1>5. WireType' /\ Requesting' /\ SameMessages
  BY <1>2, <1>4, SameRequests
<1>6. QED
  BY <1>2, <1>4, <1>5

\* A release of the peer finds no stream.
LEMMA PeerNotFoundRequests ==
  ASSUME Types, Requesting, NEW p \in Peers, RemoteReleaseNotFound(p)
  PROVE  /\ WireType' /\ ThreadsType' /\ Requesting'
         /\ UNCHANGED <<data, thr, wire, usage>> /\ fault' = "noStream"
         /\ \A r \in Peers : Asked(r)' \subseteq Asked(r) /\ Answered(r)' = Answered(r)
<1> DEFINE q == Other(p)
           h == Head(inq[p])
<1>0. q \in Peers /\ \A r \in Peers : r = p \/ r = q
  BY TwoPeers
<1>1. Incoming(p, "req", "REL") /\ UNCHANGED <<stream, nextSid, thr, wire>>
      /\ fault' = "noStream"
  BY DEF RemoteReleaseNotFound
<1>2. /\ inq[p] # << >> /\ inq' = [inq EXCEPT ![p] = Tail(@)]
      /\ h \in Letters /\ h.kind = "req"
      /\ UNCHANGED <<avail, held, queue, rd, app>>
  BY <1>1, IncomingMessage
<1>3. WireType' /\ WireType
  <2>1. inq' \in [Peers -> Seq(Letters)]
    BY <1>2, TakenType DEF Types
  <2>2. QED
    BY <1>1, <1>2, <2>1 DEF Types, WireType
<1>4. /\ Line(q) # << >> /\ h = Head(Line(q)) /\ Line(q)' = Tail(Line(q))
      /\ Line(p)' = Line(p)
  BY <1>1, <1>2, <1>3, LineTake
<1>5. ThreadsType' /\ Queued'
  BY <1>1, <1>2 DEF ThreadsType, Types, Queued, Requesting
<1> HIDE DEF h, q
<1>6. /\ Corresponding'
      /\ Answered(p)' = Answered(p) /\ Asked(q)' \subseteq Asked(q)
      /\ Asked(p)' = Asked(p) /\ Answered(q)' = Answered(q)
  BY <1>1, <1>2, <1>3, <1>4, CorrespondingTake DEF Requesting, q
<1>7. QED
  BY <1>0, <1>1, <1>2, <1>3, <1>5, <1>6 DEF Requesting, data, app

-----------------------------------------------------------------------------
(* Sizes: the requests to open, the buffers, and the semaphores.             *)

OpenThreads == \A r \in Peers, u \in Threads :
  thr[r][u].op = "OPEN" /\ thr[r][u].pc \in Asking => thr[r][u].size \in usage.open[r]
OpenMessages == \A r \in Peers :
  \A m \in Asked(r) \cup Answered(r) : m.op = "OPEN" => m.size \in usage.open[r]
SizedEnds ==
  /\ \A r \in Peers : /\ stream[r].ws \in {0} \cup usage.open[r]
                      /\ stream[r].rs \in {0} \cup usage.open[Other(r)]
  /\ SemReturned

LEMMA SizedParts == Sized <=> OpenThreads /\ OpenMessages /\ SizedEnds
<1>2. (\A r \in Peers : stream[Other(r)].rs \in {0} \cup usage.open[r])
        <=> (\A r \in Peers : stream[r].rs \in {0} \cup usage.open[Other(r)])
  BY TwoPeers
<1>3. QED
  BY <1>2 DEF Sized, OpenThreads, OpenMessages, SizedEnds

LEMMA OpenThreadsBegun ==
  ASSUME Types, OpenThreads, NEW p \in Peers, NEW t \in Threads, Begins(p, t)
  PROVE  OpenThreads'
<1>1. PICK x \in Requesters :
        /\ thr' = [thr EXCEPT ![p][t] = x]
        /\ x.op = "OPEN" /\ x.pc \in Asking => x.size \in usage.open[p]
  BY DEF Begins
<1>2. usage' = usage
  BY DEF Begins
<1>3. \A r \in Peers, u \in Threads : thr'[r][u] = IF r = p /\ u = t THEN x ELSE thr[r][u]
  BY <1>1 DEF Types, ThreadsType
<1>4. QED
  BY <1>1, <1>2, <1>3 DEF OpenThreads

LEMMA OpenThreadsServed ==
  ASSUME Types, Requesting, OpenThreads, NEW p \in Peers, NEW t \in Threads, NEW op,
         Turn(p, t, op), Stops(p, t) \/ \E m : Sends(p, t, m)
  PROVE  OpenThreads' /\ usage' = usage
<1>1. /\ \A r \in Peers, u \in Threads : ~(r = p /\ u = t) => thr'[r][u] = thr[r][u]
      /\ thr'[p][t].pc # "idle" => thr'[p][t].op = op /\ thr'[p][t].size = thr[p][t].size
  BY ServedRequests
<1>2. thr[p][t].pc \in Asking /\ thr[p][t].op = op
  BY TurnTakes DEF Requesting, Asking
<1>3. usage' = usage
  BY DEF Stops, Sends
<1>4. "idle" \notin Asking
  BY DEF Asking
<1>5. QED
  BY <1>1, <1>2, <1>3, <1>4 DEF OpenThreads

LEMMA OpenThreadsWoken ==
  ASSUME OpenThreads, Wakes, usage' = usage
  PROVE  OpenThreads'
<1>1. "blocked" \in Asking /\ "ready" \in Asking
  BY DEF Asking
<1>2. QED
  BY <1>1 DEF OpenThreads, Wakes

LEMMA OpenThreadsTaken ==
  ASSUME Types, OpenThreads, NEW p \in Peers, Takes(p)
  PROVE  OpenThreads'
<1>1. PICK x \in Requesters :
        /\ thr' = [thr EXCEPT ![p][Head(inq[p]).t] = x]
        /\ x.pc \in {"idle", "lookup"}
  BY DEF Takes
<1>2. usage' = usage
  BY DEF Takes, app
<1>3. \A r \in Peers, u \in Threads : thr'[r][u] = thr[r][u] \/ thr'[r][u] = x
  BY <1>1 DEF Types, ThreadsType
<1>4. x.pc \notin Asking
  BY <1>1 DEF Asking
<1>5. QED
  BY <1>2, <1>3, <1>4 DEF OpenThreads

LEMMA EndsKept ==
  ASSUME SizedEnds, usage' = usage, \A r \in Peers : stream'[r] = stream[r] \/ SameEnds(r)
  PROVE  SizedEnds'
<1>1. \A r \in Peers : /\ stream'[r].id = stream[r].id /\ stream'[r].sem = stream[r].sem
                       /\ stream'[r].ws = stream[r].ws /\ stream'[r].rs = stream[r].rs
  BY DEF SameEnds
<1>2. QED
  BY <1>1 DEF SizedEnds, SemReturned, OneSize

LEMMA EndsAllocated ==
  ASSUME Types, SizedEnds, usage' = usage, NEW p \in Peers, NEW ws \in {0} \cup usage.open[p],
         NEW rs \in {0} \cup usage.open[Other(p)],
         \A r \in Peers : r # p => stream'[r] = stream[r],
         Created(p, ws, rs) \/ Kept(p, ws, rs) \/ Extended(p, ws, rs)
  PROVE  SizedEnds'
<1>1. Other(p) \in Peers
  BY TwoPeers
<1>2. /\ usage.open[p] \subseteq Nat \ {0} /\ usage.open[Other(p)] \subseteq Nat \ {0}
      /\ stream[p].ws \in Nat /\ stream[p].rs \in Nat
  BY <1>1, UsageType DEF Types, StreamsType
<1>3. /\ stream[p].ws \in {0} \cup usage.open[p]
      /\ stream[p].rs \in {0} \cup usage.open[Other(p)]
  BY DEF SizedEnds
<1>4. ASSUME OneSize
      PROVE  ~Kept(p, ws, rs)
  BY <1>1, <1>2, <1>3, <1>4 DEF OneSize, Kept
<1>5. /\ stream'[p].ws \in {0} \cup usage.open[p]
      /\ stream'[p].rs \in {0} \cup usage.open[Other(p)]
      /\ OneSize => stream'[p].sem = 1
  <2>1. CASE Created(p, ws, rs)
    BY <2>1 DEF Created
  <2>2. CASE Kept(p, ws, rs)
    BY <1>3, <1>4, <2>2 DEF Kept
  <2>3. CASE Extended(p, ws, rs)
    BY <1>3, <2>3 DEF Extended
  <2>4. QED
    BY <2>1, <2>2, <2>3
<1>6. \A r \in Peers : /\ stream'[r].ws \in {0} \cup usage.open[r]
                       /\ stream'[r].rs \in {0} \cup usage.open[Other(r)]
                       /\ OneSize => (stream'[r].id # None => stream'[r].sem = 1)
  BY <1>5 DEF SizedEnds, SemReturned
<1>7. QED
  BY <1>6 DEF SizedEnds, SemReturned, OneSize

LEMMA EndsClosed ==
  ASSUME SizedEnds, usage' = usage, NEW p \in Peers,
         \A r \in Peers : r # p => stream'[r] = stream[r],
         ClosedIn(p) \/ \E id : ClosedOut(p, id)
  PROVE  SizedEnds'
<1>1. /\ stream'[p].ws \in {0, stream[p].ws} /\ stream'[p].rs \in {0, stream[p].rs}
      /\ stream'[p].id # None => stream'[p].sem = 1
  BY DEF ClosedIn, ClosedOut
<1>2. \A r \in Peers : /\ stream'[r].ws \in {0} \cup usage.open[r]
                       /\ stream'[r].rs \in {0} \cup usage.open[Other(r)]
                       /\ OneSize => (stream'[r].id # None => stream'[r].sem = 1)
  BY <1>1 DEF SizedEnds, SemReturned
<1>3. QED
  BY <1>2 DEF SizedEnds, SemReturned, OneSize

LEMMA SameOpenMessages ==
  ASSUME OpenMessages, SameMessages, usage' = usage
  PROVE  OpenMessages'
BY DEF OpenMessages, SameMessages

-----------------------------------------------------------------------------
(* What holds whatever the applications do is inductive: types, requests,    *)
(* sizes.                                                                    *)

Basic == Types /\ Requesting /\ Sized

LEMMA BasicBegun ==
  ASSUME Basic, NEW p \in Peers, NEW t \in Threads, Application(p, t)
  PROVE  Basic' /\ Begins(p, t)
<1>1. Begins(p, t) /\ AppType'
  BY CallsBegin, ApplicationApp DEF Basic
<1>2. UNCHANGED data /\ usage' = usage /\ stream' = stream
  BY <1>1 DEF Begins, data
<1>3. StreamsType' /\ PacketsType'
  BY <1>2, SameTypes DEF Basic
<1>4. WireType' /\ ThreadsType' /\ Requesting' /\ SameMessages
  BY <1>1, BegunRequests DEF Basic
<1>5. OpenThreads /\ OpenMessages /\ SizedEnds
  BY SizedParts DEF Basic
<1>6. OpenThreads' /\ OpenMessages'
  BY <1>1, <1>2, <1>4, <1>5, OpenThreadsBegun, SameOpenMessages DEF Basic
<1>7. SizedEnds'
  BY <1>2, <1>5, EndsKept
<1>8. Sized'
  BY <1>6, <1>7, SizedParts, PTL
<1>9. QED
  BY <1>1, <1>3, <1>4, <1>8 DEF Basic, Types

\* What the requests of an end do to its descriptor and its packets.
LEMMA LocalStreams ==
  ASSUME Types, Requesting, NEW p \in Peers, NEW t \in Threads, LocalRequest(p, t)
  PROVE  /\ StreamsType' /\ PacketsType'
         /\ \A r \in Peers : stream'[r] = stream[r] \/ SameEnds(r)
<1>0. StreamsType /\ PacketsType /\ WireType
  BY DEF Types
<1>1. CASE AsksOpen(p, t) \/ Closes(p, t) \/ LocalNotFound(p, t)
  <2>1. UNCHANGED data
    BY <1>1, NotFoundRequests DEF AsksOpen, Closes
  <2>2. QED
    BY <2>1, SameTypes DEF data
<1>2. CASE Writes(p, t)
  <2> DEFINE m == Msg("req", "WRITE", thr[p][t].id, thr[p][t].size, t)
  <2>1. /\ m.size \in Sizes /\ UNCHANGED <<avail, held, nextSid>>
        /\ stream' = [stream EXCEPT ![p].rfill = @ + m.size, ![p].rpkts = @ + 1]
    BY <1>2 DEF Writes
  <2>2. m.size \in Nat
    BY <2>1, StreamAssumption
  <2> HIDE DEF m
  <2>3. StreamsType' /\ SameEnds(p) /\ \A r \in Peers : r # p => stream'[r] = stream[r]
    BY <1>0, <2>1, <2>2, LevelsChange DEF Levels
  <2>4. QED
    BY <1>0, <2>1, <2>3 DEF PacketsType
<1>3. CASE Reads(p, t)
  BY <1>0, <1>3, PacketsMove DEF Reads, StreamsType
<1>4. CASE Releases(p, t)
  <2>1. /\ held[p] # << >> /\ held' = [held EXCEPT ![p] = Tail(@)] /\ avail' = avail
        /\ nextSid' = nextSid /\ stream' = [stream EXCEPT ![p].lfill = @ - Head(held[p])]
    BY <1>4 DEF Releases
  <2>2. PacketsType' /\ Head(held[p]) \in Nat
    BY <1>0, <2>1, PacketsMove DEF Packets
  <2>3. StreamsType' /\ SameEnds(p) /\ \A r \in Peers : r # p => stream'[r] = stream[r]
    BY <1>0, <2>1, <2>2, LevelsChange DEF Levels
  <2>4. QED
    BY <2>2, <2>3
<1>5. CASE Waits(p, t)
  <2>1. /\ stream' = stream \/ stream' = [stream EXCEPT ![p].closing = TRUE]
        /\ UNCHANGED <<avail, held, nextSid>>
    BY <1>5 DEF Waits
  <2>2. StreamsType' /\ SameEnds(p) /\ \A r \in Peers : r # p => stream'[r] = stream[r]
    <3>1. 0 \in Nat
      OBVIOUS
    <3>2. QED
      BY <1>0, <2>1, <3>1, LevelsChange DEF Levels
  <2>3. QED
    BY <1>0, <2>1, <2>2 DEF PacketsType
<1>6. QED
  BY <1>1, <1>2, <1>3, <1>4, <1>5, LocalEffects DEF Requesting

LEMMA BasicLocal ==
  ASSUME Basic, NEW p \in Peers, NEW t \in Threads, LocalRequest(p, t)
  PROVE  Basic'
<1>0. Types /\ Requesting /\ OpenThreads /\ OpenMessages /\ SizedEnds
  BY SizedParts DEF Basic
<1>1. AppType'
  BY <1>0, ServingApp DEF Scheduler
<1>2. StreamsType' /\ PacketsType' /\ \A r \in Peers : stream'[r] = stream[r] \/ SameEnds(r)
  BY <1>0, LocalStreams
<1>3. CASE LocalNotFound(p, t)
  <2>1. /\ WireType' /\ ThreadsType' /\ Requesting' /\ SameMessages
        /\ UNCHANGED <<data, thr, wire, inq, rd, usage>>
    BY <1>0, <1>3, NotFoundRequests
  <2>2. OpenThreads' /\ OpenMessages'
    BY <1>0, <2>1, SameOpenMessages DEF OpenThreads
  <2>3. SizedEnds'
    BY <1>0, <1>2, <2>1, EndsKept
  <2>4. Sized'
    BY <2>2, <2>3, SizedParts, PTL
  <2>5. QED
    BY <1>1, <1>2, <2>1, <2>4 DEF Basic, Types
<1>4. ASSUME NEW op, Turn(p, t, op), Stops(p, t)
      PROVE  Basic'
  <2>1. WireType' /\ ThreadsType' /\ Requesting' /\ SameMessages
    BY <1>0, <1>4, StoppedRequests
  <2>2. OpenThreads' /\ usage' = usage
    BY <1>0, <1>4, OpenThreadsServed
  <2>3. SizedEnds' /\ OpenMessages'
    BY <1>0, <1>2, <2>1, <2>2, EndsKept, SameOpenMessages
  <2>4. Sized'
    BY <2>2, <2>3, SizedParts, PTL
  <2>5. QED
    BY <1>1, <1>2, <2>1, <2>4 DEF Basic, Types
<1>5. ASSUME NEW op, Turn(p, t, op), NEW m, Sends(p, t, m),
             op = "OPEN" => m.size = thr[p][t].size
      PROVE  Basic'
  <2>1. /\ WireType' /\ ThreadsType' /\ Requesting'
        /\ Asked(p)' = Asked(p) \cup {m} /\ Answered(p)' = Answered(p)
        /\ Asked(Other(p))' = Asked(Other(p)) /\ Answered(Other(p))' = Answered(Other(p))
    BY <1>0, <1>5, SentRequests
  <2>2. OpenThreads' /\ usage' = usage
    BY <1>0, <1>5, OpenThreadsServed
  <2>3. m.op = op /\ thr[p][t].op = op /\ thr[p][t].pc \in Asking
    BY <1>0, <1>5, TurnTakes DEF Requesting, Sends, Asking
  <2>4. m.op = "OPEN" => m.size \in usage.open[p]
    BY <1>0, <1>5, <2>3 DEF OpenThreads
  <2>5. OpenMessages'
    <3>1. \A r \in Peers : r = p \/ r = Other(p)
      BY TwoPeers
    <3>2. \A r \in Peers : \A n \in Asked(r)' \cup Answered(r)' :
            n \in Asked(r) \cup Answered(r) \/ (r = p /\ n = m)
      BY <2>1, <3>1
    <3>3. \A r \in Peers : \A n \in Asked(r)' \cup Answered(r)' :
            n.op = "OPEN" => n.size \in usage'.open[r]
      BY <1>0, <2>2, <2>4, <3>2 DEF OpenMessages
    <3>4. QED
      BY <3>3 DEF OpenMessages
  <2>6. SizedEnds'
    BY <1>0, <1>2, <2>2, EndsKept
  <2>7. Sized'
    BY <2>2, <2>5, <2>6, SizedParts, PTL
  <2>8. QED
    BY <1>1, <1>2, <2>1, <2>7 DEF Basic, Types
<1>6. \/ LocalNotFound(p, t)
      \/ \E op : Turn(p, t, op) /\ Stops(p, t)
      \/ \E op, m : Turn(p, t, op) /\ Sends(p, t, m) /\ (op = "OPEN" => m.size = thr[p][t].size)
  <2>1. CASE Turn(p, t, "OPEN") /\ AsksOpen(p, t)
    <3>1. Msg("req", "OPEN", None, thr[p][t].size, t).size = thr[p][t].size
      BY DEF Msg
    <3>2. QED
      BY <2>1, <3>1 DEF AsksOpen
  <2>2. CASE \/ Turn(p, t, "WRITE") /\ Writes(p, t)
             \/ Turn(p, t, "REL") /\ Releases(p, t)
             \/ Turn(p, t, "CLOSE") /\ Closes(p, t)
    <3>1. \E op \in {"WRITE", "REL", "CLOSE"} : Turn(p, t, op) /\ \E m : Sends(p, t, m)
      BY <2>2 DEF Writes, Releases, Closes
    <3>2. QED
      BY <3>1
  <2>3. CASE \/ Turn(p, t, "READ") /\ Reads(p, t)
             \/ \E op \in AllOps : Turn(p, t, op) /\ Waits(p, t)
    BY <2>3 DEF Reads, Waits
  <2>4. QED
    BY <1>0, <2>1, <2>2, <2>3, LocalEffects DEF Requesting
<1>7. QED
  BY <1>3, <1>4, <1>5, <1>6

LEMMA BasicAnswered ==
  ASSUME Basic, NEW p \in Peers, StreamsType', AppType', NEW a,
         \/ AnsweredWrite(p, a) \/ AnsweredRelease(p, a)
         \/ AnsweredOpen(p, a) \/ AnsweredClose(p, a)
  PROVE  Basic'
<1> DEFINE q == Other(p)
           h == Head(inq[p])
<1>0. /\ Types /\ Requesting /\ OpenThreads /\ OpenMessages /\ SizedEnds
      /\ q \in Peers /\ Other(q) = p /\ \A r \in Peers : r = p \/ r = q
  BY SizedParts, TwoPeers DEF Basic
<1>1. Answers(p, a)
  BY DEF AnsweredWrite, AnsweredRelease, AnsweredOpen, AnsweredClose
<1>2. /\ usage' = usage /\ UNCHANGED <<avail, held>> /\ Wakes
      /\ a.op = h.op /\ a.size = h.size
  BY <1>1 DEF Answers, app
<1>3. /\ WireType' /\ ThreadsType' /\ Requesting'
      /\ h \in Asked(q) /\ Asked(q)' \subseteq Asked(q) /\ Answered(q)' = Answered(q) \cup {a}
      /\ Asked(p)' = Asked(p) /\ Answered(p)' = Answered(p)
  BY <1>0, <1>1, AnsweredRequests
<1>4. PacketsType' /\ OpenThreads'
  BY <1>0, <1>2, OpenThreadsWoken DEF Types, PacketsType
<1>5. a.op = "OPEN" => a.size \in usage.open[q]
  BY <1>0, <1>2, <1>3 DEF OpenMessages
<1> HIDE DEF q, h
<1>6. OpenMessages'
  <2>1. \A r \in Peers : \A n \in Asked(r)' \cup Answered(r)' :
          n \in Asked(r) \cup Answered(r) \/ (r = q /\ n = a)
    BY <1>0, <1>3
  <2>2. \A r \in Peers : \A n \in Asked(r)' \cup Answered(r)' :
          n.op = "OPEN" => n.size \in usage'.open[r]
    BY <1>0, <1>2, <1>5, <2>1 DEF OpenMessages
  <2>3. QED
    BY <2>2 DEF OpenMessages
<1>7. SizedEnds'
  <2>1. CASE \/ AnsweredWrite(p, a) \/ AnsweredRelease(p, a)
             \/ AnsweredClose(p, a) /\ ~ClosedIn(p)
    <3>1. SameEnds(p) /\ \A r \in Peers : r # p => stream'[r] = stream[r]
      BY <2>1 DEF AnsweredWrite, AnsweredRelease, AnsweredClose, Stays, Levels
    <3>2. QED
      BY <1>0, <1>2, <3>1, EndsKept
  <2>2. CASE AnsweredOpen(p, a)
    <3>1. /\ \A r \in Peers : r # p => stream'[r] = stream[r]
          /\ Created(p, 0, a.size) \/ Kept(p, 0, a.size) \/ Extended(p, 0, a.size)
          /\ a.size \in {0} \cup usage.open[Other(p)] /\ 0 \in {0} \cup usage.open[p]
      BY <1>5, <2>2 DEF AnsweredOpen, q
    <3>2. QED
      BY <1>0, <1>2, <3>1, EndsAllocated
  <2>3. CASE AnsweredClose(p, a) /\ ClosedIn(p)
    <3>1. \A r \in Peers : r # p => stream'[r] = stream[r]
      BY <2>3 DEF AnsweredClose
    <3>2. QED
      BY <1>0, <1>2, <2>3, <3>1, EndsClosed
  <2>4. QED
    BY <2>1, <2>2, <2>3
<1>8. Sized'
  BY <1>4, <1>6, <1>7, SizedParts, PTL
<1>9. QED
  BY <1>3, <1>4, <1>8 DEF Basic, Types

LEMMA BasicTaken ==
  ASSUME Basic, NEW p \in Peers, StreamsType', AppType',
         TakenData(p) \/ TakenOpen(p) \/ TakenClose(p)
  PROVE  Basic'
<1> DEFINE q == Other(p)
           h == Head(inq[p])
<1>0. /\ Types /\ Requesting /\ OpenThreads /\ OpenMessages /\ SizedEnds
      /\ q \in Peers /\ Other(q) = p /\ \A r \in Peers : r = p \/ r = q
  BY SizedParts, TwoPeers DEF Basic
<1>1. Takes(p)
  BY DEF TakenData, TakenOpen, TakenClose
<1>2. usage' = usage /\ UNCHANGED <<avail, held>>
  BY <1>1 DEF Takes, app
<1>3. /\ WireType' /\ ThreadsType' /\ Requesting'
      /\ h \in Answered(p) /\ Answered(p)' \subseteq Answered(p)
      /\ Asked(q)' = Asked(q)
      /\ Asked(p)' = Asked(p) /\ Answered(q)' = Answered(q)
  BY <1>0, <1>1, TakenRequests
<1>4. PacketsType' /\ OpenThreads'
  BY <1>0, <1>1, <1>2, OpenThreadsTaken DEF Types, PacketsType
<1>5. h.op = "OPEN" => h.size \in usage.open[p]
  BY <1>0, <1>3 DEF OpenMessages
<1> HIDE DEF q
<1>6. OpenMessages'
  <2>1. \A r \in Peers : \A n \in Asked(r)' \cup Answered(r)' : n \in Asked(r) \cup Answered(r)
    BY <1>0, <1>3
  <2>2. QED
    BY <1>0, <1>2, <2>1 DEF OpenMessages
<1>7. SizedEnds'
  <2>1. CASE TakenData(p) \/ (TakenClose(p) /\ ~\E id : ClosedOut(p, id))
    <3>1. SameEnds(p) /\ \A r \in Peers : r # p => stream'[r] = stream[r]
      BY <2>1 DEF TakenData, TakenClose, Stays, Levels
    <3>2. QED
      BY <1>0, <1>2, <3>1, EndsKept
  <2>2. CASE TakenOpen(p)
    <3>1. /\ \A r \in Peers : r # p => stream'[r] = stream[r]
          /\ Created(p, h.size, 0) \/ Kept(p, h.size, 0) \/ Extended(p, h.size, 0)
          /\ h.size \in {0} \cup usage.open[p] /\ 0 \in {0} \cup usage.open[Other(p)]
      BY <1>5, <2>2 DEF TakenOpen
    <3>2. QED
      BY <1>0, <1>2, <3>1, EndsAllocated
  <2>3. CASE TakenClose(p) /\ \E id : ClosedOut(p, id)
    <3>1. \A r \in Peers : r # p => stream'[r] = stream[r]
      BY <2>3 DEF TakenClose
    <3>2. QED
      BY <1>0, <1>2, <2>3, <3>1, EndsClosed
  <2>4. QED
    BY <2>1, <2>2, <2>3
<1>8. Sized'
  BY <1>4, <1>6, <1>7, SizedParts, PTL
<1>9. QED
  BY <1>3, <1>4, <1>8 DEF Basic, Types

LEMMA BasicNotFound ==
  ASSUME Basic, NEW p \in Peers, RemoteReleaseNotFound(p), AppType'
  PROVE  Basic'
<1>0. Types /\ Requesting /\ OpenThreads /\ OpenMessages /\ SizedEnds
  BY SizedParts DEF Basic
<1>1. /\ WireType' /\ ThreadsType' /\ Requesting'
      /\ UNCHANGED <<data, thr, wire, usage>>
      /\ \A r \in Peers : Asked(r)' \subseteq Asked(r) /\ Answered(r)' = Answered(r)
  BY <1>0, PeerNotFoundRequests
<1>2. StreamsType' /\ PacketsType'
  BY <1>0, <1>1, SameTypes
<1>3. OpenThreads' /\ OpenMessages'
  BY <1>0, <1>1 DEF OpenThreads, OpenMessages
<1>4. SizedEnds'
  BY <1>0, <1>1, EndsKept DEF data
<1>5. Sized'
  BY <1>3, <1>4, SizedParts, PTL
<1>6. QED
  BY <1>1, <1>2, <1>5 DEF Basic, Types

LEMMA BasicReader ==
  ASSUME Basic, NEW p \in Peers, Reader(p)
  PROVE  Basic'
<1>0. Types /\ Requesting /\ OpenThreads /\ OpenMessages /\ SizedEnds
  BY SizedParts DEF Basic
<1>1. AppType' /\ (Looks(p) \/ Moves(p) \/ (StreamsType' /\ PacketsType' /\ Stores(p)))
  BY <1>0, ServingApp, ReaderEffects
<1>2. thr' = thr /\ queue' = queue /\ usage' = usage
  BY <1>1 DEF Looks, Moves, Stores, app
<1>3. StreamsType' /\ PacketsType' /\ \A r \in Peers : stream'[r] = stream[r] \/ SameEnds(r)
  <2>1. CASE Looks(p) \/ Moves(p)
    BY <1>0, <2>1, SameTypes DEF Looks, Moves, data
  <2>2. CASE StreamsType' /\ PacketsType' /\ Stores(p)
    BY <2>2 DEF Stores, Levels
  <2>3. QED
    BY <1>1, <2>1, <2>2
<1>4. WireType' /\ ThreadsType' /\ Requesting' /\ SameMessages
  <2>1. CASE Looks(p)
    <3>1. WireType' /\ UNCHANGED <<thr, queue, wire, inq>>
      BY <2>1 DEF Looks
    <3>2. /\ ThreadsType' /\ Queued' /\ KeepsPending
          /\ \A r \in Peers : Line(r)' = Line(r)
      BY <1>0, <3>1 DEF Types, ThreadsType, Queued, KeepsPending, Requesting, Line
    <3>3. /\ Corresponding'
          /\ \A r \in Peers : Asked(r)' = Asked(r) /\ Answered(r)' = Answered(r)
      BY <1>0, <3>2, CorrespondingStays DEF Types, Requesting
    <3>4. QED
      BY <3>1, <3>2, <3>3 DEF Requesting, SameMessages
  <2>2. CASE Moves(p) \/ Stores(p)
    BY <1>0, <2>2, MovedRequests
  <2>3. QED
    BY <1>1, <2>1, <2>2
<1>5. OpenThreads' /\ OpenMessages' /\ SizedEnds'
  BY <1>0, <1>2, <1>3, <1>4, SameOpenMessages, EndsKept DEF OpenThreads
<1>6. Sized'
  BY <1>5, SizedParts, PTL
<1>7. QED
  BY <1>1, <1>3, <1>4, <1>6 DEF Basic, Types

LEMMA BasicNext ==
  ASSUME Basic, [Next]_vars
  PROVE  Basic'
<1>1. ASSUME NEW p \in Peers, RemoteEvent(p)
      PROVE  Basic'
  <2>1. AppType'
    BY <1>1, ServingApp DEF Basic, Scheduler
  <2>2. \/ StreamsType' /\ \E a : \/ AnsweredWrite(p, a) \/ AnsweredRelease(p, a)
                                  \/ AnsweredOpen(p, a) \/ AnsweredClose(p, a)
        \/ RemoteReleaseNotFound(p)
        \/ StreamsType' /\ (TakenData(p) \/ TakenOpen(p) \/ TakenClose(p))
    BY <1>1, RemoteEffects DEF Basic
  <2>3. QED
    BY <2>1, <2>2, BasicAnswered, BasicTaken, BasicNotFound
<1>2. CASE UNCHANGED vars
  <2>1. UNCHANGED <<stream, avail, held, nextSid, usage, known, holds, calls, thr, queue,
                    inq, rd, wire, fault>>
    BY <1>2 DEF vars, data, app
  <2>2. Types'
    BY <2>1 DEF Basic, Types, StreamsType, PacketsType, ThreadsType, WireType, AppType
  <2>3. Requesting' /\ SameMessages
    BY <2>1, <2>2, SameRequests DEF Basic, Types, Requesting, Queued, KeepsPending
  <2>4. OpenThreads /\ OpenMessages /\ SizedEnds
    BY SizedParts DEF Basic
  <2>5. OpenThreads' /\ OpenMessages' /\ SizedEnds'
    BY <2>1, <2>3, <2>4, SameOpenMessages, EndsKept DEF OpenThreads
  <2>6. Sized'
    BY <2>5, SizedParts, PTL
  <2>7. QED
    BY <2>2, <2>3, <2>6 DEF Basic
<1>3. QED
  BY <1>1, <1>2, BasicBegun, BasicLocal, BasicReader DEF Next, Scheduler

LEMMA BasicInit == Init => Basic
<1> SUFFICES ASSUME Init PROVE Basic
  OBVIOUS
<1>1. NoStream \in Streams /\ NoStream.rfill = 0 /\ NoStream.rpkts = 0 /\ NoStream.lfill = 0
      /\ NoStream.id = None /\ NoStream.ws = 0 /\ NoStream.rs = 0 /\ NoStream.sem = 0
  BY NoStreamType DEF NoStream
<1>2. StreamsType
  BY <1>1 DEF Init, StreamsType, Streams
<1>3. PacketsType
  BY DEF Init, PacketsType
<1>4. IdleThread \in Requesters /\ IdleThread.pc \notin Asking
  BY DEF IdleThread, Requesters, Asking, AllOps, Ids
<1>5. ThreadsType
  BY <1>4 DEF Init, ThreadsType
<1>6. WireType
  BY DEF Init, WireType
<1>7. AppType
  BY DEF Init, AppType, Ids
<1>8. \A p \in Peers : inq[p] = << >> /\ wire[p] = << >>
  BY DEF Init
<1>9. \A p \in Peers : Line(p) = << >>
  BY <1>8, TwoPeers DEF Line
<1>10. \A p \in Peers : Asked(p) = {} /\ Answered(p) = {}
  BY <1>9, TwoPeers DEF Asked, Answered, Msgs
<1>11. Corresponding
  BY <1>9, <1>10 DEF Corresponding, Matched, Once
<1>12. Queued
  BY DEF Init, Queued
<1>13. OpenThreads /\ OpenMessages /\ SizedEnds
  BY <1>1, <1>4, <1>10 DEF Init, OpenThreads, OpenMessages, SizedEnds, SemReturned
<1>14. QED
  BY <1>2, <1>3, <1>5, <1>6, <1>7, <1>11, <1>12, <1>13, SizedParts
     DEF Basic, Types, Requesting

\* A stream in use is not left locked, whatever the applications do.
THEOREM SemaphoreReturned == Spec => []SemReturned
<1>1. Basic => SemReturned
  BY DEF Basic, Sized
<1>2. QED
  BY <1>1, BasicInit, BasicNext, PTL DEF Spec

-----------------------------------------------------------------------------
(* The direction of a writer p to its reader: what the exact credit says.    *)

\* The numbers of one direction.
LEMMA CreditNumbers ==
  ASSUME NEW a \in Seq(Packets), NEW h \in Seq(Packets), NEW w \in Seq(Packets),
         NEW b \in Seq(Packets)
  PROVE  LET rfill == Total(a) + Total(h) + Total(w) + Total(b)
             rpkts == Len(a) + Len(h) + Len(w) + Len(b)
         IN
         /\ rfill = 0 => rpkts = 0
         /\ w # << >> => rpkts # 0 /\ Len(a) + Len(h) < rpkts
         /\ b # << >> => rpkts # 0 /\ rpkts - 1 \in Nat /\ rfill - Head(b) \in Nat
<1> DEFINE rfill == Total(a) + Total(h) + Total(w) + Total(b)
           rpkts == Len(a) + Len(h) + Len(w) + Len(b)
<1>1. \A s \in Seq(Packets) : /\ Total(s) \in Nat /\ Len(s) \in Nat
                              /\ s # << >> => Len(s) # 0
                              /\ Total(s) = 0 => Len(s) = 0
                              /\ s # << >> => Head(s) \in Nat /\ Head(s) <= Total(s)
  <2>1. \A s \in Seq(Packets) : Len(s) \in Nat /\ (s # << >> => Len(s) # 0)
    OBVIOUS
  <2>2. Len(<< >>) = 0
    OBVIOUS
  <2>3. \A s \in Seq(Packets) : Total(s) \in Nat /\ (Total(s) = 0 => Len(s) = 0)
    BY <2>2, TotalNat
  <2>4. \A s \in Seq(Packets) : s # << >> => Head(s) \in Nat /\ Head(s) <= Total(s)
    BY TotalNat DEF Packets
  <2>5. QED
    BY <2>1, <2>3, <2>4
<1>2. PICK ta, th, tw, tb, la, lh, lw, lb \in Nat :
        /\ ta = Total(a) /\ th = Total(h) /\ tw = Total(w) /\ tb = Total(b)
        /\ la = Len(a) /\ lh = Len(h) /\ lw = Len(w) /\ lb = Len(b)
  BY <1>1
<1>3. /\ ta = 0 => la = 0
      /\ th = 0 => lh = 0
      /\ tw = 0 => lw = 0
      /\ tb = 0 => lb = 0
      /\ w # << >> => lw # 0
      /\ b # << >> => lb # 0 /\ Head(b) \in Nat /\ Head(b) <= tb
  BY <1>1, <1>2
<1>4. rfill = ta + th + tw + tb /\ rpkts = la + lh + lw + lb
  BY <1>2
<1> HIDE DEF rfill, rpkts
<1>5. rfill = 0 => rpkts = 0
  BY <1>3, <1>4
<1>6. w # << >> => rpkts # 0 /\ la + lh < rpkts
  BY <1>3, <1>4
<1>7. ASSUME b # << >>
      PROVE  rpkts # 0 /\ rpkts - 1 \in Nat /\ rfill - Head(b) \in Nat
  <2>1. PICK n \in Nat : n = Head(b) /\ n <= tb
    BY <1>3, <1>7
  <2>2. rfill - n \in Nat
    BY <1>4, <2>1
  <2>3. lb # 0
    BY <1>3, <1>7
  <2>4. QED
    BY <1>4, <2>1, <2>2, <2>3
<1>8. QED
  BY <1>2, <1>5, <1>6, <1>7 DEF rfill, rpkts

OnWay(p) == Requests(wire[p], "WRITE")
Back(p) == Requests(Line(Other(p)), "REL")

LEMMA Direction ==
  ASSUME Types, LevelExact, CreditExact, fault = "none", NEW p \in Peers
  PROVE  LET q == Other(p) IN
         /\ avail[q] \in Seq(Packets) /\ held[q] \in Seq(Packets)
         /\ OnWay(p) \in Seq(Packets) /\ Back(p) \in Seq(Packets)
         /\ stream[q].lfill = Total(avail[q]) + Total(held[q])
         /\ Total(avail[q]) \in Nat /\ Total(held[q]) \in Nat
         /\ Total(OnWay(p)) \in Nat /\ Total(Back(p)) \in Nat
         /\ stream[p].rfill = stream[q].lfill + Total(OnWay(p)) + Total(Back(p))
         /\ stream[p].rpkts = Len(avail[q]) + Len(held[q]) + Len(OnWay(p)) + Len(Back(p))
         /\ stream[p].rfill = 0 => stream[p].rpkts = 0
<1> DEFINE q == Other(p)
<1>1. q \in Peers
  BY TwoPeers
<1>2. avail[q] \in Seq(Packets) /\ held[q] \in Seq(Packets)
      /\ wire[p] \in Seq(Letters) /\ Line(q) \in Seq(Letters)
  BY <1>1, LineType DEF Types, PacketsType
<1>3. OnWay(p) \in Seq(Packets) /\ Back(p) \in Seq(Packets)
  BY <1>2, RequestsSeq DEF OnWay, Back
<1>4. /\ stream[q].lfill = Total(avail[q]) + Total(held[q])
      /\ stream[p].rfill = stream[q].lfill + Total(OnWay(p)) + Total(Back(p))
      /\ stream[p].rpkts = Len(avail[q]) + Len(held[q]) + Len(OnWay(p)) + Len(Back(p))
  BY <1>1 DEF LevelExact, CreditExact, OnWay, Back
<1>5. Total(avail[q]) \in Nat /\ Total(held[q]) \in Nat
      /\ Total(OnWay(p)) \in Nat /\ Total(Back(p)) \in Nat
  BY <1>2, <1>3, TotalNat
<1> HIDE DEF q
<1>6. stream[p].rfill = Total(avail[q]) + Total(held[q]) + Total(OnWay(p)) + Total(Back(p))
  BY <1>4
<1>7. stream[p].rfill = 0 => stream[p].rpkts = 0
  <2>1. PICK a, h, w, b \in Seq(Packets) :
          a = avail[q] /\ h = held[q] /\ w = OnWay(p) /\ b = Back(p)
    BY <1>2, <1>3
  <2>2. Total(a) + Total(h) + Total(w) + Total(b) = 0 => Len(a) + Len(h) + Len(w) + Len(b) = 0
    BY CreditNumbers
  <2>3. QED
    BY <1>4, <1>6, <2>1, <2>2
<1>8. QED
  BY <1>2, <1>3, <1>4, <1>5, <1>7 DEF q

\* What is on its way, or being given back, is counted.
LEMMA Counts ==
  ASSUME Types, LevelExact, CreditExact, fault = "none", NEW p \in Peers
  PROVE  LET q == Other(p) IN
         /\ OnWay(p) # << >> => /\ stream[p].rpkts # 0
                                /\ Len(avail[q]) + Len(held[q]) < stream[p].rpkts
         /\ Back(p) # << >> => /\ stream[p].rpkts # 0 /\ stream[p].rpkts - 1 \in Nat
                               /\ stream[p].rfill - Head(Back(p)) \in Nat
<1> DEFINE q == Other(p)
<1>1. /\ avail[q] \in Seq(Packets) /\ held[q] \in Seq(Packets)
      /\ OnWay(p) \in Seq(Packets) /\ Back(p) \in Seq(Packets)
      /\ stream[q].lfill = Total(avail[q]) + Total(held[q])
      /\ Total(avail[q]) \in Nat /\ Total(held[q]) \in Nat
      /\ Total(OnWay(p)) \in Nat /\ Total(Back(p)) \in Nat
      /\ stream[p].rfill = stream[q].lfill + Total(OnWay(p)) + Total(Back(p))
      /\ stream[p].rpkts = Len(avail[q]) + Len(held[q]) + Len(OnWay(p)) + Len(Back(p))
  BY Direction
<1> HIDE DEF q
<1>2. stream[p].rfill = Total(avail[q]) + Total(held[q]) + Total(OnWay(p)) + Total(Back(p))
  BY <1>1
<1>3. /\ OnWay(p) # << >> => /\ stream[p].rpkts # 0
                             /\ Len(avail[q]) + Len(held[q]) < stream[p].rpkts
      /\ Back(p) # << >> => /\ stream[p].rpkts # 0 /\ stream[p].rpkts - 1 \in Nat
                            /\ stream[p].rfill - Head(Back(p)) \in Nat
  <2>1. PICK a, h, w, b \in Seq(Packets) :
          a = avail[q] /\ h = held[q] /\ w = OnWay(p) /\ b = Back(p)
    BY <1>1
  <2>2. LET f == Total(a) + Total(h) + Total(w) + Total(b)
            n == Len(a) + Len(h) + Len(w) + Len(b)
        IN
        /\ w # << >> => n # 0 /\ Len(a) + Len(h) < n
        /\ b # << >> => n # 0 /\ n - 1 \in Nat /\ f - Head(b) \in Nat
    BY CreditNumbers
  <2>3. QED
    BY <1>1, <1>2, <2>1, <2>2
<1>4. QED
  BY <1>3 DEF q

\* What a message changes of the requests.
LEMMA SentOnWay ==
  ASSUME Types, NEW p \in Peers, NEW m \in Letters,
         wire'[p] = Append(wire[p], m)
  PROVE  OnWay(p)' = IF Is(m, "WRITE") THEN Append(OnWay(p), m.size) ELSE OnWay(p)
<1>1. wire[p] \in Seq(Letters)
  BY LineType DEF Types
<1>2. Requests(Append(wire[p], m), "WRITE")
        = IF Is(m, "WRITE") THEN Append(Requests(wire[p], "WRITE"), m.size)
          ELSE Requests(wire[p], "WRITE")
  BY <1>1, RequestsAppend
<1>3. QED
  BY <1>2 DEF OnWay

LEMMA SentBack ==
  ASSUME Types, NEW p \in Peers, NEW m \in Letters, Line(p)' = Append(Line(p), m)
  PROVE  Back(Other(p))' = IF Is(m, "REL") THEN Append(Back(Other(p)), m.size)
                           ELSE Back(Other(p))
<1>1. Line(p) \in Seq(Letters) /\ Other(Other(p)) = p
  BY LineType, TwoPeers DEF Types
<1>2. Requests(Line(p)', "REL") = IF Is(m, "REL") THEN Append(Requests(Line(p), "REL"), m.size)
                                  ELSE Requests(Line(p), "REL")
  BY <1>1, RequestsAppend
<1>3. Back(Other(p))' = Requests(Line(p)', "REL") /\ Back(Other(p)) = Requests(Line(p), "REL")
  BY <1>1 DEF Back
<1>4. QED
  BY <1>2, <1>3

\* A message of the peer of p is handled.
LEMMA TakenBack ==
  ASSUME Types, NEW p \in Peers, Line(Other(p)) # << >>, NEW h, h = Head(Line(Other(p))),
         Line(Other(p))' = Tail(Line(Other(p)))
  PROVE  Back(p) = IF Is(h, "REL") THEN <<h.size>> \o Back(p)' ELSE Back(p)'
<1>1. Line(Other(p)) \in Seq(Letters)
  BY LineType, TwoPeers DEF Types
<1>2. Requests(Line(Other(p)), "REL")
        = IF Is(h, "REL") THEN <<h.size>> \o Requests(Tail(Line(Other(p))), "REL")
          ELSE Requests(Tail(Line(Other(p))), "REL")
  BY <1>1, RequestsHead
<1>3. Back(p)' = Requests(Tail(Line(Other(p))), "REL")
  BY DEF Back
<1>4. QED
  BY <1>2, <1>3 DEF Back

\* The peer of p has read a message.
LEMMA ReadOnWay ==
  ASSUME Types, NEW p \in Peers, wire[p] # << >>, wire'[p] = Tail(wire[p]), NEW m, m = Head(wire[p])
  PROVE  OnWay(p) = IF Is(m, "WRITE") THEN <<m.size>> \o OnWay(p)' ELSE OnWay(p)'
<1>1. wire[p] \in Seq(Letters)
  BY LineType DEF Types
<1>2. Requests(wire[p], "WRITE")
        = IF Is(m, "WRITE") THEN <<m.size>> \o Requests(Tail(wire[p]), "WRITE")
          ELSE Requests(Tail(wire[p]), "WRITE")
  BY <1>1, RequestsHead
<1>3. QED
  BY <1>2 DEF OnWay

-----------------------------------------------------------------------------
(* Careful applications: a thread that closes is alone.                      *)

LEMMA DisciplinedKept ==
  ASSUME Disciplined,
         \A r \in Peers, u \in Threads : thr'[r][u].pc # "idle" =>
           thr'[r][u].op = thr[r][u].op /\ thr[r][u].pc # "idle"
  PROVE  Disciplined'
BY DEF Disciplined, Apart

LEMMA DisciplinedBegun ==
  ASSUME Basic, Careful, Disciplined, NEW p \in Peers, NEW t \in Threads, Begins(p, t)
  PROVE  Disciplined'
<1>1. PICK x \in Requesters :
        /\ thr' = [thr EXCEPT ![p][t] = x]
        /\ \A u \in Threads \ {t} : Apart(x, thr[p][u]) /\ Apart(thr[p][u], x)
  BY DEF Begins
<1>2. \A r \in Peers, u \in Threads : thr'[r][u] = IF r = p /\ u = t THEN x ELSE thr[r][u]
  BY <1>1 DEF Basic, Types, ThreadsType
<1>3. ASSUME NEW r \in Peers, NEW u \in Threads, NEW v \in Threads, u # v
      PROVE  Apart(thr'[r][u], thr'[r][v])
  <2>1. Apart(thr[r][u], thr[r][v])
    BY <1>3 DEF Disciplined
  <2>2. QED
    BY <1>1, <1>2, <1>3, <2>1
<1>4. QED
  BY <1>3 DEF Disciplined, Apart

LEMMA DisciplinedServed ==
  ASSUME Basic, Disciplined, NEW p \in Peers, NEW t \in Threads, NEW op, Turn(p, t, op),
         Stops(p, t) \/ \E m : Sends(p, t, m)
  PROVE  Disciplined'
<1>1. /\ \A r \in Peers, u \in Threads : ~(r = p /\ u = t) => thr'[r][u] = thr[r][u]
      /\ thr'[p][t].pc # "idle" => thr'[p][t].op = op
  BY ServedRequests DEF Basic
<1>2. thr[p][t].op = op /\ thr[p][t].pc # "idle"
  BY TurnTakes DEF Basic, Requesting
<1>3. QED
  BY <1>1, <1>2, DisciplinedKept

LEMMA DisciplinedWoken ==
  ASSUME Disciplined, Wakes
  PROVE  Disciplined'
BY DisciplinedKept DEF Wakes

LEMMA DisciplinedTaken ==
  ASSUME Basic, Disciplined, NEW p \in Peers, Takes(p)
  PROVE  Disciplined'
<1> DEFINE h == Head(inq[p])
<1>1. PICK x \in Requesters :
        /\ thr' = [thr EXCEPT ![p][h.t] = x]
        /\ x.pc = "idle" \/ (x.pc = "lookup" /\ h.op = "OPEN")
  BY DEF Takes
<1>2. h \in Answered(p)
  BY TakenRequests DEF Basic
<1>3. thr[p][h.t].pc = "pending" /\ thr[p][h.t].op = h.op
  BY <1>2 DEF Basic, Requesting, Corresponding, Matched, WaitsFor
<1>4. x.pc = "lookup" => x.op = "OPEN"
  BY DEF Requesters, Asking
<1> HIDE DEF h
<1>5. \A r \in Peers, u \in Threads : thr'[r][u] = IF r = p /\ u = h.t THEN x ELSE thr[r][u]
  BY <1>1 DEF Basic, Types, ThreadsType
<1>6. QED
  BY <1>1, <1>3, <1>4, <1>5, DisciplinedKept

\* While a close is under way the same end neither opens nor writes.
LEMMA ClosingAlone ==
  ASSUME Basic, Disciplined, NEW r \in Peers,
         NEW m \in Asked(r) \cup Answered(r), m.op = "CLOSE"
  PROVE  /\ \A n \in Asked(r) \cup Answered(r) : n.op \notin {"OPEN", "WRITE"}
         /\ \A t \in Threads : thr[r][t].pc # "idle" => thr[r][t].op \notin {"OPEN", "WRITE"}
<1>1. m.t \in Threads /\ thr[r][m.t].pc = "pending" /\ thr[r][m.t].op = "CLOSE"
  <2>1. m \in Letters
    BY MsgsType DEF Basic, Types
  <2>2. QED
    BY <2>1 DEF Basic, Requesting, Corresponding, Matched, WaitsFor, Letters, Messages
<1>2. \A t \in Threads : thr[r][t].pc # "idle" => thr[r][t].op \notin {"OPEN", "WRITE"}
  <2> SUFFICES ASSUME NEW t \in Threads, thr[r][t].pc # "idle"
               PROVE  thr[r][t].op \notin {"OPEN", "WRITE"}
    OBVIOUS
  <2>1. CASE t = m.t
    BY <1>1, <2>1
  <2>2. CASE t # m.t
    <3>1. Apart(thr[r][m.t], thr[r][t])
      BY <1>1, <2>2 DEF Disciplined
    <3>2. QED
      BY <1>1, <3>1 DEF Apart
  <2>3. QED
    BY <2>1, <2>2
<1>3. \A n \in Asked(r) \cup Answered(r) :
        n.t \in Threads /\ thr[r][n.t].pc = "pending" /\ thr[r][n.t].op = n.op
  <2>1. \A n \in Asked(r) \cup Answered(r) : n \in Letters
    BY MsgsType DEF Basic, Types
  <2>2. QED
    BY <2>1 DEF Basic, Requesting, Corresponding, Matched, WaitsFor, Letters, Messages
<1>4. QED
  BY <1>2, <1>3

-----------------------------------------------------------------------------
(* The flow of packets: what a step leaves alone.                            *)

Flow == Bounded /\ Closing /\ Opened /\ LevelExact /\ CreditExact /\ FreedIsEmpty

LEMMA LevelKept ==
  ASSUME LevelExact, \A r \in Peers : stream'[r].lfill = stream[r].lfill,
         UNCHANGED <<avail, held>>
  PROVE  LevelExact'
BY DEF LevelExact

LEMMA CreditMeans ==
  CreditExact <=> (fault = "none" => \A r \in Peers :
    /\ stream[r].rfill = stream[Other(r)].lfill + Total(OnWay(r)) + Total(Back(r))
    /\ stream[r].rpkts = Len(avail[Other(r)]) + Len(held[Other(r)])
                         + Len(OnWay(r)) + Len(Back(r)))
BY Zenon DEF CreditExact, OnWay, Back

LEMMA CreditKept ==
  ASSUME CreditExact, fault' = "none" => fault = "none", UNCHANGED <<avail, held>>,
         \A r \in Peers : SameLevels(r),
         fault' = "none" => \A r \in Peers : OnWay(r)' = OnWay(r) /\ Back(r)' = Back(r)
  PROVE  CreditExact'
<1>1. ASSUME fault' = "none", NEW r \in Peers
      PROVE  /\ stream'[r].rfill = stream'[Other(r)].lfill + Total(OnWay(r)') + Total(Back(r)')
             /\ stream'[r].rpkts = Len(avail'[Other(r)]) + Len(held'[Other(r)])
                                   + Len(OnWay(r)') + Len(Back(r)')
  BY <1>1, TwoPeers, CreditMeans, ZenonT(30) DEF SameLevels
<1>2. QED
  BY <1>1 DEF CreditExact, OnWay, Back

LEMMA BoundedKept ==
  ASSUME Bounded,
         \A r \in Peers : /\ SameLevels(r)
                          /\ stream'[r].ws = 0 =>
                               stream[r].ws = 0 \/ (stream[r].rfill = 0 /\ stream[r].rpkts = 0)
  PROVE  Bounded'
BY DEF Bounded, SameLevels

LEMMA FreedKept ==
  ASSUME FreedIsEmpty, UNCHANGED <<avail, held>>,
         \A r \in Peers : stream'[r].rs = 0 => stream[r].rs = 0 \/ (avail[r] = << >> /\ held[r] = << >>)
  PROVE  FreedIsEmpty'
BY DEF FreedIsEmpty

\* The messages that a close waits for.
SameCloses == \A r \in Peers :
  \A m \in Asked(r)' \cup Answered(r)' : m.op = "CLOSE" =>
    \E n \in Asked(r) \cup Answered(r) : n.op = "CLOSE" /\ n.id = m.id

LEMMA ClosingKept ==
  ASSUME Closing, SameCloses,
         \A r \in Peers : \A m \in Asked(r) \cup Answered(r) : m.op = "CLOSE" =>
           /\ stream'[r].rfill = stream[r].rfill /\ stream'[r].rpkts = stream[r].rpkts
           /\ \/ stream'[r].id = stream[r].id /\ stream'[r].ws = stream[r].ws
              \/ stream'[r].ws = 0
  PROVE  Closing'
<1>1. ASSUME NEW r \in Peers, NEW m \in Asked(r)' \cup Answered(r)', m.op = "CLOSE"
      PROVE  /\ stream'[r].rfill = 0 /\ stream'[r].rpkts = 0
             /\ stream'[r].id = m.id \/ stream'[r].ws = 0
  <2>1. PICK n \in Asked(r) \cup Answered(r) : n.op = "CLOSE" /\ n.id = m.id
    BY <1>1 DEF SameCloses
  <2>2. QED
    BY <2>1 DEF Closing
<1>2. QED
  BY <1>1 DEF Closing

SameAnswers(r) ==
  /\ \A m \in Answered(r)' : m.op = "OPEN" => m \in Answered(r)
  /\ \A m \in Answered(r) : m.op = "CLOSE" => m \in Answered(r)'

OpenedAt(r) ==
  \/ stream[Other(r)].rs # 0 \/ Frozen(Other(r))
  \/ /\ \A m \in Answered(r) : m.op # "OPEN"
     /\ stream[r].ws = 0 \/ \E m \in Answered(r) : m.op = "CLOSE"

LEMMA OpenedKept ==
  ASSUME Opened, NEW r \in Peers, SameEnds(r), SameEnds(Other(r)), SameAnswers(r)
  PROVE  OpenedAt(r)'
<1>1. OpenedAt(r)
  BY DEF Opened, OpenedAt
<1>2. CASE stream[Other(r)].rs # 0 \/ Frozen(Other(r))
  BY <1>2 DEF OpenedAt, Frozen, SameEnds
<1>3. CASE /\ \A m \in Answered(r) : m.op # "OPEN"
           /\ stream[r].ws = 0 \/ \E m \in Answered(r) : m.op = "CLOSE"
  <2>1. \A m \in Answered(r)' : m.op # "OPEN"
    BY <1>3 DEF SameAnswers
  <2>2. stream'[r].ws = 0 \/ \E m \in Answered(r)' : m.op = "CLOSE"
    BY <1>3 DEF SameAnswers, SameEnds
  <2>3. QED
    BY <2>1, <2>2 DEF OpenedAt
<1>4. QED
  BY <1>1, <1>2, <1>3 DEF OpenedAt

LEMMA OpenedAll ==
  ASSUME \A r \in Peers : OpenedAt(r)'
  PROVE  Opened'
BY DEF Opened, OpenedAt

SameStreams == \A r \in Peers : SameEnds(r) /\ SameLevels(r)

LEMMA StaysSame ==
  ASSUME NEW p \in Peers, \A r \in Peers : r # p => stream'[r] = stream[r],
         Levels(p, stream[p].rfill, stream[p].rpkts, stream[p].lfill)
  PROVE  SameStreams
BY DEF Levels, SameStreams, SameEnds, SameLevels

LEMMA UnchangedSame ==
  ASSUME stream' = stream
  PROVE  SameStreams
BY DEF SameStreams, SameEnds, SameLevels

\* A step that moves no packet and opens or closes nothing.
LEMMA QuietFlow ==
  ASSUME Flow, SameStreams, UNCHANGED <<avail, held>>, fault' = "none" => fault = "none",
         fault' = "none" => \A r \in Peers : OnWay(r)' = OnWay(r) /\ Back(r)' = Back(r),
         SameCloses, \A r \in Peers : SameAnswers(r)
  PROVE  Flow'
<1>1. \A r \in Peers : SameEnds(r) /\ SameLevels(r) /\ Other(r) \in Peers
  BY TwoPeers DEF SameStreams
<1>2. LevelExact'
  BY <1>1, LevelKept DEF Flow, SameLevels
<1>3. CreditExact'
  BY <1>1, CreditKept DEF Flow
<1>4. Bounded'
  BY <1>1, BoundedKept DEF Flow, SameEnds
<1>5. FreedIsEmpty'
  BY <1>1, FreedKept DEF Flow, SameEnds
<1>6. Closing'
  BY <1>1, ClosingKept DEF Flow, SameEnds, SameLevels
<1>7. Opened'
  BY <1>1, OpenedKept, OpenedAll DEF Flow
<1>8. QED
  BY <1>2, <1>3, <1>4, <1>5, <1>6, <1>7 DEF Flow

LEMMA SameMessagesQuiet ==
  ASSUME SameMessages
  PROVE  SameCloses /\ \A r \in Peers : SameAnswers(r)
BY DEF SameMessages, SameCloses, SameAnswers

\* What each kind of message changes of the two directions.
LEMMA SentLines ==
  ASSUME Basic, NEW p \in Peers, NEW t \in Threads, NEW op, Turn(p, t, op), NEW m, Sends(p, t, m)
  PROVE  LET q == Other(p) IN
         /\ OnWay(p)' = IF m.op = "WRITE" THEN Append(OnWay(p), m.size) ELSE OnWay(p)
         /\ Back(q)' = IF m.op = "REL" THEN Append(Back(q), m.size) ELSE Back(q)
         /\ OnWay(q)' = OnWay(q) /\ Back(p)' = Back(p)
<1> DEFINE q == Other(p)
<1>0. q \in Peers /\ q # p /\ Types /\ Requesting
  BY TwoPeers DEF Basic
<1>1. m \in Letters /\ m.kind = "req" /\ wire' = [wire EXCEPT ![p] = Append(@, m)]
  BY DEF Sends
<1>2. Line(p)' = Append(Line(p), m) /\ Line(q)' = Line(q)
  BY <1>0, SentRequests
<1>3. wire'[p] = Append(wire[p], m) /\ wire'[q] = wire[q]
  BY <1>0, <1>1 DEF Types, WireType
<1>4. OnWay(p)' = IF m.op = "WRITE" THEN Append(OnWay(p), m.size) ELSE OnWay(p)
  BY <1>0, <1>1, <1>3, SentOnWay DEF Is
<1>5. Back(q)' = IF m.op = "REL" THEN Append(Back(q), m.size) ELSE Back(q)
  BY <1>0, <1>1, <1>2, SentBack DEF Is
<1>6. OnWay(q)' = OnWay(q) /\ Back(p)' = Back(p)
  BY <1>2, <1>3 DEF OnWay, Back
<1>7. QED
  BY <1>4, <1>5, <1>6

LEMMA AnsweredLines ==
  ASSUME Basic, NEW p \in Peers, NEW a, Answers(p, a)
  PROVE  LET q == Other(p) IN
         /\ OnWay(p)' = OnWay(p) /\ OnWay(q)' = OnWay(q) /\ Back(q)' = Back(q)
         /\ Back(p) = IF a.op = "REL" THEN <<a.size>> \o Back(p)' ELSE Back(p)'
<1> DEFINE q == Other(p)
           h == Head(inq[p])
<1>0. q \in Peers /\ q # p /\ Types /\ Requesting
  BY TwoPeers DEF Basic
<1>1. /\ a \in Letters /\ a.kind = "resp" /\ h.kind = "req" /\ a.op = h.op /\ a.size = h.size
      /\ wire' = [wire EXCEPT ![p] = Append(@, a)]
  BY DEF Answers
<1>2. /\ Line(p)' = Append(Line(p), a) /\ Line(q)' = Tail(Line(q))
      /\ Line(q) # << >> /\ h = Head(Line(q))
  BY <1>0, AnsweredRequests
<1>3. wire'[p] = Append(wire[p], a) /\ wire'[q] = wire[q]
  BY <1>0, <1>1 DEF Types, WireType
<1> HIDE DEF h
<1>4. OnWay(p)' = OnWay(p)
  BY <1>0, <1>1, <1>3, SentOnWay DEF Is
<1>5. Back(q)' = Back(q)
  BY <1>0, <1>1, <1>2, SentBack DEF Is
<1>6. OnWay(q)' = OnWay(q)
  BY <1>3 DEF OnWay
<1>7. Back(p) = IF Is(h, "REL") THEN <<h.size>> \o Back(p)' ELSE Back(p)'
  BY <1>0, <1>2, TakenBack
<1>8. QED
  BY <1>1, <1>4, <1>5, <1>6, <1>7 DEF Is

LEMMA TakenLines ==
  ASSUME Basic, NEW p \in Peers, Takes(p)
  PROVE  \A r \in Peers : OnWay(r)' = OnWay(r) /\ Back(r)' = Back(r)
<1> DEFINE q == Other(p)
           h == Head(inq[p])
<1>0. q \in Peers /\ Other(q) = p /\ Types /\ Requesting /\ \A r \in Peers : r = p \/ r = q
  BY TwoPeers DEF Basic
<1>1. h.kind = "resp" /\ wire' = wire
  BY DEF Takes
<1>2. /\ Line(p)' = Line(p) /\ Line(q)' = Tail(Line(q))
      /\ Line(q) # << >> /\ h = Head(Line(q))
  BY <1>0, TakenRequests
<1> HIDE DEF h
<1>3. Back(p) = IF Is(h, "REL") THEN <<h.size>> \o Back(p)' ELSE Back(p)'
  BY <1>0, <1>2, TakenBack
<1>4. Back(p)' = Back(p) /\ Back(q)' = Back(q)
  <2>1. ~Is(h, "REL")
    BY <1>1 DEF Is
  <2>2. Back(q)' = Back(q)
    BY <1>0, <1>2 DEF Back
  <2>3. QED
    BY <1>3, <2>1, <2>2
<1>5. QED
  BY <1>0, <1>1, <1>4 DEF OnWay

\* Steps that move no packet.
LEMMA FlowSame ==
  ASSUME Basic, Flow, SameStreams, UNCHANGED <<avail, held>>, fault' = "none" => fault = "none",
         SameMessages, wire' = wire
  PROVE  Flow'
<1>1. \A r \in Peers : OnWay(r)' = OnWay(r) /\ Back(r)' = Back(r)
  BY TwoPeers DEF SameMessages, OnWay, Back
<1>2. QED
  BY <1>1, QuietFlow, SameMessagesQuiet

LEMMA FlowPeerNotFound ==
  ASSUME Basic, Flow, NEW p \in Peers, RemoteReleaseNotFound(p)
  PROVE  Flow'
<1>1. /\ UNCHANGED <<data, thr, wire, usage>> /\ fault' = "noStream"
      /\ \A r \in Peers : Asked(r)' \subseteq Asked(r) /\ Answered(r)' = Answered(r)
  BY PeerNotFoundRequests DEF Basic
<1>2. SameCloses /\ \A r \in Peers : SameAnswers(r)
  BY <1>1 DEF SameCloses, SameAnswers
<1>3. SameStreams /\ UNCHANGED <<avail, held>>
  BY <1>1, UnchangedSame DEF data
<1>4. QED
  BY <1>1, <1>2, <1>3, QuietFlow

LEMMA FlowAsksOpen ==
  ASSUME Basic, Flow, NEW p \in Peers, NEW t \in Threads, Turn(p, t, "OPEN"), AsksOpen(p, t)
  PROVE  Flow'
<1>1. PICK m : Sends(p, t, m) /\ m.op = "OPEN" /\ UNCHANGED data /\ fault' = fault
  BY DEF AsksOpen, Sends, Msg
<1>2. /\ Asked(p)' = Asked(p) \cup {m} /\ Answered(p)' = Answered(p)
      /\ Asked(Other(p))' = Asked(Other(p)) /\ Answered(Other(p))' = Answered(Other(p))
  BY <1>1, SentRequests DEF Basic
<1>3. \A r \in Peers : r = p \/ r = Other(p)
  BY TwoPeers
<1>4. SameCloses /\ \A r \in Peers : SameAnswers(r)
  BY <1>1, <1>2, <1>3 DEF SameCloses, SameAnswers
<1>5. \A r \in Peers : OnWay(r)' = OnWay(r) /\ Back(r)' = Back(r)
  BY <1>1, <1>3, SentLines
<1>6. SameStreams /\ UNCHANGED <<avail, held>>
  BY <1>1, UnchangedSame DEF data
<1>7. QED
  BY <1>1, <1>4, <1>5, <1>6, QuietFlow

LEMMA FlowMoves ==
  ASSUME Basic, Flow, NEW p \in Peers, Moves(p)
  PROVE  Flow'
<1> DEFINE q == Other(p)
           m == Head(wire[q])
<1>0. q \in Peers /\ Other(q) = p /\ \A r \in Peers : r = p \/ r = q
  BY TwoPeers
<1>1. /\ wire[q] # << >> /\ ~Is(m, "WRITE") /\ UNCHANGED <<data, fault>>
  BY DEF Moves
<1>2. SameMessages /\ wire'[p] = wire[p] /\ wire'[q] = Tail(wire[q])
  BY MovedRequests DEF Basic
<1>3. OnWay(q)' = OnWay(q)
  <2>1. OnWay(q) = IF Is(m, "WRITE") THEN <<m.size>> \o OnWay(q)' ELSE OnWay(q)'
    BY <1>0, <1>1, <1>2, ReadOnWay DEF Basic
  <2>2. QED
    BY <1>1, <2>1
<1>4. \A r \in Peers : OnWay(r)' = OnWay(r) /\ Back(r)' = Back(r)
  BY <1>0, <1>2, <1>3, TwoPeers DEF OnWay, Back, SameMessages
<1>5. SameStreams /\ UNCHANGED <<avail, held>>
  BY <1>1, UnchangedSame DEF data
<1>6. QED
  BY <1>1, <1>2, <1>4, <1>5, QuietFlow, SameMessagesQuiet

LEMMA FlowAnswered ==
  ASSUME Basic, Flow, NEW p \in Peers, NEW a, AnsweredWrite(p, a) \/ AnsweredClose(p, a),
         Levels(p, stream[p].rfill, stream[p].rpkts, stream[p].lfill)
  PROVE  Flow'
<1> DEFINE q == Other(p)
           h == Head(inq[p])
<1>0. q \in Peers /\ Other(q) = p /\ \A r \in Peers : r = p \/ r = q
  BY TwoPeers
<1>1. /\ Answers(p, a) /\ a.op \in {"WRITE", "CLOSE"} /\ (a.op = "CLOSE" => a.id = h.id)
      /\ \A r \in Peers : r # p => stream'[r] = stream[r]
  BY DEF AnsweredWrite, AnsweredClose, Stays
<1>2. UNCHANGED <<avail, held, fault>> /\ a.op = h.op
  BY <1>1 DEF Answers
<1>3. /\ h \in Asked(q) /\ Asked(q)' \subseteq Asked(q) /\ Answered(q)' = Answered(q) \cup {a}
      /\ Asked(p)' = Asked(p) /\ Answered(p)' = Answered(p)
  BY <1>1, AnsweredRequests DEF Basic
<1> HIDE DEF q, h
<1>4. SameCloses
  BY <1>0, <1>1, <1>2, <1>3 DEF SameCloses
<1>5. \A r \in Peers : SameAnswers(r)
  BY <1>0, <1>1, <1>3 DEF SameAnswers
<1>6. \A r \in Peers : OnWay(r)' = OnWay(r) /\ Back(r)' = Back(r)
  BY <1>0, <1>1, AnsweredLines DEF q
<1>7. SameStreams
  BY <1>1, StaysSame
<1>8. QED
  BY <1>2, <1>4, <1>5, <1>6, <1>7, QuietFlow

LEMMA FlowTakenData ==
  ASSUME Basic, Flow, NEW p \in Peers, TakenData(p)
  PROVE  Flow'
<1> DEFINE q == Other(p)
           h == Head(inq[p])
<1>0. q \in Peers /\ Other(q) = p /\ \A r \in Peers : r = p \/ r = q
  BY TwoPeers
<1>1. /\ Takes(p) /\ h.op \in {"WRITE", "REL"} /\ UNCHANGED <<avail, held, fault>>
      /\ \A r \in Peers : r # p => stream'[r] = stream[r]
      /\ Levels(p, stream[p].rfill, stream[p].rpkts, stream[p].lfill)
  BY DEF TakenData, Stays, Takes
<1>2. /\ Answered(p) = Answered(p)' \cup {h} /\ Asked(q)' = Asked(q)
      /\ Asked(p)' = Asked(p) /\ Answered(q)' = Answered(q)
  BY <1>1, TakenRequests DEF Basic
<1> HIDE DEF q, h
<1>3. SameCloses /\ \A r \in Peers : SameAnswers(r)
  BY <1>0, <1>1, <1>2 DEF SameCloses, SameAnswers
<1>4. QED
  BY <1>1, <1>3, TakenLines, StaysSame, QuietFlow

-----------------------------------------------------------------------------
(* The flow of packets: writing, reading and releasing.                      *)

LEMMA PacketAdded ==
  ASSUME NEW s \in Seq(Packets), NEW x \in Packets
  PROVE  /\ Append(s, x) \in Seq(Packets) /\ Total(s) \in Int /\ x \in Int
         /\ Total(Append(s, x)) = Total(s) + x /\ Len(Append(s, x)) = Len(s) + 1
         /\ Len(s) \in Nat
<1>1. s \in Seq(Int) /\ x \in Int
  BY DEF Packets
<1>2. QED
  BY <1>1, TotalAppend, TotalInt

LEMMA PacketTaken ==
  ASSUME NEW s \in Seq(Packets), s # << >>
  PROVE  /\ Tail(s) \in Seq(Packets) /\ Head(s) \in Packets /\ Head(s) \in Int
         /\ Total(Tail(s)) \in Int /\ Total(s) = Head(s) + Total(Tail(s))
         /\ Len(Tail(s)) = Len(s) - 1 /\ Len(s) \in Nat
<1>1. s \in Seq(Int) /\ Tail(s) \in Seq(Packets) /\ Head(s) \in Packets
      /\ Len(Tail(s)) = Len(s) - 1 /\ Len(s) \in Nat
  BY DEF Packets
<1>2. Tail(s) \in Seq(Int) /\ Head(s) \in Int
  BY <1>1 DEF Packets
<1>3. QED
  BY <1>1, <1>2, TotalHead, TotalInt

LEMMA PacketFirst ==
  ASSUME NEW s, NEW r \in Seq(Packets), NEW x \in Packets, s = <<x>> \o r
  PROVE  /\ s \in Seq(Packets) /\ s # << >> /\ Head(s) = x
         /\ Total(r) \in Int /\ x \in Int /\ Total(s) = x + Total(r)
         /\ Len(s) = Len(r) + 1 /\ Len(r) \in Nat
<1>1. s \in Seq(Packets) /\ s # << >> /\ Head(s) = x /\ Tail(s) = r /\ Len(s) = Len(r) + 1
      /\ Len(r) \in Nat
  OBVIOUS
<1>2. QED
  BY <1>1, PacketTaken

CreditAt(r) ==
  /\ stream[r].rfill = stream[Other(r)].lfill + Total(OnWay(r)) + Total(Back(r))
  /\ stream[r].rpkts = Len(avail[Other(r)]) + Len(held[Other(r)])
                       + Len(OnWay(r)) + Len(Back(r))

LEMMA CreditAll ==
  ASSUME fault' = "none" => \A r \in Peers : CreditAt(r)'
  PROVE  CreditExact'
BY DEF CreditExact, CreditAt, OnWay, Back

LEMMA CreditHeld ==
  ASSUME CreditExact, fault = "none", NEW r \in Peers
  PROVE  CreditAt(r)
BY DEF CreditExact, CreditAt, OnWay, Back

LEMMA CreditSame ==
  ASSUME CreditExact, fault = "none", NEW r \in Peers,
         stream'[r].rfill = stream[r].rfill, stream'[r].rpkts = stream[r].rpkts,
         stream'[Other(r)].lfill = stream[Other(r)].lfill,
         avail'[Other(r)] = avail[Other(r)], held'[Other(r)] = held[Other(r)],
         OnWay(r)' = OnWay(r), Back(r)' = Back(r)
  PROVE  CreditAt(r)'
<1>1. CreditAt(r)
  BY CreditHeld
<1>2. /\ stream'[r].rfill = stream'[Other(r)].lfill + Total(OnWay(r)') + Total(Back(r)')
      /\ stream'[r].rpkts = Len(avail'[Other(r)]) + Len(held'[Other(r)])
                            + Len(OnWay(r)') + Len(Back(r)')
  BY <1>1 DEF CreditAt
<1>3. QED
  BY <1>2 DEF CreditAt

LEMMA FlowWrites ==
  ASSUME Basic, Flow, Disciplined, NEW p \in Peers, NEW t \in Threads, Turn(p, t, "WRITE"),
         Writes(p, t)
  PROVE  Flow'
<1> DEFINE q == Other(p)
           m == Msg("req", "WRITE", thr[p][t].id, thr[p][t].size, t)
<1>0. /\ q \in Peers /\ q # p /\ Other(q) = p /\ \A r \in Peers : r = p \/ r = q
      /\ Types /\ Requesting /\ StreamsType
  BY TwoPeers DEF Basic, Types
<1>1. /\ Sends(p, t, m) /\ m.size \in Sizes /\ m.op = "WRITE" /\ SpaceFor(stream[p], m.size)
      /\ stream' = [stream EXCEPT ![p].rfill = @ + m.size, ![p].rpkts = @ + 1]
      /\ UNCHANGED <<avail, held, nextSid, fault>>
  BY DEF Writes, Sends, Msg
<1>2. m.size \in Packets /\ m.size \in Nat
  BY <1>1, StreamAssumption DEF Packets
<1>3. fault = "none" /\ thr[p][t].pc # "idle" /\ thr[p][t].op = "WRITE"
  BY <1>0, TurnTakes DEF Requesting
<1> HIDE DEF m, q
<1>4. /\ \A r \in Peers : r # p => stream'[r] = stream[r]
      /\ SameEnds(p)
      /\ stream'[p].rfill = stream[p].rfill + m.size
      /\ stream'[p].rpkts = stream[p].rpkts + 1 /\ stream'[p].lfill = stream[p].lfill
  BY <1>0, <1>1, <1>2, LevelsChange DEF Levels
<1>5. /\ Asked(p)' = Asked(p) \cup {m} /\ Answered(p)' = Answered(p)
      /\ Asked(q)' = Asked(q) /\ Answered(q)' = Answered(q)
  BY <1>0, <1>1, SentRequests DEF q
<1>6. /\ OnWay(p)' = Append(OnWay(p), m.size) /\ Back(p)' = Back(p)
      /\ OnWay(q)' = OnWay(q) /\ Back(q)' = Back(q)
  BY <1>1, SentLines DEF q
<1>7. LevelExact'
  BY <1>1, <1>4, LevelKept DEF Flow
<1>8. CreditAt(p)'
  <2>1. /\ OnWay(p) \in Seq(Packets) /\ Back(p) \in Seq(Packets)
        /\ avail[q] \in Seq(Packets) /\ held[q] \in Seq(Packets)
        /\ stream[q].lfill \in Int /\ Total(Back(p)) \in Int
    <3>1. /\ OnWay(p) \in Seq(Packets) /\ Back(p) \in Seq(Packets)
          /\ avail[q] \in Seq(Packets) /\ held[q] \in Seq(Packets)
          /\ Total(Back(p)) \in Nat
      BY <1>0, <1>3, Direction DEF Flow, q
    <3>2. QED
      BY <1>0, <3>1 DEF StreamsType
  <2>2. CreditAt(p) /\ stream'[q] = stream[q]
    BY <1>0, <1>3, <1>4, CreditHeld DEF Flow
  <2>3. /\ Total(OnWay(p)') = Total(OnWay(p)) + m.size /\ Total(OnWay(p)) \in Int
        /\ Len(OnWay(p)') = Len(OnWay(p)) + 1 /\ Len(OnWay(p)) \in Nat
    BY <1>2, <1>6, <2>1, PacketAdded
  <2>4. stream'[p].rfill = stream'[q].lfill + Total(OnWay(p)') + Total(Back(p)')
    BY <1>2, <1>4, <1>6, <2>1, <2>2, <2>3, SMTT(30) DEF CreditAt, q
  <2>5. stream'[p].rpkts = Len(avail'[q]) + Len(held'[q]) + Len(OnWay(p)') + Len(Back(p)')
    <3>0. /\ Len(avail[q]) \in Nat /\ Len(held[q]) \in Nat /\ Len(Back(p)) \in Nat
          /\ Len(OnWay(p)) \in Nat
      BY <2>1
    <3>1. PICK a, h, b, w \in Nat :
            a = Len(avail[q]) /\ h = Len(held[q]) /\ b = Len(Back(p)) /\ w = Len(OnWay(p))
      BY <3>0, Zenon
    <3>2. stream[p].rpkts = a + h + w + b
      BY <2>2, <3>1 DEF CreditAt, q
    <3>3. Len(avail'[q]) = a /\ Len(held'[q]) = h /\ Len(Back(p)') = b /\ Len(OnWay(p)') = w + 1
      BY <1>1, <1>6, <2>3, <3>1
    <3>4. stream'[p].rpkts = a + h + (w + 1) + b
      BY <1>4, <3>2
    <3>5. QED
      BY <3>3, <3>4
  <2>6. QED
    BY <2>4, <2>5 DEF CreditAt, q
<1>9. CreditExact'
  <2>1. CreditAt(q)'
    BY <1>0, <1>1, <1>3, <1>4, <1>6, CreditSame DEF Flow
  <2>2. QED
    BY <1>0, <1>8, <2>1, CreditAll
<1>10. Bounded'
  <2>1. /\ stream[p].rpkts \in 0 .. MaxPackets /\ stream[p].rfill \in Nat /\ stream[p].ws \in Nat
        /\ MaxPackets \in Nat /\ stream[p].rpkts < MaxPackets
        /\ stream[p].rfill + m.size <= stream[p].ws
    BY <1>0, <1>1, StreamAssumption DEF Flow, Bounded, SpaceFor, StreamsType
  <2>2. stream'[p].ws # 0 /\ stream'[p].rfill \in Nat /\ stream'[p].rpkts \in 0 .. MaxPackets
    BY <1>2, <1>4, <2>1 DEF SameEnds, Packets
  <2>3. QED
    BY <1>4, <2>2 DEF Flow, Bounded
<1>11. FreedIsEmpty'
  BY <1>1, <1>4, FreedKept DEF Flow, SameEnds
<1>12. Closing'
  <2>1. SameCloses
    BY <1>0, <1>1, <1>5 DEF SameCloses
  <2>2. \A n \in Asked(p) \cup Answered(p) : n.op # "CLOSE"
    BY <1>3, ClosingAlone
  <2>3. QED
    BY <1>0, <1>4, <2>1, <2>2, ClosingKept DEF Flow
<1>13. Opened'
  <2>1. \A r \in Peers : SameEnds(r) /\ SameAnswers(r) /\ Other(r) \in Peers
    BY <1>0, <1>4, <1>5 DEF SameEnds, SameAnswers, q
  <2>2. QED
    BY <2>1, OpenedKept, OpenedAll DEF Flow
<1>14. QED
  BY <1>7, <1>9, <1>10, <1>11, <1>12, <1>13 DEF Flow

\* The numbers of a direction, to calculate with.
LEMMA CreditPick ==
  ASSUME Basic, Flow, fault = "none", NEW r \in Peers
  PROVE  \E l, w, b \in Int : \E a, h, n, k \in Nat :
           /\ l = stream[Other(r)].lfill /\ w = Total(OnWay(r)) /\ b = Total(Back(r))
           /\ a = Len(avail[Other(r)]) /\ h = Len(held[Other(r)])
           /\ n = Len(OnWay(r)) /\ k = Len(Back(r))
           /\ stream[r].rfill = l + w + b /\ stream[r].rpkts = a + h + n + k
<1> DEFINE q == Other(r)
<1>1. q \in Peers /\ StreamsType /\ Types
  BY TwoPeers DEF Basic, Types
<1>2. /\ OnWay(r) \in Seq(Packets) /\ Back(r) \in Seq(Packets)
      /\ avail[q] \in Seq(Packets) /\ held[q] \in Seq(Packets)
      /\ Total(OnWay(r)) \in Nat /\ Total(Back(r)) \in Nat
      /\ stream[r].rfill = stream[q].lfill + Total(OnWay(r)) + Total(Back(r))
      /\ stream[r].rpkts = Len(avail[q]) + Len(held[q]) + Len(OnWay(r)) + Len(Back(r))
  BY <1>1, Direction DEF Flow
<1>3. stream[q].lfill \in Int
  BY <1>1 DEF StreamsType
<1>4. /\ Len(avail[q]) \in Nat /\ Len(held[q]) \in Nat
      /\ Len(Back(r)) \in Nat /\ Len(OnWay(r)) \in Nat
  BY <1>2
<1>5. Total(OnWay(r)) \in Int /\ Total(Back(r)) \in Int
  BY <1>2
<1> HIDE DEF q
<1>6. QED
  BY <1>2, <1>3, <1>4, <1>5, Zenon DEF q

LEMMA FlowReads ==
  ASSUME Basic, Flow, NEW p \in Peers, NEW t \in Threads, Turn(p, t, "READ"), Reads(p, t)
  PROVE  Flow'
<1> DEFINE q == Other(p)
<1>0. /\ q \in Peers /\ q # p /\ Other(q) = p /\ \A r \in Peers : r = p \/ r = q
      /\ Types /\ Requesting /\ StreamsType /\ PacketsType
  BY TwoPeers DEF Basic, Types
<1>1. /\ Stops(p, t) /\ avail[p] # << >>
      /\ avail' = [avail EXCEPT ![p] = Tail(@)]
      /\ held' = [held EXCEPT ![p] = Append(@, Head(avail[p]))]
      /\ stream' = stream /\ fault' = fault /\ wire' = wire
  BY DEF Reads, Stops
<1>2. SameMessages /\ fault = "none"
  BY <1>0, <1>1, StoppedRequests, TurnTakes DEF Requesting
<1> HIDE DEF q
<1>3. \A r \in Peers : OnWay(r)' = OnWay(r) /\ Back(r)' = Back(r)
  BY <1>1, <1>2, TwoPeers DEF SameMessages, OnWay, Back
<1>4. avail[p] \in Seq(Packets) /\ held[p] \in Seq(Packets)
  BY <1>0 DEF PacketsType
<1>5. /\ avail'[p] = Tail(avail[p]) /\ held'[p] = Append(held[p], Head(avail[p]))
      /\ \A r \in Peers : r # p => avail'[r] = avail[r] /\ held'[r] = held[r]
  BY <1>0, <1>1 DEF PacketsType
<1>6. /\ Head(avail[p]) \in Packets /\ Head(avail[p]) \in Int
      /\ Total(Tail(avail[p])) \in Int
      /\ Total(avail[p]) = Head(avail[p]) + Total(Tail(avail[p]))
      /\ Len(Tail(avail[p])) = Len(avail[p]) - 1 /\ Len(avail[p]) \in Nat
  BY <1>1, <1>4, PacketTaken
<1>7. /\ Total(held'[p]) = Total(held[p]) + Head(avail[p]) /\ Total(held[p]) \in Int
      /\ Len(held'[p]) = Len(held[p]) + 1 /\ Len(held[p]) \in Nat
  <2>1. PICK c \in Seq(Packets), x \in Packets : c = held[p] /\ x = Head(avail[p])
    BY <1>4, <1>6
  <2>2. Total(Append(c, x)) = Total(c) + x /\ Total(c) \in Int
        /\ Len(Append(c, x)) = Len(c) + 1 /\ Len(c) \in Nat
    BY PacketAdded
  <2>3. QED
    BY <1>5, <2>1, <2>2
<1>8. LevelExact'
  <2>1. stream'[p].lfill = Total(avail'[p]) + Total(held'[p])
    <3>1. stream[p].lfill = Total(avail[p]) + Total(held[p])
      BY DEF Flow, LevelExact
    <3>2. QED
      BY <1>1, <1>5, <1>6, <1>7, <3>1
  <2>2. QED
    BY <1>1, <1>5, <2>1 DEF Flow, LevelExact
<1>9. CreditExact'
  <2>1. CreditAt(p)'
    BY <1>0, <1>1, <1>2, <1>3, <1>5, CreditSame DEF Flow, q
  <2>2. CreditAt(q)'
    <3>1. CreditAt(q)
      BY <1>0, <1>2, CreditHeld DEF Flow
    <3>2. PICK l, w, b \in Int : \E a, h, n, k \in Nat :
            /\ l = stream[Other(q)].lfill /\ w = Total(OnWay(q)) /\ b = Total(Back(q))
            /\ a = Len(avail[Other(q)]) /\ h = Len(held[Other(q)])
            /\ n = Len(OnWay(q)) /\ k = Len(Back(q))
            /\ stream[q].rfill = l + w + b /\ stream[q].rpkts = a + h + n + k
      BY <1>0, <1>2, CreditPick
    <3>3. PICK a, h, n, k \in Nat :
            /\ a = Len(avail[p]) /\ h = Len(held[p])
            /\ n = Len(OnWay(q)) /\ k = Len(Back(q))
            /\ stream[q].rpkts = a + h + n + k
      BY <1>0, <3>2
    <3>4. stream[q].rpkts = (a - 1) + (h + 1) + n + k
      <4>1. stream[q].rpkts = a + h + n + k
        BY <3>3
      <4>2. QED
        BY <4>1
    <3>5. Len(avail'[p]) = a - 1 /\ Len(held'[p]) = h + 1 /\ Len(OnWay(q)') = n
          /\ Len(Back(q)') = k
      BY <1>0, <1>3, <1>5, <1>6, <1>7, <3>3
    <3>6. stream'[q].rpkts = Len(avail'[p]) + Len(held'[p]) + Len(OnWay(q)') + Len(Back(q)')
      BY <1>1, <3>4, <3>5
    <3>7. stream'[q].rfill = stream'[p].lfill + Total(OnWay(q)') + Total(Back(q)')
      BY <1>0, <1>1, <1>3, <3>1 DEF CreditAt
    <3>8. QED
      BY <1>0, <3>6, <3>7 DEF CreditAt
  <2>3. QED
    BY <1>0, <2>1, <2>2, CreditAll
<1>10. SameStreams
  BY <1>1, UnchangedSame
<1>11. Bounded' /\ Closing' /\ Opened'
  <2>1. \A r \in Peers : SameEnds(r) /\ SameLevels(r) /\ SameAnswers(r) /\ Other(r) \in Peers
    BY <1>2, <1>10, TwoPeers, SameMessagesQuiet DEF SameStreams
  <2>2. Bounded'
    BY <2>1, BoundedKept DEF Flow, SameEnds
  <2>3. Closing'
    BY <1>2, <2>1, SameMessagesQuiet, ClosingKept DEF Flow, SameEnds, SameLevels
  <2>4. Opened'
    BY <2>1, OpenedKept, OpenedAll DEF Flow
  <2>5. QED
    BY <2>2, <2>3, <2>4
<1>12. FreedIsEmpty'
  BY <1>1, <1>5 DEF Flow, FreedIsEmpty
<1>13. QED
  BY <1>8, <1>9, <1>11, <1>12 DEF Flow

LEMMA FlowReleases ==
  ASSUME Basic, Flow, NEW p \in Peers, NEW t \in Threads, Turn(p, t, "REL"), Releases(p, t)
  PROVE  Flow'
<1> DEFINE q == Other(p)
           x == Head(held[p])
           m == Msg("req", "REL", thr[p][t].id, x, t)
<1>0. /\ q \in Peers /\ q # p /\ Other(q) = p /\ \A r \in Peers : r = p \/ r = q
      /\ Types /\ Requesting /\ StreamsType /\ PacketsType
  BY TwoPeers DEF Basic, Types
<1>1. /\ Sends(p, t, m) /\ m.op = "REL" /\ m.size = x /\ held[p] # << >>
      /\ held' = [held EXCEPT ![p] = Tail(@)]
      /\ stream' = [stream EXCEPT ![p].lfill = @ - x]
      /\ UNCHANGED <<avail, nextSid, fault>>
  BY DEF Releases, Sends, Msg
<1>2. fault = "none"
  BY <1>0, TurnTakes DEF Requesting
<1>3. /\ x \in Packets /\ x \in Int /\ x \in Nat
      /\ Total(Tail(held[p])) \in Int /\ Total(held[p]) = x + Total(Tail(held[p]))
      /\ Len(Tail(held[p])) = Len(held[p]) - 1 /\ Len(held[p]) \in Nat
  <2>1. held[p] \in Seq(Packets)
    BY <1>0 DEF PacketsType
  <2>2. QED
    BY <1>1, <2>1, PacketTaken DEF Packets
<1> HIDE DEF q, m, x
<1>4. /\ \A r \in Peers : r # p => stream'[r] = stream[r]
      /\ SameEnds(p)
      /\ stream'[p].rfill = stream[p].rfill /\ stream'[p].rpkts = stream[p].rpkts
      /\ stream'[p].lfill = stream[p].lfill - x
  BY <1>0, <1>1, <1>3, LevelsChange DEF Levels
<1>5. /\ held'[p] = Tail(held[p]) /\ avail' = avail
      /\ \A r \in Peers : r # p => held'[r] = held[r]
  BY <1>0, <1>1 DEF PacketsType
<1>6. /\ Asked(p)' = Asked(p) \cup {m} /\ Answered(p)' = Answered(p)
      /\ Asked(q)' = Asked(q) /\ Answered(q)' = Answered(q)
  BY <1>0, <1>1, SentRequests DEF q
<1>7. /\ OnWay(p)' = OnWay(p) /\ Back(p)' = Back(p)
      /\ OnWay(q)' = OnWay(q) /\ Back(q)' = Append(Back(q), x)
  BY <1>1, SentLines DEF q
<1>8. LevelExact'
  <2>1. stream'[p].lfill = Total(avail'[p]) + Total(held'[p])
    <3>1. stream[p].lfill = Total(avail[p]) + Total(held[p]) /\ Total(avail[p]) \in Int
      <4>1. avail[p] \in Seq(Packets)
        BY <1>0 DEF PacketsType
      <4>2. QED
        BY <4>1, TotalNat DEF Flow, LevelExact
    <3>2. QED
      BY <1>3, <1>4, <1>5, <3>1
  <2>2. QED
    BY <1>4, <1>5, <2>1 DEF Flow, LevelExact
<1>9. CreditExact'
  <2>1. CreditAt(p)'
    BY <1>0, <1>2, <1>4, <1>5, <1>7, CreditSame DEF Flow, q
  <2>2. CreditAt(q)'
    <3>1. PICK l, w, b \in Int : \E a, h, n, k \in Nat :
            /\ l = stream[Other(q)].lfill /\ w = Total(OnWay(q)) /\ b = Total(Back(q))
            /\ a = Len(avail[Other(q)]) /\ h = Len(held[Other(q)])
            /\ n = Len(OnWay(q)) /\ k = Len(Back(q))
            /\ stream[q].rfill = l + w + b /\ stream[q].rpkts = a + h + n + k
      BY <1>0, <1>2, CreditPick
    <3>2. PICK a, h, n, k \in Nat :
            /\ a = Len(avail[p]) /\ h = Len(held[p])
            /\ n = Len(OnWay(q)) /\ k = Len(Back(q))
            /\ stream[q].rpkts = a + h + n + k
      BY <1>0, <3>1
    <3>3. Total(Back(q)') = b + x /\ Len(Back(q)') = k + 1
      <4>1. Back(q) \in Seq(Packets)
        BY <1>0, <1>2, Direction DEF Flow
      <4>2. QED
        BY <1>3, <1>7, <3>1, <3>2, <4>1, PacketAdded
    <3>4. stream[q].rpkts = a + (h - 1) + n + (k + 1) /\ stream[q].rfill = (l - x) + w + (b + x)
      <4>1. stream[q].rpkts = a + h + n + k /\ stream[q].rfill = l + w + b
        BY <3>1, <3>2
      <4>2. QED
        BY <1>3, <4>1
    <3>5. stream'[q].rpkts = Len(avail'[p]) + Len(held'[p]) + Len(OnWay(q)') + Len(Back(q)')
      <4>1. Len(avail'[p]) = a /\ Len(held'[p]) = h - 1 /\ Len(OnWay(q)') = n
        BY <1>3, <1>5, <1>7, <3>2
      <4>2. QED
        BY <1>0, <1>4, <3>3, <3>4, <4>1
    <3>6. stream'[q].rfill = stream'[p].lfill + Total(OnWay(q)') + Total(Back(q)')
      <4>1. stream'[p].lfill = l - x /\ Total(OnWay(q)') = w
        BY <1>0, <1>4, <1>7, <3>1
      <4>2. QED
        BY <1>0, <1>4, <3>3, <3>4, <4>1
    <3>7. QED
      BY <1>0, <3>5, <3>6 DEF CreditAt
  <2>3. QED
    BY <1>0, <2>1, <2>2, CreditAll
<1>10. \A r \in Peers : /\ SameEnds(r) /\ SameAnswers(r) /\ Other(r) \in Peers
                        /\ stream'[r].rfill = stream[r].rfill /\ stream'[r].rpkts = stream[r].rpkts
  BY <1>0, <1>4, <1>6 DEF SameEnds, SameAnswers, q
<1>11. Bounded'
  BY <1>10 DEF Flow, Bounded, SameEnds
<1>12. Closing'
  <2>1. SameCloses
    BY <1>0, <1>1, <1>6 DEF SameCloses
  <2>2. QED
    BY <1>10, <2>1, ClosingKept DEF Flow, SameEnds
<1>13. Opened'
  BY <1>10, OpenedKept, OpenedAll DEF Flow
<1>14. FreedIsEmpty'
  <2>1. stream[p].rs # 0
    BY <1>1 DEF Flow, FreedIsEmpty
  <2>2. QED
    BY <1>4, <1>5, <2>1 DEF Flow, FreedIsEmpty, SameEnds
<1>15. QED
  BY <1>8, <1>9, <1>11, <1>12, <1>13, <1>14 DEF Flow

LEMMA FlowCloses ==
  ASSUME Basic, Flow, NEW p \in Peers, NEW t \in Threads, Turn(p, t, "CLOSE"), Closes(p, t)
  PROVE  Flow'
<1> DEFINE q == Other(p)
           m == Msg("req", "CLOSE", thr[p][t].id, 0, t)
<1>0. /\ q \in Peers /\ q # p /\ Other(q) = p /\ \A r \in Peers : r = p \/ r = q
      /\ Types /\ Requesting
  BY TwoPeers DEF Basic
<1>1. /\ Sends(p, t, m) /\ m.op = "CLOSE" /\ stream[p].rfill = 0 /\ stream[p].id = m.id
      /\ UNCHANGED data /\ fault' = fault
  BY DEF Closes, Sends, Msg
<1>2. fault = "none"
  BY <1>0, TurnTakes DEF Requesting
<1> HIDE DEF q, m
<1>3. /\ Asked(p)' = Asked(p) \cup {m} /\ Answered(p)' = Answered(p)
      /\ Asked(q)' = Asked(q) /\ Answered(q)' = Answered(q)
  BY <1>0, <1>1, SentRequests DEF q
<1>4. \A r \in Peers : OnWay(r)' = OnWay(r) /\ Back(r)' = Back(r)
  BY <1>0, <1>1, SentLines DEF q
<1>5. UNCHANGED <<stream, avail, held>> /\ SameStreams
  BY <1>1, UnchangedSame DEF data
<1>6. stream[p].rpkts = 0
  BY <1>0, <1>1, <1>2, Direction DEF Flow
<1>7. \A r \in Peers : SameEnds(r) /\ SameLevels(r) /\ SameAnswers(r) /\ Other(r) \in Peers
  BY <1>0, <1>3, <1>5 DEF SameStreams, SameAnswers, q
<1>8. LevelExact' /\ FreedIsEmpty'
  BY <1>5, <1>7, LevelKept, FreedKept DEF Flow, SameLevels, SameEnds
<1>9. CreditExact'
  BY <1>1, <1>4, <1>5, <1>7, CreditKept DEF Flow
<1>10. Bounded'
  BY <1>7, BoundedKept DEF Flow, SameEnds
<1>11. Closing'
  BY <1>0, <1>1, <1>3, <1>5, <1>6 DEF Flow, Closing
<1>12. Opened'
  BY <1>7, OpenedKept, OpenedAll DEF Flow
<1>13. QED
  BY <1>8, <1>9, <1>10, <1>11, <1>12 DEF Flow

LEMMA FlowAnsweredRelease ==
  ASSUME Basic, Flow, fault = "none", NEW p \in Peers, NEW a, AnsweredRelease(p, a)
  PROVE  Flow'
<1> DEFINE q == Other(p)
           h == Head(inq[p])
           x == a.size
<1>0. /\ q \in Peers /\ q # p /\ Other(q) = p /\ \A r \in Peers : r = p \/ r = q
      /\ Types /\ Requesting /\ StreamsType
  BY TwoPeers DEF Basic, Types
<1>1. /\ Answers(p, a) /\ a.op = "REL" /\ \A r \in Peers : r # p => stream'[r] = stream[r]
      /\ SameEnds(p) /\ stream'[p].rfill = stream[p].rfill - x
      /\ stream'[p].rpkts = stream[p].rpkts - 1 /\ stream'[p].lfill = stream[p].lfill
  BY DEF AnsweredRelease, Levels
<1>2. UNCHANGED <<avail, held, fault>> /\ x \in Packets /\ x \in Int
  BY <1>1 DEF Answers, Letters, Messages, Packets
<1>3. /\ Asked(q)' \subseteq Asked(q) /\ Answered(q)' = Answered(q) \cup {a}
      /\ Asked(p)' = Asked(p) /\ Answered(p)' = Answered(p)
      /\ Line(q)' = Tail(Line(q)) /\ Line(q) # << >>
  BY <1>0, <1>1, AnsweredRequests
<1>4. /\ OnWay(p)' = OnWay(p) /\ OnWay(q)' = OnWay(q) /\ Back(q)' = Back(q)
      /\ Back(p) = <<x>> \o Back(p)'
  BY <1>1, AnsweredLines
<1>5. Back(p)' \in Seq(Packets)
  <2>1. Line(q) \in Seq(Letters)
    BY <1>0, LineType DEF Types
  <2>2. Line(q)' \in Seq(Letters)
    BY <1>3, <2>1
  <2>3. Requests(Line(q)', "REL") \in Seq(Packets)
    BY <2>2, RequestsSeq
  <2>4. QED
    BY <2>3 DEF Back
<1> HIDE DEF q, h, x
<1>6. PICK c \in Seq(Packets) : c = Back(p)'
  BY <1>5
<1>7. /\ Back(p) # << >> /\ Head(Back(p)) = x
      /\ Total(c) \in Int /\ Total(Back(p)) = x + Total(c)
      /\ Len(Back(p)) = Len(c) + 1 /\ Len(c) \in Nat
  BY <1>2, <1>4, <1>6, PacketFirst, ZenonT(30)
<1>8. stream[p].rpkts # 0 /\ stream[p].rpkts - 1 \in Nat /\ stream[p].rfill - x \in Nat
  BY <1>0, <1>7, Counts DEF Flow
<1>9. LevelExact'
  BY <1>1, <1>2, LevelKept DEF Flow
<1>10. CreditExact'
  <2>1. CreditAt(q)'
    BY <1>0, <1>1, <1>2, <1>4, CreditSame DEF Flow
  <2>2. CreditAt(p)'
    <3>1. PICK l, w, b \in Int : \E i, j, n, k \in Nat :
            /\ l = stream[Other(p)].lfill /\ w = Total(OnWay(p)) /\ b = Total(Back(p))
            /\ i = Len(avail[Other(p)]) /\ j = Len(held[Other(p)])
            /\ n = Len(OnWay(p)) /\ k = Len(Back(p))
            /\ stream[p].rfill = l + w + b /\ stream[p].rpkts = i + j + n + k
      BY CreditPick
    <3>2. PICK i, j, n, k \in Nat :
            /\ i = Len(avail[Other(p)]) /\ j = Len(held[Other(p)])
            /\ n = Len(OnWay(p)) /\ k = Len(Back(p))
            /\ stream[p].rpkts = i + j + n + k
      BY <3>1
    <3>3. PICK tc \in Int, lc \in Nat : tc = Total(c) /\ lc = Len(c)
      BY <1>7
    <3>4. b = x + tc /\ k = lc + 1
      BY <1>7, <3>1, <3>2, <3>3
    <3>5. stream[p].rfill = l + w + b /\ stream[p].rpkts = i + j + n + k
      BY <3>1, <3>2
    <3>6. stream'[p].rfill = l + w + tc /\ stream'[p].rpkts = i + j + n + lc
      BY <1>1, <1>2, <3>4, <3>5
    <3>7. /\ stream'[Other(p)].lfill = l /\ Total(OnWay(p)') = w /\ Total(Back(p)') = tc
          /\ Len(avail'[Other(p)]) = i /\ Len(held'[Other(p)]) = j
          /\ Len(OnWay(p)') = n /\ Len(Back(p)') = lc
      BY <1>0, <1>1, <1>2, <1>4, <1>6, <3>1, <3>2, <3>3 DEF q
    <3>8. /\ stream'[p].rfill = stream'[Other(p)].lfill + Total(OnWay(p)') + Total(Back(p)')
          /\ stream'[p].rpkts = Len(avail'[Other(p)]) + Len(held'[Other(p)])
                                + Len(OnWay(p)') + Len(Back(p)')
      BY <3>6, <3>7
    <3>9. QED
      BY <3>8 DEF CreditAt
  <2>3. QED
    BY <1>0, <2>1, <2>2, CreditAll
<1>11. Bounded'
  <2>1. stream[p].ws # 0 /\ stream[p].rpkts \in 0 .. MaxPackets /\ MaxPackets \in Nat
    BY <1>8, StreamAssumption DEF Flow, Bounded
  <2>2. stream'[p].rpkts \in 0 .. MaxPackets /\ stream'[p].rfill \in Nat
    BY <1>1, <1>8, <2>1
  <2>3. QED
    BY <1>1, <2>1, <2>2 DEF Flow, Bounded, SameEnds
<1>12. Closing'
  <2>1. SameCloses
    BY <1>0, <1>1, <1>3 DEF SameCloses
  <2>2. \A n \in Asked(p) \cup Answered(p) : n.op # "CLOSE"
    BY <1>8 DEF Flow, Closing
  <2>3. QED
    BY <1>0, <1>1, <2>1, <2>2, ClosingKept DEF Flow
<1>13. Opened'
  <2>1. \A r \in Peers : SameEnds(r) /\ SameAnswers(r) /\ Other(r) \in Peers
    BY <1>0, <1>1, <1>3 DEF SameEnds, SameAnswers, q
  <2>2. QED
    BY <2>1, OpenedKept, OpenedAll DEF Flow
<1>14. FreedIsEmpty'
  BY <1>1, <1>2, FreedKept DEF Flow, SameEnds
<1>15. QED
  BY <1>9, <1>10, <1>11, <1>12, <1>13, <1>14 DEF Flow

\* The reader has room for what is on its way, and its end is open.
LEMMA DataFits ==
  ASSUME Basic, Flow, fault = "none", NEW p \in Peers, OnWay(p) # << >>,
         stream[Other(p)].sem = 1
  PROVE  /\ Len(avail[Other(p)]) + Len(held[Other(p)]) < MaxPackets
         /\ stream[Other(p)].rs # 0
<1>1. stream[p].rpkts # 0 /\ Len(avail[Other(p)]) + Len(held[Other(p)]) < stream[p].rpkts
  BY Counts DEF Basic, Flow
<1>2. stream[p].rpkts \in 0 .. MaxPackets /\ MaxPackets \in Nat
  BY StreamAssumption DEF Flow, Bounded
<1>3. Len(avail[Other(p)]) \in Nat /\ Len(held[Other(p)]) \in Nat
  BY TwoPeers DEF Basic, Types, PacketsType
<1>4. stream[p].ws # 0
  BY <1>1 DEF Flow, Bounded
<1>5. \A m \in Answered(p) : m.op # "CLOSE"
  BY <1>1 DEF Flow, Closing
<1>6. stream[Other(p)].rs # 0
  BY <1>4, <1>5 DEF Flow, Opened, Frozen
<1>7. PICK i, j \in Nat : i = Len(avail[Other(p)]) /\ j = Len(held[Other(p)])
  BY <1>3
<1>8. i + j < stream[p].rpkts
  BY <1>1, <1>7
<1>9. i + j < MaxPackets
  BY <1>2, <1>8
<1>10. QED
  BY <1>6, <1>7, <1>9

LEMMA FlowStores ==
  ASSUME Basic, Flow, NEW p \in Peers, Stores(p)
  PROVE  Flow'
<1> DEFINE q == Other(p)
           m == Head(wire[q])
           x == m.size
<1>0. /\ q \in Peers /\ q # p /\ Other(q) = p /\ \A r \in Peers : r = p \/ r = q
      /\ Types /\ Requesting /\ StreamsType /\ PacketsType
  BY TwoPeers DEF Basic, Types
<1>1. /\ wire[q] # << >> /\ Is(m, "WRITE") /\ fault = "none" /\ stream[p].sem = 1
      /\ \A r \in Peers : r # p => stream'[r] = stream[r]
      /\ SameEnds(p) /\ stream'[p].rfill = stream[p].rfill
      /\ stream'[p].rpkts = stream[p].rpkts /\ stream'[p].lfill = stream[p].lfill + x
      /\ avail' = [avail EXCEPT ![p] =
           IF Len(avail[p]) + Len(held[p]) < MaxPackets THEN Append(@, x) ELSE @]
      /\ UNCHANGED <<held, fault>>
  BY DEF Stores, Levels
<1>2. SameMessages /\ wire'[p] = wire[p] /\ wire'[q] = Tail(wire[q])
  BY <1>0, MovedRequests
<1>3. wire[q] \in Seq(Letters) /\ Tail(wire[q]) \in Seq(Letters) /\ m \in Letters
  <2>1. wire[q] \in Seq(Letters)
    BY <1>0, LineType DEF Types
  <2>2. QED
    BY <1>1, <2>1
<1>4. x \in Packets /\ x \in Int
  BY <1>1, <1>3 DEF Is, Letters, Messages, Packets
<1>5. OnWay(q) = <<x>> \o OnWay(q)'
  BY <1>0, <1>1, <1>2, ReadOnWay
<1>6. OnWay(q)' \in Seq(Packets)
  <2>1. Requests(wire'[q], "WRITE") \in Seq(Packets)
    BY <1>2, <1>3, RequestsSeq
  <2>2. QED
    BY <2>1 DEF OnWay
<1> HIDE DEF q, m, x
<1>7. OnWay(p)' = OnWay(p) /\ \A r \in Peers : Back(r)' = Back(r)
  BY <1>2, TwoPeers DEF OnWay, Back, SameMessages
<1>8. PICK c \in Seq(Packets) : c = OnWay(q)'
  BY <1>6
<1>9. /\ OnWay(q) # << >>
      /\ Total(c) \in Int /\ Total(OnWay(q)) = x + Total(c)
      /\ Len(OnWay(q)) = Len(c) + 1 /\ Len(c) \in Nat
  BY <1>4, <1>5, <1>8, PacketFirst
<1>10. Len(avail[p]) + Len(held[p]) < MaxPackets /\ stream[p].rs # 0
  BY <1>0, <1>1, <1>9, DataFits
<1>11. avail'[p] = Append(avail[p], x) /\ \A r \in Peers : r # p => avail'[r] = avail[r]
  BY <1>1, <1>10 DEF PacketsType, Basic, Types
<1>12. /\ Total(avail'[p]) = Total(avail[p]) + x /\ Total(avail[p]) \in Int
       /\ Len(avail'[p]) = Len(avail[p]) + 1 /\ Len(avail[p]) \in Nat
  <2>1. avail[p] \in Seq(Packets)
    BY <1>0 DEF PacketsType
  <2>2. QED
    BY <1>4, <1>11, <2>1, PacketAdded
<1>13. LevelExact'
  <2>1. stream'[p].lfill = Total(avail'[p]) + Total(held'[p])
    <3>1. stream[p].lfill = Total(avail[p]) + Total(held[p]) /\ Total(held[p]) \in Int
      <4>1. held[p] \in Seq(Packets)
        BY <1>0 DEF PacketsType
      <4>2. QED
        BY <4>1, TotalNat DEF Flow, LevelExact
    <3>2. QED
      BY <1>1, <1>4, <1>12, <3>1
  <2>2. QED
    BY <1>1, <1>11, <2>1 DEF Flow, LevelExact
<1>14. CreditExact'
  <2>1. CreditAt(p)'
    BY <1>0, <1>1, <1>7, <1>11, CreditSame DEF Flow, q
  <2>2. CreditAt(q)'
    <3>1. PICK l, w, b \in Int : \E i, j, n, k \in Nat :
            /\ l = stream[Other(q)].lfill /\ w = Total(OnWay(q)) /\ b = Total(Back(q))
            /\ i = Len(avail[Other(q)]) /\ j = Len(held[Other(q)])
            /\ n = Len(OnWay(q)) /\ k = Len(Back(q))
            /\ stream[q].rfill = l + w + b /\ stream[q].rpkts = i + j + n + k
      BY <1>0, <1>1, CreditPick
    <3>2. PICK i, j, n, k \in Nat :
            /\ i = Len(avail[Other(q)]) /\ j = Len(held[Other(q)])
            /\ n = Len(OnWay(q)) /\ k = Len(Back(q))
            /\ stream[q].rpkts = i + j + n + k
      BY <3>1
    <3>3. PICK tc \in Int, lc \in Nat : tc = Total(c) /\ lc = Len(c)
      BY <1>9
    <3>4. w = x + tc /\ n = lc + 1
      BY <1>9, <3>1, <3>2, <3>3
    <3>5. stream[q].rfill = l + w + b /\ stream[q].rpkts = i + j + n + k
      BY <3>1, <3>2
    <3>6. stream'[q].rfill = (l + x) + tc + b /\ stream'[q].rpkts = (i + 1) + j + lc + k
      BY <1>0, <1>1, <1>4, <3>4, <3>5
    <3>7. /\ stream'[Other(q)].lfill = l + x /\ Total(OnWay(q)') = tc /\ Total(Back(q)') = b
          /\ Len(avail'[Other(q)]) = i + 1 /\ Len(held'[Other(q)]) = j
          /\ Len(OnWay(q)') = lc /\ Len(Back(q)') = k
      BY <1>0, <1>1, <1>7, <1>8, <1>12, <3>1, <3>2, <3>3
    <3>8. /\ stream'[q].rfill = stream'[Other(q)].lfill + Total(OnWay(q)') + Total(Back(q)')
          /\ stream'[q].rpkts = Len(avail'[Other(q)]) + Len(held'[Other(q)])
                                + Len(OnWay(q)') + Len(Back(q)')
      BY <3>6, <3>7
    <3>9. QED
      BY <3>8 DEF CreditAt
  <2>3. QED
    BY <1>0, <2>1, <2>2, CreditAll
<1>15. \A r \in Peers : /\ SameEnds(r) /\ SameAnswers(r) /\ Other(r) \in Peers
                        /\ stream'[r].rfill = stream[r].rfill /\ stream'[r].rpkts = stream[r].rpkts
  BY <1>0, <1>1, <1>2, SameMessagesQuiet DEF SameEnds, q
<1>16. Bounded'
  BY <1>15 DEF Flow, Bounded, SameEnds
<1>17. Closing'
  BY <1>2, <1>15, SameMessagesQuiet, ClosingKept DEF Flow, SameEnds
<1>18. Opened'
  BY <1>15, OpenedKept, OpenedAll DEF Flow
<1>19. FreedIsEmpty'
  BY <1>1, <1>10, <1>11, <1>15 DEF Flow, FreedIsEmpty, SameEnds
<1>20. QED
  BY <1>13, <1>14, <1>16, <1>17, <1>18, <1>19 DEF Flow

-----------------------------------------------------------------------------
(* The flow of packets: opening and closing.                                 *)

\* A new descriptor keeps no levels of an earlier life of the stream.
LEMMA CreatedLevels ==
  ASSUME Basic, Flow, NEW p \in Peers, NEW ws, NEW rs, Created(p, ws, rs)
  PROVE  SameLevels(p) /\ stream[p].ws = 0 /\ stream[p].rs = 0 /\ ~Frozen(p)
<1>1. stream[p].id = None /\ stream[p].ws = 0 /\ stream[p].rs = 0
  BY DEF Created, Basic, Types, StreamsType
<1>2. stream[p].rfill = 0 /\ stream[p].rpkts = 0
  BY <1>1 DEF Flow, Bounded
<1>3. avail[p] = << >> /\ held[p] = << >>
  BY <1>1 DEF Flow, FreedIsEmpty
<1>4. stream[p].lfill = 0
  BY <1>3, TotalEmpty DEF Flow, LevelExact
<1>5. QED
  BY <1>1, <1>2, <1>4 DEF Created, SameLevels, Frozen

\* A step that changes the ends of one descriptor.
LEMMA EndsFlow ==
  ASSUME Basic, Flow, NEW p \in Peers, SameLevels(p),
         \A r \in Peers : r # p => stream'[r] = stream[r],
         UNCHANGED <<avail, held, fault>>,
         \A r \in Peers : OnWay(r)' = OnWay(r) /\ Back(r)' = Back(r),
         stream'[p].ws = 0 => stream[p].ws = 0 \/ (stream[p].rfill = 0 /\ stream[p].rpkts = 0),
         stream'[p].rs = 0 => stream[p].rs = 0 \/ (avail[p] = << >> /\ held[p] = << >>),
         SameCloses,
         \A m \in Asked(p) \cup Answered(p) : m.op = "CLOSE" =>
           \/ stream'[p].id = stream[p].id /\ stream'[p].ws = stream[p].ws
           \/ stream'[p].ws = 0,
         OpenedAt(p)', OpenedAt(Other(p))'
  PROVE  Flow'
<1>1. \A r \in Peers : SameLevels(r)
  BY DEF SameLevels
<1>2. LevelExact'
  BY <1>1, LevelKept DEF Flow, SameLevels
<1>3. CreditExact'
  BY <1>1, CreditKept DEF Flow
<1>4. Bounded'
  BY <1>1, BoundedKept DEF Flow
<1>5. FreedIsEmpty'
  BY <1>1, FreedKept DEF Flow
<1>6. Closing'
  BY <1>1, ClosingKept DEF Flow, SameLevels
<1>7. Opened'
  <2>1. \A r \in Peers : r = p \/ r = Other(p)
    BY TwoPeers
  <2>2. \A r \in Peers : OpenedAt(r)'
    BY <2>1
  <2>3. QED
    BY <2>2, OpenedAll
<1>8. QED
  BY <1>2, <1>3, <1>4, <1>5, <1>6, <1>7 DEF Flow

LEMMA FlowAnsweredOpen ==
  ASSUME Basic, Flow, NEW p \in Peers, NEW a, AnsweredOpen(p, a)
  PROVE  Flow'
<1> DEFINE q == Other(p)
<1>0. /\ q \in Peers /\ q # p /\ Other(q) = p /\ \A r \in Peers : r = p \/ r = q
      /\ Types /\ Requesting
  BY TwoPeers DEF Basic
<1>1. /\ Answers(p, a) /\ a.op = "OPEN" /\ \A r \in Peers : r # p => stream'[r] = stream[r]
      /\ Created(p, 0, a.size) \/ Kept(p, 0, a.size) \/ Extended(p, 0, a.size)
  BY DEF AnsweredOpen
<1>2. UNCHANGED <<avail, held, fault>> /\ a.size # 0
  BY <1>1 DEF Answers, Letters
<1>3. /\ Asked(q)' \subseteq Asked(q) /\ Answered(q)' = Answered(q) \cup {a}
      /\ Asked(p)' = Asked(p) /\ Answered(p)' = Answered(p)
  BY <1>0, <1>1, AnsweredRequests
<1>4. \A r \in Peers : OnWay(r)' = OnWay(r) /\ Back(r)' = Back(r)
  <2>1. Back(p)' = Back(p) /\ Back(q)' = Back(q) /\ OnWay(p)' = OnWay(p) /\ OnWay(q)' = OnWay(q)
    BY <1>1, AnsweredLines
  <2>2. QED
    BY <1>0, <2>1
<1> HIDE DEF q
<1>5. /\ SameLevels(p) /\ stream'[p].ws = stream[p].ws
      /\ stream'[p].id = stream[p].id \/ stream'[p].ws = 0
      /\ stream'[p].rs = 0 => stream[p].rs = 0
      /\ stream'[p].rs # 0 \/ (stream'[p].id # None /\ stream'[p].sem = 0)
  <2>1. CASE Created(p, 0, a.size)
    BY <1>2, <2>1, CreatedLevels DEF Created
  <2>2. CASE Kept(p, 0, a.size)
    BY <2>2 DEF Kept
  <2>3. CASE Extended(p, 0, a.size)
    BY <1>2, <2>3 DEF Extended
  <2>4. QED
    BY <1>1, <2>1, <2>2, <2>3
<1>6. OpenedAt(q)'
  BY <1>0, <1>5 DEF OpenedAt, Frozen
<1>7. OpenedAt(p)'
  <2>1. OpenedAt(p) /\ stream'[q] = stream[q]
    BY <1>0, <1>1 DEF Flow, Opened, OpenedAt
  <2>2. QED
    BY <1>3, <1>5, <2>1 DEF OpenedAt, Frozen, q
<1>8. SameCloses
  BY <1>0, <1>1, <1>3 DEF SameCloses
<1>9. QED
  BY <1>1, <1>2, <1>4, <1>5, <1>6, <1>7, <1>8, EndsFlow DEF q

LEMMA FlowTakenOpen ==
  ASSUME Basic, Flow, Disciplined, NEW p \in Peers, TakenOpen(p)
  PROVE  Flow'
<1> DEFINE q == Other(p)
           h == Head(inq[p])
<1>0. /\ q \in Peers /\ q # p /\ Other(q) = p /\ \A r \in Peers : r = p \/ r = q
      /\ Types /\ Requesting
  BY TwoPeers DEF Basic
<1>1. /\ Takes(p) /\ h.op = "OPEN" /\ \A r \in Peers : r # p => stream'[r] = stream[r]
      /\ Created(p, h.size, 0) \/ Kept(p, h.size, 0) \/ Extended(p, h.size, 0)
  BY DEF TakenOpen
<1>2. UNCHANGED <<avail, held, fault>>
  BY <1>1 DEF Takes
<1>3. /\ h \in Answered(p) /\ Answered(p) = Answered(p)' \cup {h} /\ Asked(q)' = Asked(q)
      /\ Asked(p)' = Asked(p) /\ Answered(q)' = Answered(q)
  BY <1>0, <1>1, TakenRequests
<1> HIDE DEF q, h
<1>4. \A r \in Peers : OnWay(r)' = OnWay(r) /\ Back(r)' = Back(r)
  BY <1>1, TakenLines
<1>5. /\ SameLevels(p) /\ stream'[p].rs = stream[p].rs /\ ~Frozen(p)
      /\ stream'[p].ws = 0 => stream[p].ws = 0
  <2>1. CASE Created(p, h.size, 0)
    BY <2>1, CreatedLevels DEF Created
  <2>2. CASE Kept(p, h.size, 0)
    BY <2>2 DEF Kept, Frozen
  <2>3. CASE Extended(p, h.size, 0)
    BY <2>3 DEF Extended, Frozen
  <2>4. QED
    BY <1>1, <2>1, <2>2, <2>3
<1>6. OpenedAt(q)'
  <2>1. stream[p].rs # 0 \/ /\ \A m \in Answered(q) : m.op # "OPEN"
                            /\ stream[q].ws = 0 \/ \E m \in Answered(q) : m.op = "CLOSE"
    BY <1>0, <1>5 DEF Flow, Opened
  <2>2. stream'[q] = stream[q]
    BY <1>0, <1>1
  <2>3. QED
    BY <1>0, <1>3, <1>5, <2>1, <2>2 DEF OpenedAt
<1>7. OpenedAt(p)'
  <2>1. (stream[q].rs # 0 \/ Frozen(q)) /\ stream'[q] = stream[q]
    BY <1>0, <1>1, <1>3 DEF Flow, Opened, q
  <2>2. QED
    BY <2>1 DEF OpenedAt, Frozen, q
<1>8. SameCloses
  BY <1>0, <1>3 DEF SameCloses
<1>9. \A m \in Asked(p) \cup Answered(p) : m.op # "CLOSE"
  BY <1>1, <1>3, ClosingAlone
<1>10. QED
  BY <1>1, <1>2, <1>4, <1>5, <1>6, <1>7, <1>8, <1>9, EndsFlow DEF q

LEMMA FlowClosedIn ==
  ASSUME Basic, Flow, Disciplined, NEW p \in Peers, NEW a, AnsweredClose(p, a), ClosedIn(p)
  PROVE  Flow'
<1> DEFINE q == Other(p)
           h == Head(inq[p])
<1>0. /\ q \in Peers /\ q # p /\ Other(q) = p /\ \A r \in Peers : r = p \/ r = q
      /\ Types /\ Requesting
  BY TwoPeers DEF Basic
<1>1. /\ Answers(p, a) /\ a.op = "CLOSE" /\ a.id = h.id
      /\ \A r \in Peers : r # p => stream'[r] = stream[r]
      /\ stream[p].lfill = 0 /\ SameLevels(p) /\ stream'[p].ws = stream[p].ws
      /\ stream'[p].id = stream[p].id \/ stream'[p].ws = 0
  BY DEF AnsweredClose, ClosedIn
<1>2. UNCHANGED <<avail, held, fault>> /\ h.op = "CLOSE"
  BY <1>1 DEF Answers
<1>3. /\ h \in Asked(q) /\ Asked(q)' \subseteq Asked(q) /\ Answered(q)' = Answered(q) \cup {a}
      /\ Asked(p)' = Asked(p) /\ Answered(p)' = Answered(p)
  BY <1>0, <1>1, AnsweredRequests
<1>4. \A r \in Peers : OnWay(r)' = OnWay(r) /\ Back(r)' = Back(r)
  <2>1. Back(p)' = Back(p) /\ Back(q)' = Back(q) /\ OnWay(p)' = OnWay(p) /\ OnWay(q)' = OnWay(q)
    BY <1>1, AnsweredLines
  <2>2. QED
    BY <1>0, <2>1
<1> HIDE DEF q, h
<1>5. avail[p] = << >> /\ held[p] = << >>
  <2>1. avail[p] \in Seq(Packets) /\ held[p] \in Seq(Packets)
    BY <1>0 DEF Types, PacketsType
  <2>2. Total(avail[p]) + Total(held[p]) = 0
    BY <1>1 DEF Flow, LevelExact
  <2>3. Total(avail[p]) \in Nat /\ Total(held[p]) \in Nat
    BY <2>1, TotalNat
  <2>4. Total(avail[p]) = 0 /\ Total(held[p]) = 0
    BY <2>2, <2>3
  <2>5. QED
    BY <2>1, <2>4, TotalNat
<1>6. OpenedAt(q)'
  <2>1. \A m \in Answered(q) : m.op # "OPEN"
    BY <1>0, <1>2, <1>3, ClosingAlone
  <2>2. /\ \A m \in Answered(q)' : m.op # "OPEN"
        /\ \E m \in Answered(q)' : m.op = "CLOSE"
    BY <1>1, <1>3, <2>1
  <2>3. QED
    BY <2>2 DEF OpenedAt
<1>7. OpenedAt(p)'
  <2>1. OpenedAt(p) /\ stream'[q] = stream[q]
    BY <1>0, <1>1 DEF Flow, Opened, OpenedAt
  <2>2. QED
    BY <1>1, <1>3, <2>1 DEF OpenedAt, Frozen, q
<1>8. SameCloses
  BY <1>0, <1>1, <1>2, <1>3 DEF SameCloses
<1>9. QED
  BY <1>1, <1>2, <1>4, <1>5, <1>6, <1>7, <1>8, EndsFlow DEF q

LEMMA FlowTakenClose ==
  ASSUME Basic, Flow, Disciplined, NEW p \in Peers, TakenClose(p)
  PROVE  Flow'
<1> DEFINE q == Other(p)
           h == Head(inq[p])
<1>0. /\ q \in Peers /\ q # p /\ Other(q) = p /\ \A r \in Peers : r = p \/ r = q
      /\ Types /\ Requesting
  BY TwoPeers DEF Basic
<1>1. /\ Takes(p) /\ h.op = "CLOSE" /\ \A r \in Peers : r # p => stream'[r] = stream[r]
      /\ \/ NotFound(p, h.id) /\ Levels(p, stream[p].rfill, stream[p].rpkts, stream[p].lfill)
         \/ ClosedOut(p, h.id)
  BY DEF TakenClose
<1>2. UNCHANGED <<avail, held, fault>>
  BY <1>1 DEF Takes
<1>3. /\ h \in Answered(p) /\ Answered(p) = Answered(p)' \cup {h} /\ Asked(q)' = Asked(q)
      /\ Asked(p)' = Asked(p) /\ Answered(q)' = Answered(q)
  BY <1>0, <1>1, TakenRequests
<1> HIDE DEF q, h
<1>4. \A r \in Peers : OnWay(r)' = OnWay(r) /\ Back(r)' = Back(r)
  BY <1>1, TakenLines
<1>5. /\ stream[p].rfill = 0 /\ stream[p].rpkts = 0
      /\ stream[p].id = h.id \/ stream[p].ws = 0
  BY <1>1, <1>3 DEF Flow, Closing
<1>6. /\ SameLevels(p) /\ stream'[p].ws = 0 /\ stream'[p].rs = stream[p].rs
      /\ ~Frozen(p) \/ Frozen(p)'
  <2>1. CASE NotFound(p, h.id) /\ Levels(p, stream[p].rfill, stream[p].rpkts, stream[p].lfill)
    <3>1. stream[p].ws = 0
      BY <1>0, <1>5, <2>1 DEF NotFound, Types, StreamsType
    <3>2. QED
      BY <2>1, <3>1 DEF Levels, SameEnds, SameLevels, Frozen
  <2>2. CASE ClosedOut(p, h.id)
    BY <2>2 DEF ClosedOut, Frozen
  <2>3. QED
    BY <1>1, <2>1, <2>2
<1>7. OpenedAt(p)'
  <2>1. \A m \in Answered(p) : m.op # "OPEN"
    BY <1>1, <1>3, ClosingAlone
  <2>2. \A m \in Answered(p)' : m.op # "OPEN"
    BY <1>3, <2>1
  <2>3. QED
    BY <1>6, <2>2 DEF OpenedAt
<1>8. OpenedAt(q)'
  <2>1. OpenedAt(q) /\ stream'[q] = stream[q]
    BY <1>0, <1>1 DEF Flow, Opened, OpenedAt
  <2>2. CASE stream[p].rs # 0
    BY <1>0, <1>6, <2>2 DEF OpenedAt
  <2>3. CASE Frozen(p)
    <3>1. Frozen(p)'
      BY <1>6, <2>3
    <3>2. QED
      BY <1>0, <3>1 DEF OpenedAt, Frozen
  <2>4. CASE /\ \A m \in Answered(q) : m.op # "OPEN"
             /\ stream[q].ws = 0 \/ \E m \in Answered(q) : m.op = "CLOSE"
    BY <1>3, <2>1, <2>4 DEF OpenedAt
  <2>5. QED
    BY <1>0, <2>1, <2>2, <2>3, <2>4 DEF OpenedAt
<1>9. SameCloses
  BY <1>0, <1>3 DEF SameCloses
<1>10. QED
  BY <1>1, <1>2, <1>4, <1>5, <1>6, <1>7, <1>8, <1>9, EndsFlow DEF q

-----------------------------------------------------------------------------
(* The invariant of careful applications, and what it gives.                 *)

LEMMA LooksSame ==
  ASSUME Basic, UNCHANGED <<wire, inq, thr>>
  PROVE  SameMessages
<1>1. KeepsPending /\ \A r \in Peers : Line(r)' = Line(r)
  BY DEF KeepsPending, Line
<1>2. QED
  BY <1>1, CorrespondingStays DEF Basic, Types, Requesting, SameMessages

LEMMA StreamLocal ==
  ASSUME Basic, Disciplined, Flow, NEW p \in Peers, NEW t \in Threads, LocalRequest(p, t)
  PROVE  Disciplined' /\ Flow'
<1>0. Types /\ Requesting /\ Queued
  BY DEF Basic, Requesting
<1>1. CASE LocalNotFound(p, t)
  <2>1. /\ SameMessages /\ UNCHANGED <<data, thr, wire, inq, rd, usage>>
        /\ fault' = "noStream"
    BY <1>0, <1>1, NotFoundRequests
  <2>2. Disciplined'
    BY <2>1, DisciplinedKept
  <2>3. SameStreams /\ UNCHANGED <<avail, held>>
    BY <2>1, UnchangedSame DEF data
  <2>4. QED
    BY <2>1, <2>2, <2>3, FlowSame
<1>2. CASE Turn(p, t, "OPEN") /\ AsksOpen(p, t)
  BY <1>2, FlowAsksOpen, DisciplinedServed DEF AsksOpen
<1>3. CASE Turn(p, t, "WRITE") /\ Writes(p, t)
  BY <1>3, FlowWrites, DisciplinedServed DEF Writes
<1>4. CASE Turn(p, t, "READ") /\ Reads(p, t)
  BY <1>4, FlowReads, DisciplinedServed DEF Reads
<1>5. CASE Turn(p, t, "REL") /\ Releases(p, t)
  BY <1>5, FlowReleases, DisciplinedServed DEF Releases
<1>6. CASE Turn(p, t, "CLOSE") /\ Closes(p, t)
  BY <1>6, FlowCloses, DisciplinedServed DEF Closes
<1>7. ASSUME NEW op, Turn(p, t, op), Waits(p, t)
      PROVE  Disciplined' /\ Flow'
  <2>1. /\ Stops(p, t) /\ UNCHANGED <<avail, held, nextSid, fault, wire>>
        /\ stream' = stream \/ stream' = [stream EXCEPT ![p].closing = TRUE]
    BY <1>7 DEF Waits, Stops
  <2>2. SameStreams
    <3>1. 0 \in Nat
      OBVIOUS
    <3>2. /\ \A r \in Peers : r # p => stream'[r] = stream[r]
          /\ Levels(p, stream[p].rfill, stream[p].rpkts, stream[p].lfill)
      BY <1>0, <2>1, <3>1, LevelsChange DEF Types
    <3>3. QED
      BY <3>2, StaysSame
  <2>3. SameMessages
    BY <1>0, <1>7, <2>1, StoppedRequests
  <2>4. Disciplined'
    BY <1>7, <2>1, DisciplinedServed
  <2>5. QED
    BY <2>1, <2>2, <2>3, <2>4, FlowSame
<1>8. QED
  BY <1>0, <1>1, <1>2, <1>3, <1>4, <1>5, <1>6, <1>7, LocalEffects

LEMMA StreamRemote ==
  ASSUME Basic, Disciplined, Flow, NEW p \in Peers, RemoteEvent(p)
  PROVE  Disciplined' /\ Flow'
<1>1. fault = "none"
  BY DEF RemoteEvent, RemoteWrite, RemoteRelease, RemoteReleaseNotFound, RemoteCreate,
         RemoteClose, Response, ResponseCreate, ResponseClose, Incoming
<1>2. ASSUME NEW a, Answers(p, a)
      PROVE  Disciplined'
  BY <1>2, DisciplinedWoken DEF Answers
<1>3. ASSUME NEW a, \/ AnsweredWrite(p, a) \/ AnsweredRelease(p, a)
                    \/ AnsweredOpen(p, a) \/ AnsweredClose(p, a)
      PROVE  Disciplined' /\ Flow'
  <2>1. CASE AnsweredWrite(p, a)
    BY <1>2, <2>1, FlowAnswered DEF AnsweredWrite, Stays
  <2>2. CASE AnsweredRelease(p, a)
    BY <1>1, <1>2, <2>2, FlowAnsweredRelease DEF AnsweredRelease
  <2>3. CASE AnsweredOpen(p, a)
    BY <1>2, <2>3, FlowAnsweredOpen DEF AnsweredOpen
  <2>4. CASE AnsweredClose(p, a)
    <3>1. Answers(p, a)
      BY <2>4 DEF AnsweredClose
    <3>2. Levels(p, stream[p].rfill, stream[p].rpkts, stream[p].lfill) \/ ClosedIn(p)
      BY <2>4 DEF AnsweredClose
    <3>3. QED
      BY <1>2, <2>4, <3>1, <3>2, FlowAnswered, FlowClosedIn
  <2>5. QED
    BY <1>3, <2>1, <2>2, <2>3, <2>4
<1>4. CASE RemoteReleaseNotFound(p)
  <2>1. thr' = thr
    BY <1>4 DEF RemoteReleaseNotFound
  <2>2. QED
    BY <1>4, <2>1, DisciplinedKept, FlowPeerNotFound
<1>5. ASSUME TakenData(p) \/ TakenOpen(p) \/ TakenClose(p)
      PROVE  Disciplined' /\ Flow'
  <2>1. Takes(p)
    BY <1>5 DEF TakenData, TakenOpen, TakenClose
  <2>2. QED
    BY <1>5, <2>1, DisciplinedTaken, FlowTakenData, FlowTakenOpen, FlowTakenClose
<1>6. QED
  BY <1>3, <1>4, <1>5, RemoteEffects DEF Basic

LEMMA StreamReader ==
  ASSUME Basic, Disciplined, Flow, NEW p \in Peers, Reader(p)
  PROVE  Disciplined' /\ Flow'
<1>1. Looks(p) \/ Moves(p) \/ Stores(p)
  BY ReaderEffects DEF Basic
<1>2. thr' = thr
  BY <1>1 DEF Looks, Moves, Stores
<1>3. CASE Looks(p)
  <2>1. fault = "none"
    BY DEF Reader, Receive, ReceiveData
  <2>2. UNCHANGED <<data, thr, wire, inq>>
    BY <1>3 DEF Looks
  <2>3. SameStreams /\ UNCHANGED <<avail, held>> /\ SameMessages
    BY <2>2, UnchangedSame, LooksSame DEF data
  <2>4. QED
    BY <1>2, <2>1, <2>2, <2>3, DisciplinedKept, FlowSame
<1>4. QED
  BY <1>1, <1>2, <1>3, DisciplinedKept, FlowMoves, FlowStores

\* Nothing changes how the API is used.
LEMMA UsageKept ==
  ASSUME Basic, [Next]_vars
  PROVE  usage' = usage
<1>1. ASSUME NEW p \in Peers, NEW t \in Threads, Application(p, t)
      PROVE  usage' = usage
  BY <1>1, BasicBegun DEF Begins
<1>2. ASSUME NEW p \in Peers, NEW t \in Threads, LocalRequest(p, t)
      PROVE  usage' = usage
  BY <1>2 DEF LocalRequest, LocalCreate, LocalNotFound, LocalWrite, LocalRead, LocalRelease,
              LocalClose, Turn
<1>3. ASSUME NEW p \in Peers, RemoteEvent(p)
      PROVE  usage' = usage
  BY <1>3 DEF RemoteEvent, RemoteWrite, RemoteRelease, RemoteReleaseNotFound, RemoteCreate,
              RemoteClose, Response, ResponseCreate, ResponseClose, Incoming, app
<1>4. ASSUME NEW p \in Peers, Reader(p)
      PROVE  usage' = usage
  BY <1>4 DEF Reader, Receive, ReceiveData, app
<1>5. CASE UNCHANGED vars
  BY <1>5 DEF vars, app
<1>6. QED
  BY <1>1, <1>2, <1>3, <1>4, <1>5 DEF Next, Scheduler

StreamInv == Basic /\ Careful /\ Disciplined /\ Flow

LEMMA CarefulNext ==
  ASSUME StreamInv, [Next]_vars
  PROVE  StreamInv'
<1>0. Basic /\ Careful /\ Disciplined /\ Flow
  BY DEF StreamInv
<1>1. Basic' /\ Careful'
  BY <1>0, BasicNext, UsageKept DEF Careful
<1>2. ASSUME NEW p \in Peers, NEW t \in Threads, Application(p, t)
      PROVE  Disciplined' /\ Flow'
  <2>1. Begins(p, t)
    BY <1>0, <1>2, BasicBegun
  <2>2. UNCHANGED <<data, inq, rd, wire, usage, fault>>
    BY <2>1 DEF Begins
  <2>3. SameMessages /\ SameStreams /\ UNCHANGED <<avail, held>>
    BY <1>0, <2>1, <2>2, BegunRequests, UnchangedSame DEF Basic, data
  <2>4. QED
    BY <1>0, <2>1, <2>2, <2>3, DisciplinedBegun, FlowSame
<1>3. ASSUME NEW p \in Peers, Scheduler(p) \/ Reader(p)
      PROVE  Disciplined' /\ Flow'
  BY <1>0, <1>3, StreamLocal, StreamRemote, StreamReader DEF Scheduler
<1>4. CASE UNCHANGED vars
  <2>1. UNCHANGED <<stream, avail, held, nextSid, usage, thr, queue, inq, rd, wire, fault>>
    BY <1>4 DEF vars, data, app
  <2>2. SameMessages /\ SameStreams
    BY <1>0, <2>1, LooksSame, UnchangedSame
  <2>3. Flow'
    BY <1>0, <2>1, <2>2, FlowSame
  <2>4. Disciplined'
    BY <1>0, <2>1 DEF Disciplined, Apart
  <2>5. QED
    BY <1>1, <2>3, <2>4 DEF StreamInv
<1>5. QED
  BY <1>0, <1>1, <1>2, <1>3, <1>4 DEF StreamInv, Next

LEMMA CarefulInit == Init /\ Careful => StreamInv
<1> SUFFICES ASSUME Init, Careful PROVE StreamInv
  OBVIOUS
<1>1. Basic
  BY BasicInit
<1>2. \A p \in Peers, t \in Threads : thr[p][t].pc = "idle"
  BY DEF Init, IdleThread
<1>3. Disciplined
  BY <1>2 DEF Disciplined, Apart
<1>4. \A p \in Peers : /\ stream[p] = NoStream /\ avail[p] = << >> /\ held[p] = << >>
                       /\ inq[p] = << >> /\ wire[p] = << >> /\ Other(p) \in Peers
  BY TwoPeers DEF Init
<1>5. \A p \in Peers : Line(p) = << >>
  BY <1>4 DEF Line
<1>6. \A p \in Peers : Asked(p) = {} /\ Answered(p) = {}
  BY <1>4, <1>5 DEF Asked, Answered, Msgs
<1>7. NoStream.rfill = 0 /\ NoStream.rpkts = 0 /\ NoStream.lfill = 0 /\ NoStream.ws = 0
  BY DEF NoStream
<1>8. LevelExact
  BY <1>4, <1>7, TotalEmpty DEF LevelExact
<1>9. CreditExact
  <2>1. Len(<< >>) = 0
    OBVIOUS
  <2>2. \A p \in Peers : OnWay(p) = << >> /\ Back(p) = << >>
    BY <1>4, <1>5, RequestsEmpty DEF OnWay, Back
  <2>3. ASSUME NEW p \in Peers
        PROVE  /\ stream[p].rfill = stream[Other(p)].lfill + Total(OnWay(p)) + Total(Back(p))
               /\ stream[p].rpkts = Len(avail[Other(p)]) + Len(held[Other(p)])
                                     + Len(OnWay(p)) + Len(Back(p))
    <3>1. OnWay(p) = << >> /\ Back(p) = << >> /\ Other(p) \in Peers
      BY <1>4, <2>2
    <3>2. stream[p] = NoStream /\ stream[Other(p)] = NoStream
          /\ avail[Other(p)] = << >> /\ held[Other(p)] = << >>
      BY <1>4, <3>1
    <3>3. stream[p].rfill = 0 /\ stream[p].rpkts = 0 /\ stream[Other(p)].lfill = 0
      BY <1>7, <3>2
    <3>4. Total(OnWay(p)) = 0 /\ Total(Back(p)) = 0
      BY <3>1, TotalEmpty
    <3>5. Len(OnWay(p)) = 0 /\ Len(Back(p)) = 0
          /\ Len(avail[Other(p)]) = 0 /\ Len(held[Other(p)]) = 0
      BY <2>1, <3>1, <3>2
    <3>6. QED
      BY <3>3, <3>4, <3>5
  <2>4. QED
    BY <2>3, CreditMeans
<1>10. Bounded /\ Closing /\ Opened /\ FreedIsEmpty
  BY <1>4, <1>6, <1>7, StreamAssumption DEF Bounded, Closing, Opened, FreedIsEmpty
<1>11. QED
  BY <1>1, <1>3, <1>8, <1>9, <1>10 DEF StreamInv, Flow

\* The inductive invariant, for applications that do not use a stream which another
\* thread of their end is closing.
THEOREM CarefulAlways == Spec /\ Careful => []StreamInv
BY CarefulInit, CarefulNext, PTL DEF Spec

\* The fill level of an end is the size of the packets it keeps.
THEOREM LevelIsExact == Spec /\ Careful => []LevelExact
<1>1. StreamInv => LevelExact
  BY DEF StreamInv, Flow
<1>2. QED
  BY <1>1, CarefulAlways, PTL

\* The writer's credit is exact.
THEOREM CreditIsExact == Spec /\ Careful => []CreditExact
<1>1. StreamInv => CreditExact
  BY DEF StreamInv, Flow
<1>2. QED
  BY <1>1, CarefulAlways, PTL

\* No close frees an end that keeps a packet.
THEOREM NothingIsLost == Spec /\ Careful => []FreedIsEmpty
<1>1. StreamInv => FreedIsEmpty
  BY DEF StreamInv, Flow
<1>2. QED
  BY <1>1, CarefulAlways, PTL

\* The types, with fill levels and counts that never wrap around below zero.
THEOREM StreamTypeCorrect == Spec /\ Careful => []TypeOK
<1>1. ASSUME StreamInv PROVE TypeOK
  <2>1. Types /\ Bounded /\ LevelExact /\ MaxPackets \in Nat
    BY <1>1, StreamAssumption DEF StreamInv, Basic, Flow
  <2>2. \A s \in Seq(Packets) : s \in Seq(Nat)
    BY DEF Packets
  <2>3. \A s \in Seq(Letters) : s \in Seq(Messages)
    BY DEF Letters
  <2>4. avail \in [Peers -> Seq(Nat)] /\ held \in [Peers -> Seq(Nat)]
    BY <2>1, <2>2 DEF Types, PacketsType
  <2>5. inq \in [Peers -> Seq(Messages)] /\ wire \in [Peers -> Seq(Messages)]
    BY <2>1, <2>3 DEF Types, WireType
  <2>6. ASSUME NEW p \in Peers
        PROVE  stream[p].lfill \in Nat /\ stream[p].rfill \in Nat /\ stream[p].rpkts \in Nat
    <3>1. avail[p] \in Seq(Packets) /\ held[p] \in Seq(Packets)
      BY <2>1 DEF Types, PacketsType
    <3>2. Total(avail[p]) \in Nat /\ Total(held[p]) \in Nat
      BY <3>1, TotalNat
    <3>3. QED
      BY <2>1, <3>2 DEF LevelExact, Bounded
  <2>7. stream \in [Peers -> [id : Ids, ws : Nat, rs : Nat, rfill : Nat, rpkts : Nat,
                              lfill : Nat, closing : BOOLEAN, sem : {0, 1}]]
    BY <2>1, <2>6 DEF Types, StreamsType
  <2>8. \A r \in Requesters : r \in
          [pc : {"idle", "queued", "ready", "blocked", "pending", "lookup", "locking"},
           op : AllOps, size : Nat, id : Ids, block : BOOLEAN]
    BY DEF Requesters, Asking
  <2>9. thr \in [Peers -> [Threads ->
          [pc : {"idle", "queued", "ready", "blocked", "pending", "lookup", "locking"},
           op : AllOps, size : Nat, id : Ids, block : BOOLEAN]]]
    <3>1. thr \in [Peers -> [Threads -> Requesters]]
      BY <2>1 DEF Types, ThreadsType
    <3>2. QED
      BY <2>8, <3>1
  <2>10. QED
    BY <2>1, <2>4, <2>5, <2>7, <2>9
       DEF TypeOK, Types, StreamsType, ThreadsType, WireType, AppType
<1>2. StreamInv => TypeOK
  BY <1>1
<1>3. QED
  BY <1>2, CarefulAlways, PTL

-----------------------------------------------------------------------------
(* A stream is a bounded queue in each direction: StreamChannel.             *)

Inbox(r) == avail[Other(r)] \o OnWay(r)
Capacities == [r \in Peers |-> stream[r].ws]
Inboxes == [r \in Peers |-> Inbox(r)]
Holding == [r \in Peers |-> held[Other(r)]]
SameRoom == \A r \in Peers : stream'[r].ws = stream[r].ws

LEMMA ChannelSame ==
  ASSUME UNCHANGED <<Capacities, Inboxes, Holding>>
  PROVE  UNCHANGED Channel!chan
BY DEF Channel!chan, Capacities, Inboxes, Inbox, Holding, OnWay

LEMMA ChannelTotal ==
  ASSUME NEW s
  PROVE  Channel!Total(s) = Total(s)
BY Zenon DEF Channel!Total, Channel!Sums, Total, Sums

LEMMA AsWrite ==
  ASSUME NEW p \in Peers, NEW size \in Sizes, SameRoom, UNCHANGED held,
         \A r \in Peers : r # p => Inbox(r)' = Inbox(r),
         Inbox(p)' = Append(Inbox(p), size),
         Total(Inbox(p)) + Total(held[Other(p)]) + size <= stream[p].ws,
         Len(Inbox(p)) + Len(held[Other(p)]) < MaxPackets
  PROVE  Channel!Next
<1>1. Inboxes' = [Inboxes EXCEPT ![p] = Append(@, size)]
  BY DEF Inboxes
<1>2. Capacities' = Capacities /\ Holding' = Holding
  BY DEF Capacities, Holding, SameRoom
<1>3. Channel!Used(p) + size <= Capacities[p]
  <2>1. Inboxes[p] = Inbox(p) /\ Holding[p] = held[Other(p)] /\ Capacities[p] = stream[p].ws
    BY DEF Inboxes, Holding, Capacities
  <2>2. Channel!Used(p) = Total(Inboxes[p]) + Total(Holding[p])
    BY ChannelTotal DEF Channel!Used, Inboxes, Inbox, Holding, OnWay
  <2>3. QED
    BY <2>1, <2>2
<1>4. Len(Inboxes[p]) + Len(Holding[p]) < MaxPackets
  BY DEF Inboxes, Holding
<1>5. Channel!Write(p, size)
  BY <1>1, <1>2, <1>3, <1>4
     DEF Channel!Write, Capacities, Inboxes, Inbox, Holding, OnWay
<1>6. QED
  BY <1>5 DEF Channel!Next

LEMMA AsRead ==
  ASSUME NEW p \in Peers, SameRoom, Inbox(p) # << >>,
         \A r \in Peers : r # p => Inbox(r)' = Inbox(r) /\ held'[Other(r)] = held[Other(r)],
         Inbox(p)' = Tail(Inbox(p)),
         held'[Other(p)] = Append(held[Other(p)], Head(Inbox(p)))
  PROVE  Channel!Next
<1>1. /\ Inboxes' = [Inboxes EXCEPT ![p] = Tail(@)]
      /\ Holding' = [Holding EXCEPT ![p] = Append(@, Head(Inboxes[p]))]
  BY DEF Inboxes, Holding
<1>2. Capacities' = Capacities /\ Inboxes[p] # << >>
  BY DEF Capacities, Inboxes, SameRoom
<1>3. Channel!Read(p)
  BY <1>1, <1>2 DEF Channel!Read, Capacities, Inboxes, Inbox, Holding, OnWay
<1>4. QED
  BY <1>3 DEF Channel!Next

LEMMA AsRelease ==
  ASSUME NEW p \in Peers, SameRoom, held[Other(p)] # << >>,
         \A r \in Peers : Inbox(r)' = Inbox(r) /\ (r # p => held'[Other(r)] = held[Other(r)]),
         held'[Other(p)] = Tail(held[Other(p)])
  PROVE  Channel!Next
<1>1. Inboxes' = Inboxes /\ Holding' = [Holding EXCEPT ![p] = Tail(@)]
  BY DEF Inboxes, Holding
<1>2. Capacities' = Capacities /\ Holding[p] # << >>
  BY DEF Capacities, Holding, SameRoom
<1>3. Channel!Release(p)
  BY <1>1, <1>2 DEF Channel!Release, Capacities, Inboxes, Inbox, Holding, OnWay
<1>4. QED
  BY <1>3 DEF Channel!Next

LEMMA AsEnd ==
  ASSUME NEW p \in Peers, \A r \in Peers : r # p => stream'[r].ws = stream[r].ws,
         \A r \in Peers : Inbox(r)' = Inbox(r), UNCHANGED held,
         \/ stream[p].ws = 0 /\ stream'[p].ws \in Nat \ {0}
         \/ Inbox(p) = << >> /\ held[Other(p)] = << >> /\ stream'[p].ws = 0
         \/ stream'[p].ws = stream[p].ws
  PROVE  Channel!Next \/ UNCHANGED Channel!chan
<1>1. Inboxes' = Inboxes /\ Holding' = Holding
  BY DEF Inboxes, Holding
<1>2. Capacities' = [Capacities EXCEPT ![p] = stream'[p].ws]
  BY DEF Capacities
<1>3. CASE stream[p].ws = 0 /\ stream'[p].ws \in Nat \ {0}
  <2>1. Capacities[p] = 0 /\ Capacities'[p] = stream'[p].ws
    BY <1>3 DEF Capacities
  <2>2. Channel!Open(p)
    BY <1>1, <1>2, <1>3, <2>1 DEF Channel!Open, Capacities, Inboxes, Inbox, Holding, OnWay
  <2>3. QED
    BY <2>2 DEF Channel!Next
<1>4. CASE Inbox(p) = << >> /\ held[Other(p)] = << >> /\ stream'[p].ws = 0
  <2>1. Inboxes[p] = << >> /\ Holding[p] = << >>
    BY <1>4 DEF Inboxes, Holding
  <2>2. Channel!Close(p)
    BY <1>1, <1>2, <1>4, <2>1 DEF Channel!Close, Capacities, Inboxes, Inbox, Holding, OnWay
  <2>3. QED
    BY <2>2 DEF Channel!Next
<1>5. CASE stream'[p].ws = stream[p].ws
  <2>1. Capacities' = Capacities
    BY <1>5 DEF Capacities
  <2>2. QED
    BY <1>1, <2>1, ChannelSame
<1>6. QED
  BY <1>3, <1>4, <1>5

LEMMA AsStutter ==
  ASSUME SameRoom, UNCHANGED <<avail, held>>, \A r \in Peers : OnWay(r)' = OnWay(r)
  PROVE  UNCHANGED Channel!chan
<1>1. Inboxes' = Inboxes /\ Holding' = Holding /\ Capacities' = Capacities
  BY DEF Inboxes, Inbox, Holding, Capacities, SameRoom
<1>2. QED
  BY <1>1, ChannelSame

Steps == Channel!Next \/ UNCHANGED Channel!chan

LEMMA ChannelWrites ==
  ASSUME Basic, Flow, NEW p \in Peers, NEW t \in Threads, Turn(p, t, "WRITE"), Writes(p, t)
  PROVE  Channel!Next
<1> DEFINE q == Other(p)
           m == Msg("req", "WRITE", thr[p][t].id, thr[p][t].size, t)
<1>0. /\ q \in Peers /\ q # p /\ Other(q) = p /\ \A r \in Peers : r = p \/ r = q
      /\ Types /\ Requesting /\ StreamsType
  BY TwoPeers DEF Basic, Types
<1>1. /\ Sends(p, t, m) /\ m.size \in Sizes /\ m.op = "WRITE" /\ SpaceFor(stream[p], m.size)
      /\ stream' = [stream EXCEPT ![p].rfill = @ + m.size, ![p].rpkts = @ + 1]
      /\ UNCHANGED <<avail, held, nextSid, fault>>
  BY DEF Writes, Sends, Msg
<1>2. m.size \in Packets /\ m.size \in Nat
  BY <1>1, StreamAssumption DEF Packets
<1>3. fault = "none"
  BY <1>0, TurnTakes DEF Requesting
<1> HIDE DEF m, q
<1>4. SameRoom
  BY <1>0, <1>1, <1>2, LevelsChange, ZenonT(30) DEF SameRoom, Levels, SameEnds
<1>5. OnWay(p)' = Append(OnWay(p), m.size) /\ OnWay(q)' = OnWay(q)
  BY <1>1, SentLines DEF q
<1>6. PICK a, h, w, b \in Seq(Packets) :
        /\ a = avail[q] /\ h = held[q] /\ w = OnWay(p) /\ b = Back(p)
        /\ stream[p].rfill = Total(a) + Total(h) + Total(w) + Total(b)
        /\ stream[p].rpkts = Len(a) + Len(h) + Len(w) + Len(b)
        /\ Total(a) \in Nat /\ Total(h) \in Nat /\ Total(w) \in Nat /\ Total(b) \in Nat
  <2>1. /\ avail[q] \in Seq(Packets) /\ held[q] \in Seq(Packets)
        /\ OnWay(p) \in Seq(Packets) /\ Back(p) \in Seq(Packets)
        /\ stream[q].lfill = Total(avail[q]) + Total(held[q])
        /\ Total(avail[q]) \in Nat /\ Total(held[q]) \in Nat
        /\ Total(OnWay(p)) \in Nat /\ Total(Back(p)) \in Nat
        /\ stream[p].rfill = stream[q].lfill + Total(OnWay(p)) + Total(Back(p))
        /\ stream[p].rpkts = Len(avail[q]) + Len(held[q]) + Len(OnWay(p)) + Len(Back(p))
    BY <1>0, <1>3, Direction DEF Flow, q
  <2>2. stream[p].rfill = Total(avail[q]) + Total(held[q]) + Total(OnWay(p)) + Total(Back(p))
    BY <2>1
  <2>3. QED
    BY <2>1, <2>2, Zenon
<1>7. /\ Inbox(p) = a \o w /\ Inbox(p)' = Append(Inbox(p), m.size)
      /\ Total(Inbox(p)) = Total(a) + Total(w) /\ Len(Inbox(p)) = Len(a) + Len(w)
  <2>1. Inbox(p) = a \o w /\ Inbox(p)' = a \o Append(w, m.size)
    BY <1>1, <1>5, <1>6 DEF Inbox, q
  <2>2. a \o Append(w, m.size) = Append(a \o w, m.size)
    BY <1>2, ConcatAppend
  <2>3. Len(a \o w) = Len(a) + Len(w)
    OBVIOUS
  <2>4. Total(a \o w) = Total(a) + Total(w)
    <3>1. a \in Seq(Int) /\ w \in Seq(Int)
      BY DEF Packets
    <3>2. QED
      BY <3>1, TotalConcat
  <2>5. QED
    BY <2>1, <2>2, <2>3, <2>4
<1>8. \A r \in Peers : r # p => Inbox(r)' = Inbox(r)
  BY <1>0, <1>1, <1>5 DEF Inbox
<1>9. /\ stream[p].rpkts < MaxPackets /\ stream[p].rfill + m.size <= stream[p].ws
      /\ stream[p].ws \in Nat /\ MaxPackets \in Nat
  BY <1>0, <1>1, StreamAssumption DEF SpaceFor, StreamsType
<1>10. Total(Inbox(p)) + Total(held[q]) + m.size <= stream[p].ws
  <2>1. PICK i, j, k, l \in Nat : i = Total(a) /\ j = Total(h) /\ k = Total(w) /\ l = Total(b)
    BY <1>6
  <2>2. stream[p].rfill = i + j + k + l
    BY <1>6, <2>1
  <2>3. (i + k) + j + m.size <= stream[p].ws
    BY <1>2, <1>9, <2>2, SMTT(30)
  <2>4. Total(Inbox(p)) = i + k /\ Total(held[q]) = j
    BY <1>6, <1>7, <2>1
  <2>5. QED
    BY <2>3, <2>4
<1>11. Len(Inbox(p)) + Len(held[q]) < MaxPackets
  <2>1. PICK i, j, k, l \in Nat : i = Len(a) /\ j = Len(h) /\ k = Len(w) /\ l = Len(b)
    OBVIOUS
  <2>2. stream[p].rpkts = i + j + k + l
    BY <1>6, <2>1
  <2>3. (i + k) + j < MaxPackets
    BY <1>9, <2>2
  <2>4. Len(Inbox(p)) = i + k /\ Len(held[q]) = j
    BY <1>6, <1>7, <2>1
  <2>5. QED
    BY <2>3, <2>4
<1>12. QED
  BY <1>1, <1>4, <1>7, <1>8, <1>10, <1>11, AsWrite DEF q

LEMMA ChannelReads ==
  ASSUME Basic, Flow, NEW p \in Peers, NEW t \in Threads, Turn(p, t, "READ"), Reads(p, t)
  PROVE  Channel!Next
<1> DEFINE q == Other(p)
<1>0. /\ q \in Peers /\ q # p /\ Other(q) = p /\ \A r \in Peers : r = p \/ r = q
      /\ Types /\ PacketsType
  BY TwoPeers DEF Basic, Types
<1>1. /\ avail[p] # << >>
      /\ avail' = [avail EXCEPT ![p] = Tail(@)]
      /\ held' = [held EXCEPT ![p] = Append(@, Head(avail[p]))]
      /\ stream' = stream /\ wire' = wire
  BY DEF Reads, Stops
<1>2. SameRoom /\ \A r \in Peers : OnWay(r)' = OnWay(r)
  BY <1>1 DEF SameRoom, OnWay
<1>3. /\ avail'[p] = Tail(avail[p]) /\ held'[p] = Append(held[p], Head(avail[p]))
      /\ avail'[q] = avail[q] /\ held'[q] = held[q]
  BY <1>0, <1>1 DEF PacketsType
<1> HIDE DEF q
<1>4. PICK a, w \in Seq(Packets) : a = avail[p] /\ w = OnWay(q)
  <2>1. wire[q] \in Seq(Letters)
    BY <1>0, LineType DEF Types
  <2>2. OnWay(q) \in Seq(Packets)
    BY <2>1, RequestsSeq DEF OnWay
  <2>3. QED
    BY <1>0, <2>2 DEF PacketsType
<1>5. Inbox(q) = a \o w /\ Inbox(q)' = Tail(a) \o w
  BY <1>0, <1>2, <1>3, <1>4 DEF Inbox
<1>6. a \o w # << >> /\ Head(a \o w) = Head(a) /\ Tail(a \o w) = Tail(a) \o w
  <2>1. a # << >>
    BY <1>1, <1>4
  <2>2. QED
    BY <2>1
<1>7. Inbox(q) # << >> /\ Inbox(q)' = Tail(Inbox(q)) /\ held'[p] = Append(held[p], Head(Inbox(q)))
  BY <1>3, <1>4, <1>5, <1>6
<1>8. \A r \in Peers : r # q => Inbox(r)' = Inbox(r) /\ held'[Other(r)] = held[Other(r)]
  BY <1>0, <1>2, <1>3 DEF Inbox, q
<1>9. QED
  BY <1>0, <1>2, <1>7, <1>8, AsRead

LEMMA ChannelReleases ==
  ASSUME Basic, Flow, NEW p \in Peers, NEW t \in Threads, Turn(p, t, "REL"), Releases(p, t)
  PROVE  Channel!Next
<1> DEFINE q == Other(p)
           x == Head(held[p])
           m == Msg("req", "REL", thr[p][t].id, x, t)
<1>0. /\ q \in Peers /\ q # p /\ Other(q) = p /\ \A r \in Peers : r = p \/ r = q
      /\ Types /\ StreamsType /\ PacketsType
  BY TwoPeers DEF Basic, Types
<1>1. /\ Sends(p, t, m) /\ m.op = "REL" /\ held[p] # << >>
      /\ held' = [held EXCEPT ![p] = Tail(@)]
      /\ stream' = [stream EXCEPT ![p].lfill = @ - x]
      /\ UNCHANGED <<avail, nextSid>>
  BY DEF Releases, Sends, Msg
<1>2. x \in Nat
  <2>1. held[p] \in Seq(Packets)
    BY <1>0 DEF PacketsType
  <2>2. QED
    BY <1>1, <2>1, PacketTaken DEF Packets
<1> HIDE DEF q, m, x
<1>3. SameRoom
  BY <1>0, <1>1, <1>2, LevelsChange DEF SameRoom, Levels, SameEnds
<1>4. OnWay(p)' = OnWay(p) /\ OnWay(q)' = OnWay(q)
  BY <1>1, SentLines DEF q
<1>5. held'[p] = Tail(held[p]) /\ held'[q] = held[q]
  BY <1>0, <1>1 DEF PacketsType
<1>6. \A r \in Peers : Inbox(r)' = Inbox(r)
  BY <1>0, <1>1, <1>4 DEF Inbox
<1>7. QED
  BY <1>0, <1>1, <1>3, <1>5, <1>6, AsRelease DEF q

LEMMA ChannelStores ==
  ASSUME Basic, Flow, NEW p \in Peers, Stores(p)
  PROVE  UNCHANGED Channel!chan
<1> DEFINE q == Other(p)
           m == Head(wire[q])
           x == m.size
<1>0. /\ q \in Peers /\ q # p /\ Other(q) = p /\ \A r \in Peers : r = p \/ r = q
      /\ Types /\ Requesting /\ PacketsType
  BY TwoPeers DEF Basic, Types
<1>1. /\ wire[q] # << >> /\ Is(m, "WRITE") /\ fault = "none" /\ stream[p].sem = 1
      /\ \A r \in Peers : r # p => stream'[r] = stream[r]
      /\ SameEnds(p)
      /\ avail' = [avail EXCEPT ![p] =
           IF Len(avail[p]) + Len(held[p]) < MaxPackets THEN Append(@, x) ELSE @]
      /\ UNCHANGED held
  BY DEF Stores, Levels
<1>2. wire'[p] = wire[p] /\ wire'[q] = Tail(wire[q])
  BY <1>0, MovedRequests
<1>3. wire[q] \in Seq(Letters) /\ Tail(wire[q]) \in Seq(Letters) /\ m \in Letters
  <2>1. wire[q] \in Seq(Letters)
    BY <1>0, LineType DEF Types
  <2>2. QED
    BY <1>1, <2>1
<1>4. x \in Packets
  BY <1>1, <1>3 DEF Is, Letters, Messages, Packets
<1>5. OnWay(q) = <<x>> \o OnWay(q)'
  BY <1>0, <1>1, <1>2, ReadOnWay
<1>6. OnWay(q)' \in Seq(Packets)
  <2>1. Requests(wire'[q], "WRITE") \in Seq(Packets)
    BY <1>2, <1>3, RequestsSeq
  <2>2. QED
    BY <2>1 DEF OnWay
<1> HIDE DEF q, m, x
<1>7. PICK a, c \in Seq(Packets) : a = avail[p] /\ c = OnWay(q)'
  BY <1>0, <1>6 DEF PacketsType
<1>8. OnWay(q) # << >>
  BY <1>4, <1>5, <1>7
<1>9. Len(avail[p]) + Len(held[p]) < MaxPackets
  BY <1>0, <1>1, <1>8, DataFits
<1>10. avail'[p] = Append(avail[p], x) /\ avail'[q] = avail[q]
  BY <1>0, <1>1, <1>9 DEF PacketsType
<1>11. Inbox(q)' = Inbox(q)
  <2>1. Inbox(q) = a \o (<<x>> \o c) /\ Inbox(q)' = Append(a, x) \o c
    BY <1>0, <1>5, <1>7, <1>10 DEF Inbox
  <2>2. a \o (<<x>> \o c) = Append(a, x) \o c
    BY <1>4
  <2>3. QED
    BY <2>1, <2>2
<1>12. Inbox(p)' = Inbox(p)
  BY <1>2, <1>10 DEF Inbox, OnWay, q
<1>13. Inboxes' = Inboxes
  BY <1>0, <1>11, <1>12 DEF Inboxes
<1>14. Capacities' = Capacities /\ Holding' = Holding
  BY <1>1 DEF Capacities, Holding, SameEnds
<1>15. QED
  BY <1>13, <1>14, ChannelSame

LEMMA ChannelOpens ==
  ASSUME Basic, Flow, NEW p \in Peers, TakenOpen(p)
  PROVE  Steps
<1> DEFINE h == Head(inq[p])
<1>1. /\ Takes(p) /\ h.op = "OPEN" /\ \A r \in Peers : r # p => stream'[r] = stream[r]
      /\ Created(p, h.size, 0) \/ Kept(p, h.size, 0) \/ Extended(p, h.size, 0)
  BY DEF TakenOpen
<1>2. UNCHANGED <<avail, held>> /\ h.size \in Nat \ {0}
  BY <1>1 DEF Takes, Letters, Messages
<1> HIDE DEF h
<1>3. \A r \in Peers : Inbox(r)' = Inbox(r)
  <2>1. \A r \in Peers : OnWay(r)' = OnWay(r)
    BY <1>1, TakenLines
  <2>2. QED
    BY <1>2, <2>1 DEF Inbox
<1>4. stream'[p].ws = stream[p].ws \/ (stream[p].ws = 0 /\ stream'[p].ws = h.size)
  <2>1. CASE Created(p, h.size, 0)
    BY <2>1, CreatedLevels DEF Created
  <2>2. CASE Kept(p, h.size, 0)
    BY <2>2 DEF Kept
  <2>3. CASE Extended(p, h.size, 0)
    BY <2>3 DEF Extended
  <2>4. QED
    BY <1>1, <2>1, <2>2, <2>3
<1>5. QED
  BY <1>1, <1>2, <1>3, <1>4, AsEnd DEF Steps

LEMMA ChannelCloses ==
  ASSUME Basic, Flow, fault = "none", NEW p \in Peers, TakenClose(p)
  PROVE  Steps
<1> DEFINE q == Other(p)
           h == Head(inq[p])
<1>0. q \in Peers /\ Types
  BY TwoPeers DEF Basic
<1>1. /\ Takes(p) /\ h.op = "CLOSE" /\ \A r \in Peers : r # p => stream'[r] = stream[r]
      /\ Levels(p, stream[p].rfill, stream[p].rpkts, stream[p].lfill) \/ ClosedOut(p, h.id)
  BY DEF TakenClose
<1>2. UNCHANGED <<avail, held>>
  BY <1>1 DEF Takes
<1>3. h \in Answered(p)
  BY <1>0, <1>1, TakenRequests DEF Basic
<1> HIDE DEF q, h
<1>4. \A r \in Peers : Inbox(r)' = Inbox(r)
  <2>1. \A r \in Peers : OnWay(r)' = OnWay(r)
    BY <1>1, TakenLines
  <2>2. QED
    BY <1>2, <2>1 DEF Inbox
<1>5. stream[p].rpkts = 0
  BY <1>1, <1>3 DEF Flow, Closing
<1>6. Inbox(p) = << >> /\ held[q] = << >>
  <2>1. /\ avail[q] \in Seq(Packets) /\ held[q] \in Seq(Packets)
        /\ OnWay(p) \in Seq(Packets) /\ Back(p) \in Seq(Packets)
        /\ stream[p].rpkts = Len(avail[q]) + Len(held[q]) + Len(OnWay(p)) + Len(Back(p))
    BY <1>0, Direction DEF Flow, q
  <2>2. PICK a, c, w, b \in Seq(Packets) :
          a = avail[q] /\ c = held[q] /\ w = OnWay(p) /\ b = Back(p)
    BY <2>1
  <2>3. PICK i, j, k, l \in Nat : i = Len(a) /\ j = Len(c) /\ k = Len(w) /\ l = Len(b)
    OBVIOUS
  <2>4. i + j + k + l = 0
    BY <1>5, <2>1, <2>2, <2>3
  <2>5. i = 0 /\ j = 0 /\ k = 0
    BY <2>4
  <2>6. a = << >> /\ c = << >> /\ w = << >>
    <3>1. Len(a) = 0 /\ Len(c) = 0 /\ Len(w) = 0
      BY <2>3, <2>5
    <3>2. QED
      BY <3>1, EmptySeq
  <2>7. QED
    BY <2>2, <2>6 DEF Inbox, q
<1>7. stream'[p].ws = stream[p].ws \/ stream'[p].ws = 0
  BY <1>1 DEF Levels, SameEnds, ClosedOut
<1>8. QED
  BY <1>1, <1>2, <1>4, <1>6, <1>7, AsEnd DEF Steps, q

LEMMA ChannelAnswers ==
  ASSUME Basic, Flow, NEW p \in Peers, NEW a,
         \/ AnsweredWrite(p, a) \/ AnsweredRelease(p, a)
         \/ AnsweredOpen(p, a) \/ AnsweredClose(p, a)
  PROVE  UNCHANGED Channel!chan
<1>1. /\ Answers(p, a) /\ UNCHANGED <<avail, held>>
      /\ \A r \in Peers : r # p => stream'[r] = stream[r]
  BY DEF AnsweredWrite, AnsweredRelease, AnsweredOpen, AnsweredClose, Answers, Stays
<1>2. stream'[p].ws = stream[p].ws
  <2>1. CASE AnsweredOpen(p, a)
    <3>1. CASE Created(p, 0, a.size)
      BY <3>1, CreatedLevels DEF Created
    <3>2. CASE Kept(p, 0, a.size) \/ Extended(p, 0, a.size)
      BY <3>2 DEF Kept, Extended
    <3>3. QED
      BY <2>1, <3>1, <3>2 DEF AnsweredOpen
  <2>2. CASE AnsweredClose(p, a)
    BY <2>2 DEF AnsweredClose, Levels, SameEnds, ClosedIn
  <2>3. CASE AnsweredWrite(p, a) \/ AnsweredRelease(p, a)
    BY <2>3 DEF AnsweredWrite, AnsweredRelease, Stays, Levels, SameEnds
  <2>4. QED
    BY <2>1, <2>2, <2>3
<1>3. OnWay(p)' = OnWay(p) /\ OnWay(Other(p))' = OnWay(Other(p))
  BY <1>1, AnsweredLines
<1>4. \A r \in Peers : OnWay(r)' = OnWay(r)
  BY <1>3, TwoPeers
<1>5. SameRoom
  BY <1>1, <1>2 DEF SameRoom
<1>6. QED
  BY <1>1, <1>4, <1>5, AsStutter

\* Steps that leave the descriptors' ends, the packets and the wire alone.
LEMMA ChannelIdle ==
  ASSUME \A r \in Peers : SameEnds(r), UNCHANGED <<avail, held>>,
         \A r \in Peers : OnWay(r)' = OnWay(r)
  PROVE  Steps
BY AsStutter DEF SameRoom, SameEnds, Steps

LEMMA ChannelLocal ==
  ASSUME Basic, Flow, NEW p \in Peers, NEW t \in Threads, LocalRequest(p, t)
  PROVE  Steps
<1>0. Types /\ Requesting /\ Queued /\ StreamsType
  BY DEF Basic, Requesting, Types
<1>1. CASE Turn(p, t, "WRITE") /\ Writes(p, t)
  BY <1>1, ChannelWrites DEF Steps
<1>2. CASE Turn(p, t, "READ") /\ Reads(p, t)
  BY <1>2, ChannelReads DEF Steps
<1>3. CASE Turn(p, t, "REL") /\ Releases(p, t)
  BY <1>3, ChannelReleases DEF Steps
<1>4. CASE LocalNotFound(p, t)
  <2>1. UNCHANGED <<stream, avail, held, wire>>
    BY <1>4 DEF LocalNotFound, data
  <2>2. QED
    BY <2>1, ChannelIdle DEF SameEnds, OnWay
<1>5. ASSUME NEW op \in AllOps, Turn(p, t, op), Waits(p, t)
      PROVE  Steps
  <2>1. UNCHANGED <<avail, held, wire>>
        /\ (stream' = stream \/ stream' = [stream EXCEPT ![p].closing = TRUE])
    BY <1>5 DEF Waits, Stops
  <2>2. \A r \in Peers : SameEnds(r)
    BY <1>0, <1>5, <2>1, LevelsChange DEF Waits, Levels, SameEnds
  <2>3. QED
    BY <2>1, <2>2, ChannelIdle DEF OnWay
<1>6. ASSUME NEW op, Turn(p, t, op), NEW m, Sends(p, t, m), m.op # "WRITE", UNCHANGED data
      PROVE  Steps
  <2>1. \A r \in Peers : OnWay(r)' = OnWay(r)
    BY <1>6, SentLines, TwoPeers
  <2>2. QED
    BY <1>6, <2>1, ChannelIdle DEF data, SameEnds
<1>7. CASE Turn(p, t, "OPEN") /\ AsksOpen(p, t)
  <2>1. PICK m : Sends(p, t, m) /\ m.op = "OPEN" /\ UNCHANGED data
    BY <1>7 DEF AsksOpen, Sends, Msg
  <2>2. QED
    BY <1>6, <1>7, <2>1
<1>8. CASE Turn(p, t, "CLOSE") /\ Closes(p, t)
  <2>1. PICK m : Sends(p, t, m) /\ m.op = "CLOSE" /\ UNCHANGED data
    BY <1>8 DEF Closes, Sends, Msg
  <2>2. QED
    BY <1>6, <1>8, <2>1
<1>9. QED
  BY <1>0, <1>1, <1>2, <1>3, <1>4, <1>5, <1>7, <1>8, LocalEffects

LEMMA ChannelRemote ==
  ASSUME Basic, Flow, NEW p \in Peers, RemoteEvent(p)
  PROVE  Steps
<1>1. fault = "none"
  BY DEF RemoteEvent, RemoteWrite, RemoteRelease, RemoteReleaseNotFound, RemoteCreate,
         RemoteClose, Response, ResponseCreate, ResponseClose, Incoming
<1>2. CASE RemoteReleaseNotFound(p)
  <2>1. UNCHANGED <<data, wire>>
    BY <1>2, PeerNotFoundRequests DEF Basic
  <2>2. QED
    BY <2>1, ChannelIdle DEF data, SameEnds, OnWay
<1>3. CASE TakenData(p)
  <2>1. UNCHANGED <<avail, held>> /\ Takes(p) /\ \A r \in Peers : SameEnds(r)
    BY <1>3 DEF TakenData, Takes, Stays, Levels, SameEnds
  <2>2. QED
    BY <2>1, TakenLines, ChannelIdle
<1>4. ASSUME NEW a, \/ AnsweredWrite(p, a) \/ AnsweredRelease(p, a)
                    \/ AnsweredOpen(p, a) \/ AnsweredClose(p, a)
      PROVE  Steps
  BY <1>4, ChannelAnswers DEF Steps
<1>5. QED
  BY <1>1, <1>2, <1>3, <1>4, ChannelOpens, ChannelCloses, RemoteEffects DEF Basic

LEMMA ChannelReader ==
  ASSUME Basic, Flow, NEW p \in Peers, Reader(p)
  PROVE  Steps
<1>1. CASE Looks(p)
  BY <1>1, ChannelIdle DEF Looks, data, SameEnds, OnWay
<1>2. CASE Stores(p)
  BY <1>2, ChannelStores DEF Steps
<1>3. CASE Moves(p)
  <2> DEFINE q == Other(p)
             m == Head(wire[q])
  <2>0. q \in Peers /\ \A r \in Peers : r = p \/ r = q
    BY TwoPeers
  <2>1. wire[q] # << >> /\ ~Is(m, "WRITE") /\ UNCHANGED data
    BY <1>3 DEF Moves
  <2>2. wire'[p] = wire[p] /\ wire'[q] = Tail(wire[q])
    BY <1>3, MovedRequests DEF Basic
  <2>3. OnWay(q) = IF Is(m, "WRITE") THEN <<m.size>> \o OnWay(q)' ELSE OnWay(q)'
    BY <2>0, <2>1, <2>2, ReadOnWay DEF Basic
  <2> HIDE DEF q, m
  <2>4. \A r \in Peers : OnWay(r)' = OnWay(r)
    BY <2>0, <2>1, <2>2, <2>3 DEF OnWay
  <2>5. QED
    BY <2>1, <2>4, ChannelIdle DEF data, SameEnds
<1>4. QED
  BY <1>1, <1>2, <1>3, ReaderEffects DEF Basic

LEMMA ChannelNext ==
  ASSUME StreamInv, [Next]_vars
  PROVE  Steps
<1>0. Basic /\ Flow
  BY DEF StreamInv
<1>1. ASSUME NEW p \in Peers, NEW t \in Threads, Application(p, t)
      PROVE  Steps
  <2>1. UNCHANGED <<data, wire>>
    BY <1>0, <1>1, BasicBegun DEF Begins
  <2>2. QED
    BY <2>1, ChannelIdle DEF data, SameEnds, OnWay
<1>2. CASE UNCHANGED vars
  BY <1>2, ChannelIdle DEF vars, data, SameEnds, OnWay
<1>3. QED
  BY <1>0, <1>1, <1>2, ChannelLocal, ChannelRemote, ChannelReader DEF Next, Scheduler

LEMMA ChannelInit == Init => Channel!Init
<1> SUFFICES ASSUME Init PROVE Channel!Init
  OBVIOUS
<1>1. \A r \in Peers : /\ stream[r].ws = 0 /\ avail[r] = << >> /\ held[r] = << >>
                       /\ wire[r] = << >> /\ Other(r) \in Peers
  BY TwoPeers DEF Init, NoStream
<1>2. \A r \in Peers : Inbox(r) = << >>
  BY <1>1, RequestsEmpty DEF Inbox, OnWay
<1>3. /\ Capacities = [r \in Peers |-> 0] /\ Inboxes = [r \in Peers |-> << >>]
      /\ Holding = [r \in Peers |-> << >>]
  BY <1>1, <1>2 DEF Capacities, Inboxes, Holding
<1>4. QED
  BY <1>3 DEF Channel!Init, Capacities, Inboxes, Inbox, Holding, OnWay

\* Each direction of a stream is a bounded FIFO: no buffer overflows, no packet is
\* dropped or overtakes another, and a direction closes only when it is empty.
THEOREM StreamIsChannel == Spec => IsChannel
<1> DEFINE KInv == Basic /\ (Careful => StreamInv)
<1>1. Init => KInv
  BY BasicInit, CarefulInit
<1>2. KInv /\ [Next]_vars => KInv'
  <2> SUFFICES ASSUME KInv, [Next]_vars PROVE KInv'
    OBVIOUS
  <2>1. Basic' /\ usage' = usage
    BY BasicNext, UsageKept
  <2>2. ASSUME Careful PROVE StreamInv'
    BY <2>2, CarefulNext
  <2>3. Careful' => Careful
    BY <2>1 DEF Careful
  <2>4. QED
    BY <2>1, <2>2, <2>3
<1>3. KInv /\ [Next]_vars => ["local" \in usage.careful => Channel!Next]_(Channel!chan)
  <2> SUFFICES ASSUME KInv, [Next]_vars, "local" \in usage.careful
               PROVE  Channel!Next \/ UNCHANGED Channel!chan
    OBVIOUS
  <2>1. StreamInv
    BY DEF Careful
  <2>2. QED
    BY <2>1, ChannelNext DEF Steps
<1>4. QED
  BY <1>1, <1>2, <1>3, ChannelInit, PTL DEF Spec, IsChannel

-----------------------------------------------------------------------------
(* The two ends agree, for applications that agree with each other.          *)

Agreeing == {"local", "peer"} \subseteq usage.careful

\* No end opens while one closes.
Opening(r) == r.op = "OPEN" /\ r.pc \in Asking
Ending(r) == r.op = "CLOSE" /\ r.pc # "idle"
Exclusive ==
  \A p, q \in Peers : \A t, u \in Threads : Opening(thr[p][t]) => ~Ending(thr[q][u])

\* The first answer to an open that a line holds has the size and the id.
IsOpened(m) == m.kind = "resp" /\ m.op = "OPEN"
First(line, size, id) ==
  \E i \in DOMAIN line :
    /\ IsOpened(line[i]) /\ line[i].size = size /\ line[i].id = id
    /\ \A j \in DOMAIN line : IsOpened(line[j]) => i <= j

\* A direction is as large at both ends, except that the answer to an open or to a
\* close is on its way to the writer.
Alike(p) == stream[p].ws = stream[Other(p)].rs
Promised(p) ==
  /\ stream[p].ws = 0 /\ stream[Other(p)].rs # 0
  /\ First(Line(Other(p)), stream[Other(p)].rs, stream[Other(p)].id)
Revoked(p) ==
  /\ stream[p].ws # 0 /\ stream[Other(p)].rs = 0
  /\ \E m \in Answered(p) : m.op = "CLOSE" /\ m.id = stream[p].id
Directed(p) ==
  /\ Alike(p) \/ Promised(p) \/ Revoked(p)
  /\ \A m \in Answered(p) : m.op = "OPEN" => stream[Other(p)].rs # 0
  /\ \A m \in Answered(p) : m.op = "CLOSE" =>
       stream[p].ws = 0 \/ stream[Other(p)].rs = 0
\* An end that is open in no direction is free.
Freed(p) == stream[p].ws = 0 /\ stream[p].rs = 0 => stream[p].id = None

\* The ends give the stream the same id from the same counter; the other end has opened
\* it first, or closed it first.
Aligned(p) == stream[p].id = stream[Other(p)].id /\ nextSid[p] = nextSid[Other(p)]
Ahead(p) ==
  /\ stream[p].id = None /\ stream[Other(p)].id = nextSid[p]
  /\ nextSid[Other(p)] = nextSid[p] + 1 /\ stream[Other(p)].rs # 0
Behind(p) ==
  /\ stream[p].id # None /\ stream[Other(p)].id = None
  /\ nextSid[p] = nextSid[Other(p)] /\ stream[p].ws # 0
Named(p) == Aligned(p) \/ Ahead(p) \/ Behind(p) \/ Ahead(Other(p)) \/ Behind(Other(p))

Pairs(p) == Directed(p) /\ Freed(p) /\ Named(p)
Paired == \A p \in Peers : Pairs(p)
AgreeInv == StreamInv /\ Agreeing /\ Exclusive /\ Paired

-----------------------------------------------------------------------------
(* The first answer of a line.                                               *)

LEMMA FirstAppend ==
  ASSUME NEW s \in Seq(Letters), NEW m \in Letters, NEW size, NEW id, First(s, size, id)
  PROVE  First(Append(s, m), size, id)
<1> DEFINE r == Append(s, m)
<1>1. /\ Len(s) \in Nat /\ DOMAIN s = 1 .. Len(s) /\ DOMAIN r = 1 .. Len(s) + 1
      /\ r[Len(s) + 1] = m /\ \A k \in 1 .. Len(s) : r[k] = s[k]
  BY LenProperties
<1> HIDE DEF r
<1>2. PICK i \in DOMAIN s :
        /\ IsOpened(s[i]) /\ s[i].size = size /\ s[i].id = id
        /\ \A j \in DOMAIN s : IsOpened(s[j]) => i <= j
  BY DEF First
<1>3. i \in DOMAIN r /\ r[i] = s[i] /\ i \in Int /\ i <= Len(s)
  BY <1>1, <1>2
<1>4. ASSUME NEW j \in DOMAIN r, IsOpened(r[j]) PROVE i <= j
  <2>1. CASE j \in DOMAIN s
    BY <1>1, <1>2, <1>4, <2>1
  <2>2. CASE j \notin DOMAIN s
    BY <1>1, <1>3, <2>2
  <2>3. QED
    BY <2>1, <2>2
<1>5. QED
  BY <1>2, <1>3, <1>4 DEF First, r

LEMMA FirstNew ==
  ASSUME NEW s \in Seq(Letters), NEW m \in Letters, IsOpened(m),
         \A n \in Msgs(s, "resp") : n.op # "OPEN"
  PROVE  First(Append(s, m), m.size, m.id)
<1> DEFINE r == Append(s, m)
<1>1. /\ Len(s) \in Nat /\ DOMAIN s = 1 .. Len(s) /\ DOMAIN r = 1 .. Len(s) + 1
      /\ r[Len(s) + 1] = m /\ \A k \in 1 .. Len(s) : r[k] = s[k]
  BY LenProperties
<1> HIDE DEF r
<1>2. \A k \in DOMAIN s : ~IsOpened(s[k])
  BY DEF Msgs, IsOpened
<1>3. \A j \in DOMAIN r : IsOpened(r[j]) => Len(s) + 1 <= j
  <2> SUFFICES ASSUME NEW j \in DOMAIN r, IsOpened(r[j]) PROVE Len(s) + 1 <= j
    OBVIOUS
  <2>1. j \notin 1 .. Len(s)
    BY <1>1, <1>2
  <2>2. QED
    BY <1>1, <2>1
<1>4. Len(s) + 1 \in DOMAIN r
  BY <1>1
<1>5. QED
  BY <1>1, <1>3, <1>4 DEF First, r

LEMMA FirstTail ==
  ASSUME NEW s \in Seq(Letters), s # << >>, NEW size, NEW id, First(s, size, id)
  PROVE  IF IsOpened(Head(s)) THEN Head(s).size = size /\ Head(s).id = id
         ELSE First(Tail(s), size, id)
<1> DEFINE r == Tail(s)
           h == Head(s)
<1>1. /\ Len(s) \in Nat \ {0} /\ DOMAIN s = 1 .. Len(s) /\ h = s[1]
      /\ DOMAIN r = 1 .. Len(s) - 1 /\ \A k \in 1 .. Len(s) - 1 : r[k] = s[k + 1]
  BY LenProperties
<1> HIDE DEF r, h
<1>2. PICK i \in DOMAIN s :
        /\ IsOpened(s[i]) /\ s[i].size = size /\ s[i].id = id
        /\ \A j \in DOMAIN s : IsOpened(s[j]) => i <= j
  BY DEF First
<1>3. CASE IsOpened(h)
  <2>1. i = 1
    BY <1>1, <1>2, <1>3
  <2>2. QED
    BY <1>1, <1>2, <1>3, <2>1 DEF h
<1>4. CASE ~IsOpened(h)
  <2>1. i # 1 /\ i \in Int
    BY <1>1, <1>2, <1>4
  <2>2. PICK k \in Int : k = i - 1
    BY <2>1
  <2>3. k \in DOMAIN r /\ r[k] = s[i]
    BY <1>1, <2>1, <2>2
  <2>4. ASSUME NEW j \in DOMAIN r, IsOpened(r[j]) PROVE k <= j
    <3>1. j \in Int /\ j + 1 \in DOMAIN s /\ s[j + 1] = r[j]
      BY <1>1
    <3>2. i <= j + 1
      BY <1>2, <2>4, <3>1
    <3>3. QED
      BY <2>1, <2>2, <3>1, <3>2
  <2>5. First(r, size, id)
    BY <1>2, <2>3, <2>4 DEF First
  <2>6. QED
    BY <1>4, <2>5 DEF r, h
<1>5. QED
  BY <1>3, <1>4

\* A first answer is an answer.
LEMMA FirstAnswered ==
  ASSUME NEW p \in Peers, Promised(p)
  PROVE  \E m \in Answered(p) : m.op = "OPEN"
BY DEF Promised, First, IsOpened, Answered, Msgs

-----------------------------------------------------------------------------
(* What a step leaves alone.                                                 *)

KeepsFirst(r) ==
  \A size, id : First(Line(Other(r)), size, id) => First(Line(Other(r))', size, id)
KeepsAnswers(r) ==
  /\ \A m \in Answered(r)' : m.op \in {"OPEN", "CLOSE"} => m \in Answered(r)
  /\ \A m \in Answered(r) : m.op = "CLOSE" => m \in Answered(r)'

LEMMA PromisedNext ==
  \A p \in Peers :
    Promised(p)' <=> /\ stream'[p].ws = 0 /\ stream'[Other(p)].rs # 0
                     /\ First(Line(Other(p))', stream'[Other(p)].rs, stream'[Other(p)].id)
BY DEF Promised, First, IsOpened

LEMMA DirectedKept ==
  ASSUME NEW p \in Peers, Directed(p), SameEnds(p), SameEnds(Other(p)),
         KeepsAnswers(p), KeepsFirst(p)
  PROVE  Directed(p)'
<1> DEFINE q == Other(p)
<1>1. /\ stream'[p].id = stream[p].id /\ stream'[p].ws = stream[p].ws
      /\ stream'[q].id = stream[q].id /\ stream'[q].rs = stream[q].rs
  BY DEF SameEnds
<1>2. Alike(p) => Alike(p)'
  BY <1>1 DEF Alike
<1>3. Promised(p) => Promised(p)'
  BY <1>1, PromisedNext DEF Promised, KeepsFirst
<1>4. Revoked(p) => Revoked(p)'
  BY <1>1 DEF Revoked, KeepsAnswers
<1>5. \A m \in Answered(p)' : m.op = "OPEN" => stream'[q].rs # 0
  BY <1>1 DEF Directed, KeepsAnswers
<1>6. \A m \in Answered(p)' : m.op = "CLOSE" => stream'[p].ws = 0 \/ stream'[q].rs = 0
  BY <1>1 DEF Directed, KeepsAnswers
<1>7. QED
  BY <1>2, <1>3, <1>4, <1>5, <1>6 DEF Directed

LEMMA NamedKept ==
  ASSUME NEW p \in Peers, Named(p), SameEnds(p), SameEnds(Other(p)), nextSid' = nextSid
  PROVE  Named(p)'
<1>1. Other(Other(p)) = p
  BY TwoPeers
<1>2. QED
  BY <1>1 DEF Named, Aligned, Ahead, Behind, SameEnds

LEMMA PairedKept ==
  ASSUME Paired, \A r \in Peers : SameEnds(r) /\ KeepsAnswers(r) /\ KeepsFirst(r),
         nextSid' = nextSid
  PROVE  Paired'
<1>1. ASSUME NEW p \in Peers PROVE Pairs(p)'
  <2>1. Pairs(p) /\ Other(p) \in Peers
    BY TwoPeers DEF Paired
  <2>2. Directed(p)' /\ Named(p)'
    BY <2>1, DirectedKept, NamedKept DEF Pairs
  <2>3. Freed(p)'
    BY <2>1 DEF Pairs, Freed, SameEnds
  <2>4. QED
    BY <2>2, <2>3 DEF Pairs
<1>2. QED
  BY <1>1 DEF Paired

\* Lines that grow by a request, or lose one.
LEMMA SameFirst ==
  ASSUME NEW r \in Peers, Line(Other(r))' = Line(Other(r))
  PROVE  KeepsFirst(r)
BY DEF KeepsFirst

LEMMA GrownFirst ==
  ASSUME WireType, NEW r \in Peers, NEW m \in Letters,
         Line(Other(r))' = Append(Line(Other(r)), m)
  PROVE  KeepsFirst(r)
<1>1. Line(Other(r)) \in Seq(Letters)
  BY LineType, TwoPeers
<1>2. QED
  BY <1>1, FirstAppend DEF KeepsFirst

LEMMA ShrunkFirst ==
  ASSUME WireType, NEW r \in Peers, Line(Other(r)) # << >>, ~IsOpened(Head(Line(Other(r)))),
         Line(Other(r))' = Tail(Line(Other(r)))
  PROVE  KeepsFirst(r)
<1>1. Line(Other(r)) \in Seq(Letters)
  BY LineType, TwoPeers
<1>2. QED
  BY <1>1, FirstTail DEF KeepsFirst

LEMMA SameMessagesKeep ==
  ASSUME SameMessages
  PROVE  \A r \in Peers : KeepsAnswers(r) /\ KeepsFirst(r)
<1>1. \A r \in Peers : Line(Other(r))' = Line(Other(r)) /\ Answered(r)' = Answered(r)
  BY TwoPeers DEF SameMessages
<1>2. QED
  BY <1>1, SameFirst DEF KeepsAnswers

LEMMA PairedSame ==
  ASSUME Paired, SameMessages, SameStreams, nextSid' = nextSid
  PROVE  Paired'
BY SameMessagesKeep, PairedKept DEF SameStreams

LEMMA SentKeeps ==
  ASSUME Basic, NEW p \in Peers, NEW t \in Threads, NEW op, Turn(p, t, op), NEW m, Sends(p, t, m)
  PROVE  \A r \in Peers : KeepsAnswers(r) /\ KeepsFirst(r)
<1>1. /\ Other(p) \in Peers /\ Other(Other(p)) = p /\ \A r \in Peers : r = p \/ r = Other(p)
      /\ WireType /\ m \in Letters
  BY TwoPeers DEF Basic, Types, Sends
<1>2. /\ Line(p)' = Append(Line(p), m) /\ Line(Other(p))' = Line(Other(p))
      /\ Answered(p)' = Answered(p) /\ Answered(Other(p))' = Answered(Other(p))
  BY SentRequests DEF Basic
<1>3. KeepsFirst(p) /\ KeepsFirst(Other(p))
  BY <1>1, <1>2, SameFirst, GrownFirst
<1>4. \A r \in Peers : Answered(r)' = Answered(r) /\ KeepsFirst(r)
  BY <1>1, <1>2, <1>3
<1>5. QED
  BY <1>4 DEF KeepsAnswers

LEMMA AnsweredKeeps ==
  ASSUME Basic, NEW p \in Peers, NEW a, Answers(p, a)
  PROVE  /\ \A r \in Peers : KeepsFirst(r)
         /\ KeepsAnswers(p) /\ Answered(Other(p))' = Answered(Other(p)) \cup {a}
         /\ Answered(p)' = Answered(p)
         /\ Line(p)' = Append(Line(p), a) /\ Line(p) \in Seq(Letters) /\ a \in Letters
         /\ Head(inq[p]) \in Asked(Other(p)) /\ a.op = Head(inq[p]).op /\ a.kind = "resp"
<1> DEFINE q == Other(p)
           h == Head(inq[p])
<1>1. /\ q \in Peers /\ Other(q) = p /\ \A r \in Peers : r = p \/ r = q
      /\ WireType /\ a \in Letters /\ h.kind = "req" /\ a.op = h.op /\ a.kind = "resp"
  BY TwoPeers DEF Basic, Types, Answers
<1>2. /\ Line(p)' = Append(Line(p), a) /\ Line(q)' = Tail(Line(q))
      /\ Line(q) # << >> /\ h = Head(Line(q)) /\ h \in Asked(q)
      /\ Answered(q)' = Answered(q) \cup {a} /\ Answered(p)' = Answered(p)
  BY AnsweredRequests DEF Basic
<1>3. KeepsFirst(q)
  BY <1>1, <1>2, GrownFirst
<1>4. KeepsFirst(p)
  <2>1. ~IsOpened(Head(Line(q)))
    BY <1>1, <1>2 DEF IsOpened
  <2>2. QED
    BY <1>1, <1>2, <2>1, ShrunkFirst
<1>5. KeepsAnswers(p)
  BY <1>2 DEF KeepsAnswers
<1>6. Line(p) \in Seq(Letters)
  BY <1>1, LineType
<1>7. QED
  BY <1>1, <1>2, <1>3, <1>4, <1>5, <1>6

LEMMA TakenKeeps ==
  ASSUME Basic, NEW p \in Peers, Takes(p)
  PROVE  LET h == Head(inq[p])
             l == Line(Other(p))
         IN
         /\ KeepsFirst(Other(p)) /\ KeepsAnswers(Other(p))
         /\ h \in Answered(p) /\ Answered(p) = Answered(p)' \cup {h}
         /\ l \in Seq(Letters) /\ l # << >> /\ h = Head(l) /\ l' = Tail(l) /\ h.kind = "resp"
         /\ h \in Letters
         /\ h.op # "OPEN" => KeepsFirst(p)
         /\ h.op \notin {"OPEN", "CLOSE"} => KeepsAnswers(p)
<1> DEFINE q == Other(p)
           h == Head(inq[p])
<1>1. /\ q \in Peers /\ Other(q) = p /\ WireType /\ h.kind = "resp" /\ h \in Letters
  BY TwoPeers DEF Basic, Types, Takes
<1>2. /\ Line(p)' = Line(p) /\ Line(q)' = Tail(Line(q))
      /\ Line(q) # << >> /\ h = Head(Line(q)) /\ h \in Answered(p)
      /\ Answered(p) = Answered(p)' \cup {h} /\ Answered(q)' = Answered(q)
  BY TakenRequests DEF Basic
<1>3. KeepsFirst(q) /\ KeepsAnswers(q)
  BY <1>1, <1>2, SameFirst DEF KeepsAnswers
<1>4. Line(q) \in Seq(Letters)
  BY <1>1, LineType
<1>5. ASSUME h.op # "OPEN" PROVE KeepsFirst(p)
  <2>1. ~IsOpened(Head(Line(q)))
    BY <1>2, <1>5 DEF IsOpened
  <2>2. QED
    BY <1>1, <1>2, <2>1, ShrunkFirst
<1>6. ASSUME h.op \notin {"OPEN", "CLOSE"} PROVE KeepsAnswers(p)
  BY <1>2, <1>6 DEF KeepsAnswers
<1>7. QED
  BY <1>1, <1>2, <1>3, <1>4, <1>5, <1>6

-----------------------------------------------------------------------------
(* Opening and closing exclude each other.                                   *)

LEMMA ExclusiveKept ==
  ASSUME Exclusive,
         \A r \in Peers, u \in Threads :
           /\ Opening(thr'[r][u]) => Opening(thr[r][u])
           /\ Ending(thr'[r][u]) => Ending(thr[r][u])
  PROVE  Exclusive'
BY DEF Exclusive, Opening, Ending

LEMMA ExclusiveServed ==
  ASSUME Basic, Exclusive, NEW p \in Peers, NEW t \in Threads, NEW op, Turn(p, t, op),
         Stops(p, t) \/ \E m : Sends(p, t, m)
  PROVE  Exclusive'
<1>1. /\ \A r \in Peers, u \in Threads : ~(r = p /\ u = t) => thr'[r][u] = thr[r][u]
      /\ thr'[p][t].pc # "idle" => thr'[p][t].op = op
  BY ServedRequests DEF Basic
<1>2. thr[p][t].op = op /\ thr[p][t].pc \in {"queued", "ready"}
  BY TurnTakes DEF Basic, Requesting
<1>3. QED
  BY <1>1, <1>2, ExclusiveKept DEF Opening, Ending, Asking

LEMMA ExclusiveWoken ==
  ASSUME Exclusive, Wakes
  PROVE  Exclusive'
BY ExclusiveKept DEF Wakes, Opening, Ending, Asking

LEMMA ExclusiveTaken ==
  ASSUME Basic, Exclusive, NEW p \in Peers, Takes(p)
  PROVE  Exclusive'
<1> DEFINE h == Head(inq[p])
<1>1. PICK x \in Requesters :
        /\ thr' = [thr EXCEPT ![p][h.t] = x]
        /\ x.pc = "idle" \/ (x.pc = "lookup" /\ h.op = "OPEN")
  BY DEF Takes
<1>2. ~Opening(x) /\ ~Ending(x)
  BY <1>1 DEF Requesters, Asking, Opening, Ending
<1> HIDE DEF h
<1>3. \A r \in Peers, u \in Threads : thr'[r][u] = x \/ thr'[r][u] = thr[r][u]
  BY <1>1 DEF Basic, Types, ThreadsType
<1>4. QED
  BY <1>2, <1>3, ExclusiveKept

\* What a call begins, when the applications agree.
LEMMA CallExcludes ==
  ASSUME Basic, Agreeing, NEW p \in Peers, NEW t \in Threads, Application(p, t)
  PROVE  \E x : /\ thr' = [thr EXCEPT ![p][t] = x]
                /\ Opening(x) => \A r \in Peers : ~Busy(r, {"CLOSE"})
                /\ Ending(x) => \A r \in Peers : ~Busy(r, {"OPEN"})
<1>0. /\ "local" \in usage.careful /\ "peer" \in usage.careful
      /\ \A r \in Peers : r = p \/ r = Other(p)
  BY TwoPeers DEF Agreeing
<1>1. ASSUME NEW op, NEW size, Calls(p, t, op), Add(p, t, op, size)
      PROVE  \E x : /\ thr' = [thr EXCEPT ![p][t] = x]
                    /\ Opening(x) => \A r \in Peers : ~Busy(r, {"CLOSE"})
                    /\ Ending(x) => \A r \in Peers : ~Busy(r, {"OPEN"})
  <2> DEFINE x == [pc |-> "queued", op |-> op, size |-> size, id |-> known[p][t], block |-> FALSE]
  <2>1. thr' = [thr EXCEPT ![p][t] = x] /\ x.op = op
    BY <1>1 DEF Add
  <2> HIDE DEF x
  <2>2. Agreed(p, t, op)
    BY <1>1 DEF Calls
  <2>3. ASSUME op = "OPEN" PROVE \A r \in Peers : ~Busy(r, {"CLOSE"})
    BY <1>0, <2>2, <2>3 DEF Agreed
  <2>4. ASSUME op = "CLOSE" PROVE \A r \in Peers : ~Busy(r, {"OPEN"})
    BY <1>0, <2>2, <2>4 DEF Agreed, Busy
  <2>5. QED
    BY <2>1, <2>3, <2>4 DEF Opening, Ending
<1>2. ASSUME NEW pc \in {"idle", "lookup", "locking"}, NEW r,
             r.pc = pc, r.op = "OPEN", thr' = [thr EXCEPT ![p][t] = r]
      PROVE  \E x : /\ thr' = [thr EXCEPT ![p][t] = x]
                    /\ Opening(x) => \A s \in Peers : ~Busy(s, {"CLOSE"})
                    /\ Ending(x) => \A s \in Peers : ~Busy(s, {"OPEN"})
  BY <1>2 DEF Opening, Ending, Asking
<1>3. CASE \/ CallOpen(p, t) \/ CallWrite(p, t) \/ CallRead(p, t) \/ CallRelease(p, t)
           \/ CallClose(p, t)
  BY <1>1, <1>3 DEF CallOpen, CallWrite, CallRead, CallRelease, CallClose
<1>4. CASE CallLookup(p, t)
  <2> DEFINE r == [IdleThread EXCEPT !.pc = "lookup"]
  <2>1. r.pc = "lookup" /\ r.op = "OPEN"
    BY DEF IdleThread
  <2>2. thr' = [thr EXCEPT ![p][t] = r]
    BY <1>4 DEF CallLookup
  <2> HIDE DEF r
  <2>3. QED
    BY <1>2, <2>1, <2>2
<1>5. CASE Lookup(p, t) \/ LookupLock(p, t)
  <2> DEFINE r == [thr[p][t] EXCEPT !.pc = "locking"]
  <2>1. IdleThread.pc = "idle" /\ IdleThread.op = "OPEN"
    BY DEF IdleThread
  <2>2. CASE thr' = [thr EXCEPT ![p][t] = IdleThread]
    BY <1>2, <2>1, <2>2
  <2>3. CASE Lookup(p, t) /\ thr' = [thr EXCEPT ![p][t].pc = "locking"]
    <3>1. thr \in [Peers -> [Threads -> Requesters]] /\ thr[p][t].pc = "lookup"
      BY <2>3 DEF Basic, Types, ThreadsType, Lookup
    <3>2. r.pc = "locking" /\ r.op = "OPEN"
      BY <3>1 DEF Requesters, Asking
    <3>3. thr' = [thr EXCEPT ![p][t] = r]
      BY <2>3, <3>1
    <3> HIDE DEF r
    <3>4. QED
      BY <1>2, <3>2, <3>3
  <2>4. QED
    BY <1>5, <2>2, <2>3 DEF Lookup, LookupLock
<1>6. QED
  BY <1>3, <1>4, <1>5 DEF Application

LEMMA ExclusiveBegun ==
  ASSUME Basic, Agreeing, Exclusive, NEW p \in Peers, NEW t \in Threads, Application(p, t)
  PROVE  Exclusive'
<1>1. PICK x : /\ thr' = [thr EXCEPT ![p][t] = x]
               /\ Opening(x) => \A r \in Peers : ~Busy(r, {"CLOSE"})
               /\ Ending(x) => \A r \in Peers : ~Busy(r, {"OPEN"})
  BY CallExcludes
<1>2. \A r \in Peers, u \in Threads : thr'[r][u] = IF r = p /\ u = t THEN x ELSE thr[r][u]
  BY <1>1 DEF Basic, Types, ThreadsType
<1>3. \A r \in Peers, u \in Threads :
        /\ Opening(x) => ~Ending(thr[r][u])
        /\ Ending(x) => ~Opening(thr[r][u])
  BY <1>1 DEF Busy, Opening, Ending, Asking
<1>4. Opening(x) => ~Ending(x)
  BY DEF Opening, Ending
<1>5. QED
  BY <1>2, <1>3, <1>4 DEF Exclusive, Opening, Ending

\* Requests and answers under way are of one kind only.
LEMMA OneKind ==
  ASSUME Basic, Exclusive, NEW p \in Peers, NEW m \in Asked(p) \cup Answered(p), m.op = "OPEN",
         NEW q \in Peers, NEW n \in Asked(q) \cup Answered(q)
  PROVE  n.op # "CLOSE"
<1>1. m \in Letters /\ n \in Letters
  BY MsgsType DEF Basic, Types
<1>2. m.t \in Threads /\ n.t \in Threads
  BY <1>1 DEF Letters, Messages
<1>3. /\ thr[p][m.t].pc = "pending" /\ thr[p][m.t].op = "OPEN"
      /\ thr[q][n.t].pc = "pending" /\ thr[q][n.t].op = n.op
  BY DEF Basic, Requesting, Corresponding, Matched, WaitsFor
<1>4. QED
  BY <1>2, <1>3 DEF Exclusive, Opening, Ending, Asking

-----------------------------------------------------------------------------
(* While an open or a close is under way.                                    *)

\* An end that has no id is open in no direction.
LEMMA Nameless ==
  ASSUME Basic, NEW p \in Peers
  PROVE  /\ stream[p].id = None => stream[p].ws = 0 /\ stream[p].rs = 0 /\ stream[p].sem = 0
         /\ nextSid[p] \in Nat /\ nextSid[p] # None
BY StreamAssumption DEF Basic, Types, StreamsType

LEMMA NoCloses ==
  ASSUME Basic, Paired, \A r \in Peers : \A m \in Answered(r) : m.op # "CLOSE", NEW p \in Peers
  PROVE  (Alike(p) \/ Promised(p)) /\ ~Behind(p)
<1>1. Directed(p) /\ ~Revoked(p)
  BY DEF Paired, Pairs, Revoked
<1>2. ASSUME Behind(p) PROVE FALSE
  <2>1. stream[Other(p)].rs = 0 /\ stream[p].ws # 0
    BY <1>2, Nameless, TwoPeers DEF Behind
  <2>2. QED
    BY <1>1, <2>1 DEF Directed, Alike, Promised
<1>3. QED
  BY <1>1, <1>2 DEF Directed

LEMMA NoOpens ==
  ASSUME Basic, Paired, \A r \in Peers : \A m \in Answered(r) : m.op # "OPEN", NEW p \in Peers
  PROVE  (Alike(p) \/ Revoked(p)) /\ ~Ahead(p)
<1>1. Directed(p) /\ ~Promised(p)
  BY FirstAnswered DEF Paired, Pairs
<1>2. ASSUME Ahead(p) PROVE FALSE
  <2>1. stream[p].ws = 0 /\ stream[Other(p)].rs # 0
    BY <1>2, Nameless DEF Ahead
  <2>2. QED
    BY <1>1, <2>1 DEF Directed, Alike, Revoked
<1>3. QED
  BY <1>1, <1>2 DEF Directed

\* An open asks the reading end p.
LEMMA PairedAnsweredOpen ==
  ASSUME Basic, Exclusive, Paired, NEW p \in Peers, NEW a, AnsweredOpen(p, a)
  PROVE  Paired'
<1> DEFINE q == Other(p)
           h == Head(inq[p])
<1>0. q \in Peers /\ q # p /\ Other(q) = p /\ \A r \in Peers : r = p \/ r = q
  BY TwoPeers
<1>1. /\ Answers(p, a) /\ a.op = "OPEN" /\ (stream'[p].sem = 1 => a.id = stream'[p].id)
      /\ stream'[q] = stream[q]
      /\ Created(p, 0, a.size) \/ Kept(p, 0, a.size) \/ Extended(p, 0, a.size)
      /\ Numbered(p, None)
  BY <1>0 DEF AnsweredOpen
<1>2. /\ KeepsFirst(p) /\ KeepsFirst(q) /\ KeepsAnswers(p)
      /\ Answered(q)' = Answered(q) \cup {a} /\ Answered(p)' = Answered(p)
      /\ Line(p)' = Append(Line(p), a) /\ Line(p) \in Seq(Letters) /\ a \in Letters
      /\ h \in Asked(q) /\ h.op = "OPEN" /\ a.kind = "resp"
  BY <1>0, <1>1, AnsweredKeeps
<1>3. a.size # 0 /\ a.size \in Nat
  BY <1>1, <1>2 DEF Letters, Messages
<1>4. \A r \in Peers : \A m \in Answered(r) : m.op # "CLOSE"
  BY <1>0, <1>2, OneKind
<1> HIDE DEF q, h
<1>5. \A r \in Peers : (Alike(r) \/ Promised(r)) /\ ~Behind(r)
  BY <1>4, NoCloses
<1>6. /\ stream[p].id = None => stream[p].ws = 0 /\ stream[p].rs = 0
      /\ stream[q].id = None => stream[q].ws = 0 /\ stream[q].rs = 0
      /\ nextSid[p] \in Nat /\ nextSid[p] # None /\ nextSid[q] \in Nat /\ nextSid[q] # None
      /\ nextSid \in [Peers -> Nat]
  BY <1>0, Nameless DEF Basic, Types, StreamsType
<1>7. /\ stream'[p].ws = stream[p].ws /\ stream'[p].rs # 0
      /\ stream'[p].rs = stream[p].rs \/ (stream[p].rs = 0 /\ stream'[p].rs = a.size /\ stream'[p].sem = 1)
      /\ stream'[p].id # None
      /\ stream[p].id # None => stream'[p].id = stream[p].id
  <2>1. CASE Created(p, 0, a.size)
    BY <1>3, <1>6, <2>1 DEF Created
  <2>2. CASE Kept(p, 0, a.size)
    <3>1. stream[p].ws \in Nat
      BY DEF Basic, Types, StreamsType
    <3>2. QED
      BY <2>2, <3>1 DEF Kept
  <2>3. CASE Extended(p, 0, a.size)
    BY <1>3, <2>3 DEF Extended
  <2>4. QED
    BY <1>1, <2>1, <2>2, <2>3
<1>8. Directed(p)'
  <2>1. Directed(p)
    BY DEF Paired, Pairs
  <2>2. Alike(p) => Alike(p)'
    BY <1>0, <1>1, <1>7 DEF Alike, q
  <2>3. Promised(p) => Promised(p)'
    BY <1>1, <1>2, <1>7, PromisedNext DEF Promised, KeepsFirst, q
  <2>4. /\ \A m \in Answered(p)' : m.op = "OPEN" => stream'[Other(p)].rs # 0
        /\ \A m \in Answered(p)' : m.op = "CLOSE" =>
             stream'[p].ws = 0 \/ stream'[Other(p)].rs = 0
    BY <1>1, <1>2, <1>4, <2>1 DEF Directed, q
  <2>5. QED
    BY <1>5, <2>2, <2>3, <2>4 DEF Directed
<1>9. Directed(q)'
  <2>1. Directed(q)
    BY <1>0 DEF Paired, Pairs
  <2>2. CASE stream'[p].rs = stream[p].rs
    <3>1. Alike(q) => Alike(q)'
      BY <1>0, <1>1, <2>2 DEF Alike
    <3>2. Promised(q) => Promised(q)'
      <4>1. stream[p].rs # 0 => stream'[p].id = stream[p].id
        BY <1>6, <1>7
      <4>2. QED
        BY <1>0, <1>1, <1>2, <2>2, <4>1, PromisedNext DEF Promised, KeepsFirst
    <3>3. QED
      BY <1>0, <1>1, <1>2, <1>4, <1>5, <1>7, <3>1, <3>2 DEF Directed
  <2>3. CASE stream[p].rs = 0 /\ stream'[p].rs = a.size /\ stream'[p].sem = 1
    <3>1. \A n \in Msgs(Line(p), "resp") : n.op # "OPEN"
      BY <1>0, <2>1, <2>3 DEF Directed, Answered
    <3>2. First(Line(p)', a.size, a.id)
      BY <1>1, <1>2, <3>1, FirstNew DEF IsOpened
    <3>3. stream[q].ws = 0
      BY <1>0, <1>5, <2>3 DEF Alike, Promised
    <3>4. Promised(q)'
      BY <1>0, <1>1, <1>7, <2>3, <3>2, <3>3, PromisedNext
    <3>5. QED
      BY <1>0, <1>1, <1>2, <1>4, <1>7, <3>4 DEF Directed
  <2>4. QED
    BY <1>7, <2>2, <2>3
<1>10. Freed(p)' /\ Freed(q)'
  BY <1>0, <1>1, <1>7 DEF Paired, Pairs, Freed
<1>11. Aligned(p)' \/ Ahead(q)'
  <2>1. Named(p)
    BY DEF Paired, Pairs
  <2>2. CASE stream[p].id = None
    <3>1. stream'[p].id = nextSid[p] /\ nextSid'[p] = nextSid[p] + 1 /\ nextSid'[q] = nextSid[q]
      BY <1>0, <1>1, <1>6, <2>2 DEF Numbered
    <3>2. CASE Aligned(p)
      BY <1>0, <1>1, <1>7, <2>2, <3>1, <3>2 DEF Aligned, Ahead, q
    <3>3. CASE Ahead(p)
      BY <1>0, <1>1, <3>1, <3>3 DEF Aligned, Ahead, q
    <3>4. ~Ahead(q)
      BY <1>0, <1>6, <2>2 DEF Ahead
    <3>5. QED
      BY <1>0, <1>5, <2>1, <3>2, <3>3, <3>4 DEF Named, q
  <2>3. CASE stream[p].id # None
    <3>1. nextSid' = nextSid /\ stream'[p].id = stream[p].id
      BY <1>1, <1>7, <2>3 DEF Numbered
    <3>2. Aligned(p) \/ Ahead(q)
      BY <1>0, <1>5, <2>1, <2>3 DEF Named, Ahead, q
    <3>3. QED
      BY <1>0, <1>1, <1>7, <3>1, <3>2 DEF Aligned, Ahead, q
  <2>4. QED
    BY <2>2, <2>3
<1>12. Named(p)' /\ Named(q)'
  BY <1>0, <1>11 DEF Named, Aligned, q
<1>13. QED
  BY <1>0, <1>8, <1>9, <1>10, <1>12 DEF Paired, Pairs

\* The writing end p gets the answer to its open.
LEMMA PairedTakenOpen ==
  ASSUME Basic, Exclusive, Paired, NEW p \in Peers, TakenOpen(p)
  PROVE  Paired'
<1> DEFINE q == Other(p)
           h == Head(inq[p])
           l == Line(q)
<1>0. q \in Peers /\ q # p /\ Other(q) = p /\ \A r \in Peers : r = p \/ r = q
  BY TwoPeers
<1>1. /\ Takes(p) /\ h.op = "OPEN" /\ stream'[q] = stream[q]
      /\ Created(p, h.size, 0) \/ Kept(p, h.size, 0) \/ Extended(p, h.size, 0)
      /\ Numbered(p, h.id)
  BY <1>0 DEF TakenOpen
<1>2. /\ KeepsFirst(q) /\ KeepsAnswers(q)
      /\ h \in Answered(p) /\ Answered(p) = Answered(p)' \cup {h}
      /\ l \in Seq(Letters) /\ l # << >> /\ h = Head(l) /\ IsOpened(Head(l))
      /\ h \in Letters
  BY <1>1, TakenKeeps DEF IsOpened
<1>3. \A r \in Peers : \A m \in Answered(r) : m.op # "CLOSE"
  BY <1>0, <1>1, <1>2, OneKind
<1> HIDE DEF q, h, l
<1>4. h.size # 0 /\ h.size \in Nat
  BY <1>1, <1>2 DEF Letters, Messages
<1>5. \A r \in Peers : (Alike(r) \/ Promised(r)) /\ ~Behind(r)
  BY <1>3, NoCloses
<1>6. /\ stream[p].id = None => stream[p].ws = 0 /\ stream[p].rs = 0
      /\ stream[q].id = None => stream[q].ws = 0 /\ stream[q].rs = 0
      /\ nextSid[p] \in Nat /\ nextSid[p] # None /\ nextSid[q] \in Nat /\ nextSid[q] # None
      /\ nextSid \in [Peers -> Nat]
  BY <1>0, Nameless DEF Basic, Types, StreamsType
<1>7. stream[q].rs # 0
  BY <1>1, <1>2 DEF Paired, Pairs, Directed, q
<1>8. stream[p].ws = 0 => h.size = stream[q].rs /\ h.id = stream[q].id
  <2>1. ASSUME stream[p].ws = 0 PROVE First(l, stream[q].rs, stream[q].id)
    BY <1>5, <1>7, <2>1 DEF Alike, Promised, q, l
  <2>2. QED
    BY <1>2, <2>1, FirstTail
<1>9. /\ stream'[p].rs = stream[p].rs /\ stream'[p].id # None
      /\ stream'[p].ws = stream[q].rs
      /\ stream[p].id # None => stream'[p].id = stream[p].id
  <2>1. stream[p].ws # 0 => stream[p].ws = stream[q].rs
    BY <1>5 DEF Alike, Promised, q
  <2>2. CASE Created(p, h.size, 0)
    BY <1>6, <1>8, <2>2 DEF Created
  <2>3. CASE Kept(p, h.size, 0)
    <3>1. stream[p].rs \in Nat
      BY DEF Basic, Types, StreamsType
    <3>2. QED
      BY <2>1, <2>3, <3>1 DEF Kept
  <2>4. CASE Extended(p, h.size, 0)
    BY <1>8, <2>1, <2>4 DEF Extended
  <2>5. QED
    BY <1>1, <2>2, <2>3, <2>4
<1>10. Directed(p)'
  <2>1. Alike(p)'
    BY <1>1, <1>9 DEF Alike, q
  <2>2. /\ \A m \in Answered(p)' : m.op = "OPEN" => stream'[q].rs # 0
        /\ \A m \in Answered(p)' : m.op = "CLOSE" => stream'[p].ws = 0 \/ stream'[q].rs = 0
    BY <1>1, <1>2, <1>3, <1>7
  <2>3. QED
    BY <2>1, <2>2 DEF Directed, q
<1>11. Directed(q)'
  <2>1. Alike(q) => Alike(q)'
    BY <1>0, <1>1, <1>9 DEF Alike
  <2>2. Promised(q) => Promised(q)'
    <3>1. stream[p].rs # 0 => stream'[p].id = stream[p].id
      BY <1>6, <1>9
    <3>2. QED
      BY <1>0, <1>1, <1>2, <1>9, <3>1, PromisedNext DEF Promised, KeepsFirst
  <2>3. /\ \A m \in Answered(q)' : m.op = "OPEN" => stream'[p].rs # 0
        /\ \A m \in Answered(q)' : m.op = "CLOSE" => stream'[q].ws = 0 \/ stream'[p].rs = 0
    BY <1>0, <1>2, <1>3, <1>9 DEF Paired, Pairs, Directed, KeepsAnswers
  <2>4. QED
    BY <1>0, <1>5, <2>1, <2>2, <2>3 DEF Directed
<1>12. Freed(p)' /\ Freed(q)'
  <2>1. stream'[p].ws # 0
    BY <1>7, <1>9
  <2>2. QED
    BY <1>0, <1>1, <2>1 DEF Paired, Pairs, Freed
<1>13. Aligned(p)'
  <2>1. Named(p)
    BY DEF Paired, Pairs
  <2>2. stream[q].id # None
    BY <1>6, <1>7
  <2>3. ~Ahead(q) /\ ~Behind(p) /\ ~Behind(q)
    BY <1>0, <1>5, <2>2 DEF Ahead
  <2>4. CASE stream[p].id = None
    <3>1. ~Aligned(p)
      BY <2>2, <2>4 DEF Aligned, q
    <3>2. Ahead(p)
      BY <2>1, <2>3, <3>1 DEF Named, q
    <3>3. h.id = stream[q].id
      BY <1>6, <1>8, <2>4
    <3>4. stream'[p].id = h.id /\ nextSid'[p] = nextSid[p] + 1 /\ nextSid'[q] = nextSid[q]
      BY <1>0, <1>1, <1>6, <2>2, <2>4, <3>3 DEF Numbered
    <3>5. QED
      BY <1>1, <3>2, <3>3, <3>4 DEF Ahead, Aligned, q
  <2>5. CASE stream[p].id # None
    <3>1. Aligned(p)
      BY <2>1, <2>3, <2>5 DEF Named, Ahead, q
    <3>2. QED
      BY <1>1, <1>9, <2>5, <3>1 DEF Aligned, Numbered, q
  <2>6. QED
    BY <2>4, <2>5
<1>14. Named(p)' /\ Named(q)'
  BY <1>0, <1>13 DEF Named, Aligned, q
<1>15. QED
  BY <1>0, <1>10, <1>11, <1>12, <1>14 DEF Paired, Pairs

\* What was sent has been released when its writer closes.
LEMMA Drained ==
  ASSUME Basic, Flow, fault = "none", NEW p \in Peers, stream[p].rfill = 0
  PROVE  stream[Other(p)].lfill = 0
<1> DEFINE q == Other(p)
<1>1. /\ stream[q].lfill = Total(avail[q]) + Total(held[q])
      /\ Total(avail[q]) \in Nat /\ Total(held[q]) \in Nat
      /\ Total(OnWay(p)) \in Nat /\ Total(Back(p)) \in Nat
      /\ stream[p].rfill = stream[q].lfill + Total(OnWay(p)) + Total(Back(p))
  BY Direction DEF Basic, Flow
<1>2. PICK i \in Nat, j \in Nat, m \in Nat, n \in Nat :
        i = Total(avail[q]) /\ j = Total(held[q]) /\ m = Total(OnWay(p)) /\ n = Total(Back(p))
  BY <1>1
<1>3. stream[q].lfill = i + j /\ 0 = stream[q].lfill + m + n
  BY <1>1, <1>2
<1>4. QED
  BY <1>3

\* A close asks the reading end p.
LEMMA PairedAnsweredClose ==
  ASSUME Basic, Exclusive, Paired, Flow, fault = "none", NEW p \in Peers, NEW a,
         AnsweredClose(p, a)
  PROVE  Paired'
<1> DEFINE q == Other(p)
           h == Head(inq[p])
<1>0. q \in Peers /\ q # p /\ Other(q) = p /\ \A r \in Peers : r = p \/ r = q
  BY TwoPeers
<1>1. /\ Answers(p, a) /\ a.op = "CLOSE" /\ a.id = h.id /\ nextSid' = nextSid
      /\ stream'[q] = stream[q]
      /\ \/ /\ NotFound(p, a.id) \/ stream[p].lfill # 0
            /\ Levels(p, stream[p].rfill, stream[p].rpkts, stream[p].lfill)
         \/ ClosedIn(p)
  BY <1>0 DEF AnsweredClose
<1>2. /\ KeepsFirst(p) /\ KeepsFirst(q) /\ KeepsAnswers(p)
      /\ Answered(q)' = Answered(q) \cup {a} /\ Answered(p)' = Answered(p)
      /\ h \in Asked(q) /\ h.op = "CLOSE"
  BY <1>0, <1>1, AnsweredKeeps
<1>3. \A r \in Peers : \A m \in Answered(r) : m.op # "OPEN"
  BY <1>0, <1>2, OneKind
<1> HIDE DEF q, h
<1>4. \A r \in Peers : (Alike(r) \/ Revoked(r)) /\ ~Ahead(r)
  BY <1>3, NoOpens
<1>5. /\ stream[p].id = None => stream[p].ws = 0 /\ stream[p].rs = 0 /\ stream[p].sem = 0
      /\ stream[q].id = None => stream[q].ws = 0 /\ stream[q].rs = 0
  BY <1>0, Nameless
<1>6. /\ stream[q].id = a.id \/ stream[q].ws = 0
      /\ stream[p].lfill = 0
  <2>1. stream[q].rfill = 0 /\ (stream[q].id = a.id \/ stream[q].ws = 0)
    BY <1>0, <1>1, <1>2 DEF Flow, Closing
  <2>2. QED
    BY <1>0, <2>1, Drained
<1>7. Aligned(p) \/ Behind(p) \/ Behind(q)
  BY <1>0, <1>4 DEF Paired, Pairs, Named, q
<1>8. CASE NotFound(p, a.id) /\ SameEnds(p)
  <2>1. stream[q].ws = 0 \/ stream[p].rs = 0
    <3> SUFFICES ASSUME stream[q].ws # 0, stream[p].rs # 0 PROVE FALSE
      OBVIOUS
    <3>1. stream[p].id # None /\ stream[q].id # None /\ stream[p].id # stream[q].id
      BY <1>5, <1>6, <1>8 DEF NotFound
    <3>2. QED
      BY <1>0, <1>7, <3>1 DEF Aligned, Behind, q
  <2>2. SameEnds(q)
    BY <1>1 DEF SameEnds
  <2>3. Directed(p)' /\ Named(p)' /\ Named(q)'
    BY <1>0, <1>1, <1>2, <1>8, <2>2, DirectedKept, NamedKept DEF Paired, Pairs, q
  <2>4. Directed(q)'
    <3>1. Alike(q) => Alike(q)'
      BY <1>0, <1>8, <2>2 DEF Alike, SameEnds
    <3>2. Revoked(q) => Revoked(q)'
      BY <1>0, <1>2, <1>8, <2>2 DEF Revoked, SameEnds
    <3>3. \A m \in Answered(q)' : m.op # "OPEN"
      BY <1>0, <1>1, <1>2, <1>3
    <3>4. stream'[q].ws = 0 \/ stream'[p].rs = 0
      BY <1>8, <2>1, <2>2 DEF SameEnds
    <3>5. QED
      BY <1>0, <1>4, <3>1, <3>2, <3>3, <3>4 DEF Directed
  <2>5. Freed(p)' /\ Freed(q)'
    BY <1>0, <1>8, <2>2 DEF Paired, Pairs, Freed, SameEnds
  <2>6. QED
    BY <1>0, <2>3, <2>4, <2>5 DEF Paired, Pairs
<1>9. CASE ClosedIn(p)
  <2>1. /\ stream'[p].rs = 0 /\ stream'[p].ws = stream[p].ws /\ stream[p].id # None
        /\ stream[p].ws = 0 => stream'[p].id = None
        /\ stream[p].ws # 0 => stream'[p].id = stream[p].id
    BY <1>5, <1>9 DEF ClosedIn
  <2>2. Directed(p)'
    <3>1. Alike(p) => Alike(p)'
      BY <1>1, <2>1 DEF Alike, q
    <3>2. Revoked(p) => Revoked(p)'
      BY <1>1, <1>2, <2>1 DEF Revoked, q
    <3>3. /\ \A m \in Answered(p)' : m.op = "OPEN" => stream'[q].rs # 0
          /\ \A m \in Answered(p)' : m.op = "CLOSE" => stream'[p].ws = 0 \/ stream'[q].rs = 0
      BY <1>1, <1>2, <2>1 DEF Paired, Pairs, Directed, q
    <3>4. QED
      BY <1>4, <3>1, <3>2, <3>3 DEF Directed, q
  <2>3. Directed(q)'
    <3>3. Alike(q)' \/ Revoked(q)'
      <4>1. CASE stream[q].ws = 0
        BY <1>0, <1>1, <2>1, <4>1 DEF Alike
      <4>2. CASE stream[q].ws # 0
        <5>1. a \in Answered(q)' /\ a.op = "CLOSE" /\ a.id = stream'[q].id
          BY <1>1, <1>2, <1>6, <4>2
        <5>2. QED
          BY <1>0, <1>1, <2>1, <4>2, <5>1 DEF Revoked
      <4>3. QED
        BY <4>1, <4>2
    <3>4. /\ \A m \in Answered(q)' : m.op # "OPEN"
      BY <1>0, <1>1, <1>2, <1>3
    <3>5. QED
      BY <1>0, <2>1, <3>3, <3>4 DEF Directed
  <2>4. Freed(p)' /\ Freed(q)'
    BY <1>0, <1>1, <2>1 DEF Paired, Pairs, Freed
  <2>5. Aligned(p)' \/ Behind(p)' \/ Behind(q)'
    <3>1. CASE stream[p].ws # 0
      BY <1>0, <1>1, <1>7, <2>1, <3>1 DEF Aligned, Behind, q
    <3>2. CASE stream[p].ws = 0
      <4>1. stream[q].rs = 0
        BY <1>4, <3>2 DEF Alike, Revoked, q
      <4>2. stream[q].id = stream[p].id /\ nextSid[p] = nextSid[q]
        BY <1>0, <1>7, <2>1, <3>2 DEF Aligned, Behind, q
      <4>3. stream[q].ws # 0
        BY <1>0, <2>1, <4>1, <4>2 DEF Paired, Pairs, Freed
      <4>4. QED
        BY <1>0, <1>1, <2>1, <3>2, <4>2, <4>3 DEF Behind
    <3>3. QED
      BY <3>1, <3>2
  <2>6. Named(p)' /\ Named(q)'
    BY <1>0, <2>5 DEF Named, Aligned, q
  <2>7. QED
    BY <1>0, <2>2, <2>3, <2>4, <2>6 DEF Paired, Pairs
<1>10. QED
  BY <1>1, <1>6, <1>8, <1>9 DEF Levels

\* The writing end p gets the answer to its close.
LEMMA PairedTakenClose ==
  ASSUME Basic, Exclusive, Paired, Flow, NEW p \in Peers, TakenClose(p)
  PROVE  Paired'
<1> DEFINE q == Other(p)
           h == Head(inq[p])
<1>0. q \in Peers /\ q # p /\ Other(q) = p /\ \A r \in Peers : r = p \/ r = q
  BY TwoPeers
<1>1. /\ Takes(p) /\ h.op = "CLOSE" /\ nextSid' = nextSid /\ stream'[q] = stream[q]
      /\ \/ NotFound(p, h.id) /\ Levels(p, stream[p].rfill, stream[p].rpkts, stream[p].lfill)
         \/ ClosedOut(p, h.id)
  BY <1>0 DEF TakenClose
<1>2. /\ KeepsFirst(q) /\ KeepsAnswers(q) /\ KeepsFirst(p)
      /\ h \in Answered(p) /\ Answered(p) = Answered(p)' \cup {h}
  BY <1>1, TakenKeeps
<1>3. \A r \in Peers : \A m \in Answered(r) : m.op # "OPEN"
  BY <1>0, <1>1, <1>2, OneKind
<1> HIDE DEF q, h
<1>4. \A r \in Peers : (Alike(r) \/ Revoked(r)) /\ ~Ahead(r)
  BY <1>3, NoOpens
<1>5. /\ stream[p].id = None => stream[p].ws = 0 /\ stream[p].rs = 0 /\ stream[p].sem = 0
      /\ stream[q].id = None => stream[q].ws = 0 /\ stream[q].rs = 0
  BY <1>0, Nameless
<1>6. stream[p].ws = 0 \/ stream[q].rs = 0
  BY <1>1, <1>2 DEF Paired, Pairs, Directed, q
<1>7. Aligned(p) \/ Behind(p) \/ Behind(q)
  BY <1>0, <1>4 DEF Paired, Pairs, Named, q
<1>8. /\ \A m \in Answered(p)' : m.op # "OPEN" /\ m \in Answered(p)
      /\ \A m \in Answered(q)' : m.op # "OPEN"
  BY <1>0, <1>2, <1>3 DEF KeepsAnswers
<1>9. CASE NotFound(p, h.id) /\ SameEnds(p)
  <2>1. SameEnds(q)
    BY <1>1 DEF SameEnds
  <2>2. Directed(q)' /\ Named(p)' /\ Named(q)'
    BY <1>0, <1>1, <1>2, <1>9, <2>1, DirectedKept, NamedKept DEF Paired, Pairs, q
  <2>3. Directed(p)'
    <3>1. Alike(p) => Alike(p)'
      BY <1>9, <2>1 DEF Alike, SameEnds, q
    <3>2. Revoked(p) => Revoked(p)'
      <4> SUFFICES ASSUME Revoked(p) PROVE Revoked(p)'
        OBVIOUS
      <4>1. PICK m \in Answered(p) : m.op = "CLOSE" /\ m.id = stream[p].id
        BY DEF Revoked
      <4>2. m # h
        BY <1>5, <1>9, <4>1 DEF Revoked, NotFound
      <4>3. QED
        BY <1>2, <1>9, <2>1, <4>1, <4>2 DEF Revoked, SameEnds, q
    <3>3. \A m \in Answered(p)' : m.op = "CLOSE" => stream'[p].ws = 0 \/ stream'[q].rs = 0
      BY <1>6, <1>9, <2>1 DEF SameEnds
    <3>4. QED
      BY <1>4, <1>8, <3>1, <3>2, <3>3 DEF Directed, q
  <2>4. Freed(p)' /\ Freed(q)'
    BY <1>0, <1>9, <2>1 DEF Paired, Pairs, Freed, SameEnds
  <2>5. QED
    BY <1>0, <2>2, <2>3, <2>4 DEF Paired, Pairs
<1>10. CASE ClosedOut(p, h.id)
  <2>1. /\ stream'[p].ws = 0 /\ stream'[p].rs = stream[p].rs /\ stream[p].id # None
        /\ stream[p].rs = 0 => stream'[p].id = None
        /\ stream[p].rs # 0 => stream'[p].id = stream[p].id
    BY <1>5, <1>10 DEF ClosedOut
  <2>2. stream[q].rs = 0
    BY <1>4, <1>6 DEF Alike, Revoked, q
  <2>3. Directed(p)'
    BY <1>1, <1>8, <2>1, <2>2 DEF Directed, Alike, q
  <2>4. Directed(q)'
    <3>1. Alike(q) => Alike(q)'
      BY <1>0, <1>1, <2>1 DEF Alike
    <3>2. Revoked(q) => Revoked(q)'
      BY <1>0, <1>1, <1>2, <2>1 DEF Revoked, KeepsAnswers
    <3>3. \A m \in Answered(q)' : m.op = "CLOSE" => stream'[q].ws = 0 \/ stream'[p].rs = 0
      BY <1>0, <1>1, <1>2, <2>1 DEF Paired, Pairs, Directed, KeepsAnswers
    <3>4. QED
      BY <1>0, <1>4, <1>8, <3>1, <3>2, <3>3 DEF Directed
  <2>5. Freed(p)' /\ Freed(q)'
    BY <1>0, <1>1, <2>1 DEF Paired, Pairs, Freed
  <2>6. Aligned(p)' \/ Behind(q)'
    <3>1. ~Behind(q)
      BY <1>0, <2>1 DEF Behind
    <3>2. CASE stream[p].rs # 0
      <4>1. stream[q].ws = stream[p].rs
        BY <1>0, <1>4, <3>2 DEF Alike, Revoked
      <4>2. Aligned(p)
        BY <1>5, <1>7, <3>1, <3>2, <4>1 DEF Behind, q
      <4>3. QED
        BY <1>1, <2>1, <3>2, <4>2 DEF Aligned, q
    <3>3. CASE stream[p].rs = 0
      <4>1. CASE Aligned(p)
        <5>1. stream[q].id # None /\ nextSid[p] = nextSid[q] /\ stream[q].ws # 0
          BY <1>0, <2>1, <2>2, <4>1 DEF Aligned, Paired, Pairs, Freed, q
        <5>2. QED
          BY <1>0, <1>1, <2>1, <3>3, <5>1 DEF Behind
      <4>2. CASE Behind(p)
        BY <1>1, <2>1, <3>3, <4>2 DEF Behind, Aligned, q
      <4>3. QED
        BY <1>7, <3>1, <4>1, <4>2
    <3>4. QED
      BY <3>2, <3>3
  <2>7. Named(p)' /\ Named(q)'
    BY <1>0, <2>6 DEF Named, Aligned, q
  <2>8. QED
    BY <1>0, <2>3, <2>4, <2>5, <2>7 DEF Paired, Pairs
<1>11. QED
  BY <1>1, <1>9, <1>10 DEF Levels

\* A release of the peer that finds no stream is taken off the line.
LEMMA PairedNotFound ==
  ASSUME Basic, Paired, NEW p \in Peers, RemoteReleaseNotFound(p)
  PROVE  Paired'
<1> DEFINE q == Other(p)
           h == Head(inq[p])
<1>0. q \in Peers /\ Other(q) = p /\ \A r \in Peers : r = p \/ r = q
  BY TwoPeers
<1>1. Types /\ Requesting /\ WireType
  BY DEF Basic, Types
<1>2. /\ Incoming(p, "req", "REL") /\ UNCHANGED <<stream, nextSid, wire>>
      /\ \A r \in Peers : Answered(r)' = Answered(r)
  BY <1>1, PeerNotFoundRequests DEF RemoteReleaseNotFound
<1>3. inq[p] # << >> /\ inq' = [inq EXCEPT ![p] = Tail(@)] /\ h.kind = "req"
  BY <1>1, <1>2, IncomingMessage
<1>4. wire'[p] = wire[p] /\ wire'[q] = wire[q]
  BY <1>2
<1>5. /\ Line(q) # << >> /\ h = Head(Line(q)) /\ Line(q)' = Tail(Line(q))
      /\ Line(p)' = Line(p)
  BY <1>1, <1>3, <1>4, LineTake
<1> HIDE DEF q, h
<1>6. KeepsFirst(q)
  BY <1>0, <1>5, SameFirst
<1>7. KeepsFirst(p)
  <2>1. ~IsOpened(Head(Line(q)))
    BY <1>3, <1>5 DEF IsOpened
  <2>2. QED
    BY <1>1, <1>5, <2>1, ShrunkFirst DEF q
<1>8. SameStreams /\ \A r \in Peers : KeepsAnswers(r)
  BY <1>2, UnchangedSame DEF KeepsAnswers
<1>9. \A r \in Peers : SameEnds(r) /\ KeepsAnswers(r) /\ KeepsFirst(r)
  BY <1>0, <1>6, <1>7, <1>8 DEF SameStreams
<1>10. QED
  BY <1>2, <1>9, PairedKept

-----------------------------------------------------------------------------
(* Every step.                                                               *)

LEMMA SameEndsAll ==
  ASSUME NEW p \in Peers, \A r \in Peers : r # p => stream'[r] = stream[r], SameEnds(p)
  PROVE  \A r \in Peers : SameEnds(r)
BY DEF SameEnds

\* Serving a request changes no end: it writes, releases or asks.
LEMMA LocalEnds ==
  ASSUME Types, NEW p \in Peers, NEW t \in Threads,
         \/ AsksOpen(p, t) \/ Writes(p, t) \/ Reads(p, t) \/ Releases(p, t)
         \/ Closes(p, t) \/ Waits(p, t)
  PROVE  nextSid' = nextSid /\ \A r \in Peers : SameEnds(r)
<1>1. CASE AsksOpen(p, t) \/ Closes(p, t) \/ Reads(p, t)
  <2>1. stream' = stream /\ nextSid' = nextSid
    BY <1>1 DEF AsksOpen, Closes, Reads, data
  <2>2. QED
    BY <2>1, UnchangedSame DEF SameStreams
<1>2. CASE Waits(p, t)
  <2>1. /\ nextSid' = nextSid /\ 0 \in Nat
        /\ stream' = stream \/ stream' = [stream EXCEPT ![p].closing = TRUE]
    BY <1>2 DEF Waits
  <2>2. /\ \A r \in Peers : r # p => stream'[r] = stream[r]
        /\ Levels(p, stream[p].rfill, stream[p].rpkts, stream[p].lfill)
    BY <2>1, LevelsChange DEF Types
  <2>3. QED
    BY <2>1, <2>2, SameEndsAll DEF Levels
<1>3. CASE Writes(p, t)
  <2> DEFINE m == Msg("req", "WRITE", thr[p][t].id, thr[p][t].size, t)
  <2>1. /\ nextSid' = nextSid /\ m.size \in Nat
        /\ stream' = [stream EXCEPT ![p].rfill = @ + m.size, ![p].rpkts = @ + 1]
    BY <1>3, StreamAssumption DEF Writes
  <2> HIDE DEF m
  <2>2. /\ \A r \in Peers : r # p => stream'[r] = stream[r]
        /\ Levels(p, stream[p].rfill + m.size, stream[p].rpkts + 1, stream[p].lfill)
    BY <2>1, LevelsChange DEF Types
  <2>3. QED
    BY <2>1, <2>2, SameEndsAll DEF Levels
<1>4. CASE Releases(p, t)
  <2> DEFINE n == Head(held[p])
  <2>1. /\ nextSid' = nextSid /\ n \in Nat
        /\ stream' = [stream EXCEPT ![p].lfill = @ - n]
    BY <1>4 DEF Releases, Types, PacketsType, Packets
  <2> HIDE DEF n
  <2>2. /\ \A r \in Peers : r # p => stream'[r] = stream[r]
        /\ Levels(p, stream[p].rfill, stream[p].rpkts, stream[p].lfill - n)
    BY <2>1, LevelsChange DEF Types
  <2>3. QED
    BY <2>1, <2>2, SameEndsAll DEF Levels
<1>5. QED
  BY <1>1, <1>2, <1>3, <1>4

LEMMA AgreeLocal ==
  ASSUME Basic, Exclusive, Paired, NEW p \in Peers, NEW t \in Threads, LocalRequest(p, t)
  PROVE  Exclusive' /\ Paired'
<1>0. Types /\ Requesting /\ Queued
  BY DEF Basic, Requesting
<1>1. CASE LocalNotFound(p, t)
  <2>1. SameMessages /\ thr' = thr /\ stream' = stream /\ nextSid' = nextSid
    BY <1>0, <1>1, NotFoundRequests DEF data
  <2>2. QED
    BY <2>1, UnchangedSame, PairedSame, ExclusiveKept
<1>2. ASSUME NEW op, Turn(p, t, op),
             \/ AsksOpen(p, t) \/ Writes(p, t) \/ Reads(p, t) \/ Releases(p, t)
             \/ Closes(p, t) \/ Waits(p, t)
      PROVE  Exclusive' /\ Paired'
  <2>1. nextSid' = nextSid /\ \A r \in Peers : SameEnds(r)
    BY <1>0, <1>2, LocalEnds
  <2>2. Stops(p, t) \/ \E m : Sends(p, t, m)
    BY <1>2 DEF AsksOpen, Writes, Reads, Releases, Closes, Waits
  <2>3. \A r \in Peers : KeepsAnswers(r) /\ KeepsFirst(r)
    BY <1>0, <1>2, <2>2, SentKeeps, StoppedRequests, SameMessagesKeep
  <2>4. QED
    BY <1>2, <2>1, <2>2, <2>3, ExclusiveServed, PairedKept
<1>3. QED
  BY <1>0, <1>1, <1>2, LocalEffects

LEMMA AgreeRemote ==
  ASSUME Basic, Flow, Exclusive, Paired, NEW p \in Peers, RemoteEvent(p)
  PROVE  Exclusive' /\ Paired'
<1>0. /\ Types /\ Requesting
      /\ Other(p) \in Peers /\ \A r \in Peers : r = p \/ r = Other(p)
  BY TwoPeers DEF Basic
<1>1. fault = "none"
  BY DEF RemoteEvent, RemoteWrite, RemoteRelease, RemoteReleaseNotFound, RemoteCreate,
         RemoteClose, Response, ResponseCreate, ResponseClose, Incoming
<1>2. ASSUME NEW a, Answers(p, a)
      PROVE  Exclusive'
  BY <1>2, ExclusiveWoken DEF Answers
<1>3. ASSUME NEW a, \/ AnsweredWrite(p, a) \/ AnsweredRelease(p, a)
                    \/ AnsweredOpen(p, a) \/ AnsweredClose(p, a)
      PROVE  Exclusive' /\ Paired'
  <2>1. CASE AnsweredWrite(p, a) \/ AnsweredRelease(p, a)
    <3>1. /\ Answers(p, a) /\ a.op \in {"WRITE", "REL"} /\ nextSid' = nextSid
          /\ \A r \in Peers : SameEnds(r)
      BY <2>1, SameEndsAll DEF AnsweredWrite, AnsweredRelease, Stays, Levels
    <3>2. /\ \A r \in Peers : KeepsFirst(r)
          /\ KeepsAnswers(p) /\ Answered(Other(p))' = Answered(Other(p)) \cup {a}
      BY <3>1, AnsweredKeeps
    <3>3. KeepsAnswers(Other(p))
      BY <3>1, <3>2 DEF KeepsAnswers
    <3>4. QED
      BY <1>0, <1>2, <3>1, <3>2, <3>3, PairedKept
  <2>2. CASE AnsweredOpen(p, a)
    BY <1>2, <2>2, PairedAnsweredOpen DEF AnsweredOpen
  <2>3. CASE AnsweredClose(p, a)
    BY <1>1, <1>2, <2>3, PairedAnsweredClose DEF AnsweredClose
  <2>4. QED
    BY <1>3, <2>1, <2>2, <2>3
<1>4. CASE RemoteReleaseNotFound(p)
  <2>1. thr' = thr
    BY <1>4 DEF RemoteReleaseNotFound
  <2>2. QED
    BY <1>4, <2>1, ExclusiveKept, PairedNotFound
<1>5. ASSUME TakenData(p) \/ TakenOpen(p) \/ TakenClose(p)
      PROVE  Exclusive' /\ Paired'
  <2>1. Takes(p)
    BY <1>5 DEF TakenData, TakenOpen, TakenClose
  <2>2. CASE TakenData(p)
    <3>1. /\ Head(inq[p]).op \in {"WRITE", "REL"} /\ nextSid' = nextSid
          /\ \A r \in Peers : SameEnds(r)
      BY <2>2, SameEndsAll DEF TakenData, Stays, Levels
    <3>2. \A r \in Peers : KeepsFirst(r) /\ KeepsAnswers(r)
      BY <1>0, <2>1, <3>1, TakenKeeps
    <3>3. QED
      BY <2>1, <3>1, <3>2, PairedKept, ExclusiveTaken
  <2>3. QED
    BY <1>5, <2>1, <2>2, ExclusiveTaken, PairedTakenOpen, PairedTakenClose
<1>6. QED
  BY <1>0, <1>3, <1>4, <1>5, RemoteEffects

LEMMA AgreeReader ==
  ASSUME Basic, Exclusive, Paired, NEW p \in Peers, Reader(p)
  PROVE  Exclusive' /\ Paired'
<1>1. Types /\ Requesting /\ (Looks(p) \/ Moves(p) \/ Stores(p))
  BY ReaderEffects DEF Basic
<1>2. thr' = thr /\ nextSid' = nextSid
  BY <1>1 DEF Looks, Moves, Stores, data
<1>3. SameMessages
  BY <1>1, LooksSame, MovedRequests DEF Looks
<1>4. \A r \in Peers : SameEnds(r)
  <2>1. CASE Stores(p)
    BY <2>1, SameEndsAll DEF Stores, Levels
  <2>2. CASE Looks(p) \/ Moves(p)
    <3>1. stream' = stream
      BY <2>2 DEF Looks, Moves, data
    <3>2. QED
      BY <3>1, UnchangedSame DEF SameStreams
  <2>3. QED
    BY <1>1, <2>1, <2>2
<1>5. QED
  BY <1>2, <1>3, <1>4, ExclusiveKept, SameMessagesKeep, PairedKept

LEMMA AgreeNext ==
  ASSUME AgreeInv, [Next]_vars
  PROVE  AgreeInv'
<1>0. StreamInv /\ Agreeing /\ Exclusive /\ Paired /\ Basic /\ Flow
  BY DEF AgreeInv, StreamInv
<1>1. StreamInv' /\ Agreeing'
  BY <1>0, CarefulNext, UsageKept DEF Agreeing
<1>2. ASSUME NEW p \in Peers, NEW t \in Threads, Application(p, t)
      PROVE  Exclusive' /\ Paired'
  <2>1. Begins(p, t)
    BY <1>0, <1>2, BasicBegun
  <2>2. stream' = stream /\ nextSid' = nextSid
    BY <2>1 DEF Begins, data
  <2>3. SameMessages /\ SameStreams
    BY <1>0, <2>1, <2>2, BegunRequests, UnchangedSame DEF Basic
  <2>4. QED
    BY <1>0, <1>2, <2>2, <2>3, ExclusiveBegun, PairedSame
<1>3. ASSUME NEW p \in Peers, Scheduler(p) \/ Reader(p)
      PROVE  Exclusive' /\ Paired'
  BY <1>0, <1>3, AgreeLocal, AgreeRemote, AgreeReader DEF Scheduler
<1>4. CASE UNCHANGED vars
  <2>1. UNCHANGED <<stream, nextSid, thr, inq, wire>>
    BY <1>4 DEF vars, data
  <2>2. SameMessages /\ SameStreams
    BY <1>0, <2>1, LooksSame, UnchangedSame
  <2>3. Paired'
    BY <1>0, <2>1, <2>2, PairedSame
  <2>4. thr' = thr
    BY <2>1
  <2>5. Exclusive'
    BY <1>0, <2>4, ExclusiveKept
  <2>6. QED
    BY <1>1, <2>3, <2>5 DEF AgreeInv
<1>5. QED
  BY <1>1, <1>2, <1>3, <1>4 DEF AgreeInv, Next

LEMMA AgreeInit == Init /\ Agreeing => AgreeInv
<1> SUFFICES ASSUME Init, Agreeing PROVE AgreeInv
  OBVIOUS
<1>1. StreamInv /\ Basic
  BY CarefulInit DEF Agreeing, Careful, StreamInv
<1>2. \A p \in Peers, t \in Threads : thr[p][t].pc = "idle"
  BY DEF Init, IdleThread
<1>3. Exclusive
  BY <1>2 DEF Exclusive, Opening, Asking
<1>4. \A p, q \in Peers : stream[p] = NoStream /\ nextSid[p] = nextSid[q]
  BY DEF Init
<1>5. NoStream.ws = 0 /\ NoStream.rs = 0 /\ NoStream.id = None
  BY DEF NoStream
<1>6. \A p \in Peers : Other(p) \in Peers /\ Answered(p) = {}
  <2>1. \A p \in Peers : inq[p] = << >> /\ wire[p] = << >> /\ Other(p) \in Peers
    BY TwoPeers DEF Init
  <2>2. \A p \in Peers : Line(p) = << >>
    BY <2>1 DEF Line
  <2>3. QED
    BY <2>1, <2>2 DEF Answered, Msgs
<1>7. Paired
  BY <1>4, <1>5, <1>6 DEF Paired, Pairs, Directed, Alike, Freed, Named, Aligned
<1>8. QED
  BY <1>1, <1>3, <1>7 DEF AgreeInv

\* While nothing opens or closes no answer to an open or a close is on its way.
LEMMA QuietLines ==
  ASSUME Basic, Quiet, NEW p \in Peers
  PROVE  \A m \in Answered(p) : m.op \notin {"OPEN", "CLOSE"}
<1> SUFFICES ASSUME NEW m \in Answered(p), m.op \in {"OPEN", "CLOSE"} PROVE FALSE
  OBVIOUS
<1>1. m.t \in Threads
  BY MsgsType DEF Basic, Types, Letters, Messages
<1>2. thr[p][m.t].pc = "pending" /\ thr[p][m.t].op = m.op
  BY DEF Basic, Requesting, Corresponding, Matched, WaitsFor
<1>3. QED
  BY <1>1, <1>2 DEF Quiet

LEMMA AgreeHolds == AgreeInv => EndsAgree
<1> SUFFICES ASSUME AgreeInv, Quiet PROVE EndsAgree
  BY DEF EndsAgree
<1>1. Basic /\ Paired
  BY DEF AgreeInv, StreamInv
<1>2. \A r \in Peers : \A m \in Answered(r) : m.op # "OPEN" /\ m.op # "CLOSE"
  BY <1>1, QuietLines
<1>3. ASSUME NEW p \in Peers
      PROVE  Alike(p) /\ Aligned(p)
  <2>1. Other(p) \in Peers /\ Other(Other(p)) = p
    BY TwoPeers
  <2>2. \A r \in Peers : (Alike(r) \/ Promised(r)) /\ ~Behind(r)
    BY <1>1, <1>2, NoCloses
  <2>3. \A r \in Peers : (Alike(r) \/ Revoked(r)) /\ ~Ahead(r)
    BY <1>1, <1>2, NoOpens
  <2>4. Alike(p)
    BY <2>2, <2>3 DEF Promised, Revoked
  <2>5. Named(p)
    BY <1>1 DEF Paired, Pairs
  <2>6. QED
    BY <2>1, <2>2, <2>3, <2>4, <2>5 DEF Named
<1>4. QED
  BY <1>3 DEF EndsAgree, Alike, Aligned

\* The two ends agree on a stream that nobody opens or closes, although each takes the
\* id from a counter of its own: as long as no thread uses a stream that its end is
\* closing, and no end opens a stream while the other closes it.
THEOREM EndsDoAgree == Spec /\ Agreeing => []EndsAgree
BY AgreeInit, AgreeNext, AgreeHolds, PTL DEF Spec
=============================================================================
