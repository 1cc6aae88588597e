---------------------------- MODULE KtsndProofs -----------------------------
(***************************************************************************)
(* The daemon's loop implements SlotPath, and so has its invariants; no    *)
(* packet leaves early; the null buffer is used only after refusals.       *)
(***************************************************************************)
EXTENDS Ktsnd, PrioQueueOpsProofs

-----------------------------------------------------------------------------
(***************************************************************************)
(* The instance of SlotPath in Ktsnd                                       *)
(***************************************************************************)
\* An instance has its own copy of the definitions it extends.
LEMMA SameCardinality ==
    ASSUME NEW S
    PROVE  Path!Cardinality(S) = Cardinality(S)
  BY DEF Path!Cardinality, Cardinality

LEMMA SameConstants ==
    /\ Path!Capacity = Capacity /\ Path!Slots = Slots
    /\ Path!Ids = Ids /\ Path!Held = Held
  BY DEF Path!Capacity, Capacity, Path!Slots, Slots, Path!Ids, Ids, Path!Held, Held

-----------------------------------------------------------------------------
(***************************************************************************)
(* The inserts of a burst                                                  *)
(***************************************************************************)
\* The queues the daemon can have.
Queues == {q \in Seq(Nodes(Slots)) : Len(q) <= Capacity}

\* The entry made for slot s.
Entry(s) == [prio |-> I64(meta[s]), data |-> s]

\* The numbers of the model.
LEMMA Constants ==
    /\ Capacity \in Nat \ {0} /\ RingSize \in Nat /\ RingSize = Capacity + 1
    /\ 0 \in Slots /\ TxBurst \in Nat /\ Slots \subseteq Nat
  BY SendmsgAssumption DEF Capacity, Slots

\* A u64 read as an i64 is a number.
LEMMA Signed == ASSUME NEW x \in Nat  PROVE I64(x) \in Int
  BY KtsndAssumption DEF I64

\* kt_prio_queue_insert: a full queue stays as it is, another gets the entry.
LEMMA QueuedStep ==
    ASSUME NEW q \in Queues, NEW s \in Slots, meta \in [Slots -> Nat]
    PROVE  /\ Queued(q, s) \in Queues
           /\ Len(Queued(q, s)) = IF Len(q) = Capacity THEN Len(q) ELSE Len(q) + 1
           /\ \A z : Count(Queued(q, s), z) =
                         Count(q, z) + IF Len(q) # Capacity /\ s = z THEN 1 ELSE 0
           /\ Entries(Queued(q, s)) \subseteq Entries(q) \cup {Entry(s)}
<1>0. q \in Seq(Nodes(Slots)) /\ Len(q) \in Nat /\ Len(q) <= Capacity /\ Capacity \in Nat
  BY Constants DEF Queues
<1>1. CASE Len(q) = Capacity
  <2>1. Queued(q, s) = q
    BY <1>1 DEF Queued, Insert
  <2>2. \A z : Count(q, z) \in Nat
    BY <1>0, CountType
  <2> QED  BY <1>1, <2>1, <2>2
<1>2. CASE Len(q) # Capacity
  <2> DEFINE v == I64(meta[s])
             x == Entry(s)
             f == Queued(q, s)
             g == Append(q, x)
  <2>1. v \in Int /\ x \in Nodes(Slots) /\ x = [prio |-> v, data |-> s] /\ x.data = s
    <3>1. v \in Int
      BY Signed
    <3> QED  BY <3>1 DEF Nodes, Entry
  <2>2. f = Insert(q, Capacity, v, s)
    BY DEF Queued
  <2> HIDE DEF v, x, f
  <2>3. f \in Seq(Nodes(Slots)) /\ Shuffle(f, g)
    BY <1>0, <1>2, <2>1, <2>2, InsertShuffles
  <2>4. g \in Seq(Nodes(Slots)) /\ Len(g) = Len(q) + 1
    BY <1>0, <2>1
  <2>5. Len(f) = Len(q) + 1
    BY <2>3, <2>4 DEF Shuffle
  <2>6. ASSUME NEW z  PROVE Count(f, z) = Count(q, z) + IF s = z THEN 1 ELSE 0
    <3>1. Count(f, z) = Count(g, z)
      <4> HIDE DEF g
      <4> QED  BY <2>3, <2>4, ShuffleCount
    <3>2. Count(g, z) = Count(q, z) + IF x.data = z THEN 1 ELSE 0
      BY <1>0, <2>1, AppendCount
    <3> QED  BY <2>1, <3>1, <3>2
  <2>7. Entries(f) \subseteq Entries(q) \cup {x}
    <3>1. Entries(f) = Entries(g)
      BY <2>3, ShuffleEntries
    <3>2. ASSUME NEW k \in 1..Len(g)  PROVE g[k] = x \/ (k \in 1..Len(q) /\ g[k] = q[k])
      <4>1. k \in 1..Len(q) \/ k = Len(q) + 1
        BY <1>0, <2>4
      <4> QED  BY <1>0, <2>1, <4>1
    <3> QED  BY <3>1, <3>2 DEF Entries
  <2>8. f \in Queues
    BY <1>0, <1>2, <2>3, <2>5 DEF Queues
  <2> QED  BY <1>2, <2>5, <2>6, <2>7, <2>8 DEF f, x
<1> QED  BY <1>1, <1>2

\* r are the queues of a burst of k, after every insert.
InsertRun(r, k) ==
    /\ r \in [0..k -> Queues]
    /\ r[0] = pq
    /\ \A i \in 1..k : r[i] = Queued(r[i - 1], TxTable(k)[i])
    /\ Inserted(k) = r[k]

\* The inserts of a burst, one after the other, leave a queue each.
LEMMA InsertLoop ==
    ASSUME pq \in Queues, NEW k \in Nat, TxTable(k) \in [1..k -> Slots],
           meta \in [Slots -> Nat]
    PROVE  \E r : InsertRun(r, k)
<1> DEFINE T == TxTable(k)
<1>0. T \in [1..k -> Slots]
  OBVIOUS
<1>1. \A i \in 1..k, q \in Queues : Queued(q, T[i]) \in Queues
  BY QueuedStep
<1>5. Inserted(k) = LET round[i \in 0..k] == IF i = 0 THEN pq ELSE Queued(round[i - 1], T[i])
                    IN  round[k]
  BY DEF Inserted
<1> HIDE DEF T
<1> DEFINE F == [i \in 1..k |-> [q \in Queues |-> Queued(q, T[i])]]
           Up(g) == g = [i \in 0..k |-> IF i = 0 THEN pq ELSE Queued(g[i - 1], T[i])]
           r == CHOOSE g : Up(g)
<1>2. F \in [1..k -> [Queues -> Queues]]
  BY <1>1
<1>3. PICK g \in [0..k -> Queues] : IsLoop(g, F, pq, k)
  <2> HIDE DEF F
  <2> QED  BY <1>2, LoopExists
<1>4. Up(g)
  <2>1. ASSUME NEW i \in 0..k, i # 0  PROVE F[i][g[i - 1]] = Queued(g[i - 1], T[i])
    <3>1. i \in 1..k /\ i - 1 \in 0..k
      BY <2>1
    <3>2. g[i - 1] \in Queues
      BY <3>1
    <3> QED  BY <3>1, <3>2
  <2> HIDE DEF F
  <2> QED  BY <1>3, <2>1 DEF IsLoop
<1>6. Up(r)
  <2> HIDE DEF Up
  <2> QED  BY <1>4
<1>7. Inserted(k) = r[k]
  BY <1>5
<1> HIDE DEF r
<1>8. r[0] = pq /\ \A i \in 1..k : r[i] = Queued(r[i - 1], T[i])
  BY <1>6
<1>9. \A i \in 0..k : r[i] \in Queues
  BY <1>1, <1>8, LoopStays
<1>10. r \in [0..k -> Queues]
  BY <1>6, <1>9
<1>11. InsertRun(r, k)
  BY <1>7, <1>8, <1>10 DEF InsertRun, T
<1> QED  BY <1>11

\* The queue q when the first n entries of a burst of k went in.
Holds(q, n, k) ==
    /\ q \in Queues
    /\ Len(q) = Len(pq) + n
    /\ \A z : Count(q, z) = Count(pq, z) + Cardinality({j \in 1..n : TxTable(k)[j] = z})
    /\ \A x \in Entries(q) : x \in Entries(pq) \/ \E j \in 1..k : x = Entry(TxTable(k)[j])

\* How many of i inserts there is room for.
Fit(i) == Least(i, Capacity - Len(pq))

\* Before the first insert of a burst.
LEMMA HoldsFirst ==
    ASSUME pq \in Queues, NEW k \in Nat
    PROVE  Holds(pq, 0, k) /\ Fit(0) = 0
<1>0. Len(pq) \in Nat /\ Len(pq) <= Capacity /\ pq \in Seq(Nodes(Slots))
  BY DEF Queues
<1>1. Fit(0) = 0
  BY <1>0, Constants DEF Least, Fit
<1>2. \A z : Count(pq, z) \in Nat
  BY <1>0, CountType
<1>3. \A z : Cardinality({j \in 1..0 : TxTable(k)[j] = z}) = 0
  <2>1. \A z : {j \in 1..0 : TxTable(k)[j] = z} = {}
    OBVIOUS
  <2> QED  BY <2>1, FS_EmptySet
<1>4. \A z : Count(pq, z) = Count(pq, z) + Cardinality({j \in 1..0 : TxTable(k)[j] = z})
  BY <1>2, <1>3
<1>5. Len(pq) = Len(pq) + 0
  BY <1>0
<1> QED  BY <1>1, <1>4, <1>5 DEF Holds

\* One more insert: the entry goes in, or there is no room for it.
LEMMA HoldsNext ==
    ASSUME pq \in Queues, NEW k \in Nat, TxTable(k) \in [1..k -> Slots],
           meta \in [Slots -> Nat], NEW i \in 1..k, NEW q, Holds(q, Fit(i - 1), k)
    PROVE  Holds(Queued(q, TxTable(k)[i]), Fit(i), k)
<1> DEFINE T == TxTable(k)
           c == Capacity - Len(pq)
           m == Fit(i - 1)
           n == Fit(i)
           f == Queued(q, T[i])
<1> SUFFICES Holds(f, n, k)
  OBVIOUS
<1>1. /\ q \in Queues /\ Len(q) = Len(pq) + m
      /\ \A z : Count(q, z) = Count(pq, z) + Cardinality({j \in 1..m : T[j] = z})
      /\ \A x \in Entries(q) : x \in Entries(pq) \/ \E j \in 1..k : x = Entry(T[j])
  BY DEF Holds
<1>2. /\ f \in Queues
      /\ Len(f) = IF Len(q) = Capacity THEN Len(q) ELSE Len(q) + 1
      /\ \A z : Count(f, z) = Count(q, z) + IF Len(q) # Capacity /\ T[i] = z THEN 1 ELSE 0
      /\ Entries(f) \subseteq Entries(q) \cup {Entry(T[i])}
  <2>1. T[i] \in Slots
    OBVIOUS
  <2> HIDE DEF T
  <2> QED  BY <1>1, <2>1, QueuedStep
<1>3. c \in Nat /\ Len(pq) \in Nat /\ Capacity = Len(pq) + c /\ Len(q) \in Nat
  BY <1>1, Constants DEF Queues
<1>4. \A x \in Entries(f) : x \in Entries(pq) \/ \E j \in 1..k : x = Entry(T[j])
  BY <1>1, <1>2
<1>5. \A z : Count(pq, z) \in Nat /\ Count(q, z) \in Nat
  BY <1>1, CountType DEF Queues
<1>6. m = Least(i - 1, c) /\ n = Least(i, c)
  BY DEF Fit
<1> HIDE DEF T, c, f, m, n
<1>7. CASE i - 1 < c
  <2>1. m = i - 1 /\ n = m + 1 /\ n = i /\ m \in Nat
    BY <1>3, <1>6, <1>7 DEF Least
  <2>2. Len(q) # Capacity /\ Len(f) = Len(pq) + n
    BY <1>1, <1>2, <1>3, <1>7, <2>1
  <2>3. ASSUME NEW z
        PROVE  Count(f, z) = Count(pq, z) + Cardinality({j \in 1..n : T[j] = z})
    <3> DEFINE A == {j \in Nat : T[j] = z}
               M == {j \in 1..m : T[j] = z}
               N == {j \in 1..n : T[j] = z}
               u == Cardinality(M)
               w == Cardinality(N)
               one == IF T[i] = z THEN 1 ELSE 0
    <3>1. M = {j \in 1..m : j \in A}
      BY <2>1
    <3>2. N = {j \in 1..(m + 1) : j \in A}
      BY <2>1
    <3>3. m + 1 \in A <=> T[i] = z
      BY <2>1
    <3>4. m \in Nat
      BY <2>1
    <3>5. u \in Nat /\ w = u + one
      <4> HIDE DEF A, M, N
      <4>1. u \in Nat /\ w = u + IF m + 1 \in A THEN 1 ELSE 0
        BY <3>1, <3>2, <3>4, NextNumber
      <4> QED  BY <3>3, <4>1
    <3>6. Count(f, z) = Count(pq, z) + u + one
      BY <1>1, <1>2, <2>2
    <3>7. one \in Nat
      OBVIOUS
    <3>8. Count(f, z) = Count(pq, z) + w
      <4> HIDE DEF u, w, one
      <4> QED  BY <1>5, <3>5, <3>6, <3>7
    <3> QED  BY <3>8
  <2> QED  BY <1>2, <1>4, <2>2, <2>3 DEF Holds, T
<1>8. CASE ~(i - 1 < c)
  <2>1. m = c /\ n = c
    BY <1>3, <1>6, <1>8 DEF Least
  <2>2. Len(q) = Capacity
    BY <1>1, <1>3, <2>1
  <2>3. Len(f) = Len(pq) + n /\ \A z : Count(f, z) = Count(q, z) + 0
    BY <1>1, <1>2, <2>1, <2>2
  <2>4. \A z : Count(f, z) = Count(pq, z) + Cardinality({j \in 1..n : T[j] = z})
    BY <1>1, <1>5, <2>1, <2>3
  <2> QED  BY <1>2, <1>4, <2>3, <2>4 DEF Holds, T
<1> QED  BY <1>7, <1>8

\* After a burst the queue has what it had and as many of the entries as
\* there was room for.
LEMMA BurstInserted ==
    ASSUME pq \in Queues, NEW k \in Nat, TxTable(k) \in [1..k -> Slots],
           meta \in [Slots -> Nat]
    PROVE  Holds(Inserted(k), Fit(k), k)
<1>1. PICK r : InsertRun(r, k)
  BY InsertLoop
<1>2. /\ r[0] = pq /\ Inserted(k) = r[k]
      /\ \A i \in 1..k : r[i] = Queued(r[i - 1], TxTable(k)[i])
  BY <1>1 DEF InsertRun
<1> DEFINE S == {i \in 0..k : Holds(r[i], Fit(i), k)}
<1>3. 0 \in S
  BY <1>2, HoldsFirst
<1>4. ASSUME NEW i \in 1..k, i - 1 \in S  PROVE i \in S
  <2>1. Holds(r[i - 1], Fit(i - 1), k)
    BY <1>4
  <2>2. Holds(Queued(r[i - 1], TxTable(k)[i]), Fit(i), k)
    BY <2>1, HoldsNext
  <2> QED  BY <1>2, <2>2
<1> HIDE DEF S
<1>5. \A i \in 0..k : i \in S
  BY <1>3, <1>4, InductionTo
<1>6. k \in S
  BY <1>5
<1> QED  BY <1>2, <1>6 DEF S

-----------------------------------------------------------------------------
(***************************************************************************)
(* The loop implements SlotPath                                            *)
(***************************************************************************)
\* What the proof needs to know of the daemon beyond SlotPath's invariant.
LoopInv ==
    /\ pq \in Queues
    /\ dpc \in {"drain", "check", "send", "recycle", "segv", "exit"}
    /\ clock \in Nat

\* What SlotPath's invariant says of the daemon's own variables.
LEMMA PathTypes ==
    ASSUME Path!PathInv
    PROVE  /\ tx \in Seq(Slots) /\ txHead \in Nat
           /\ mbuf \in [Slots -> {0} \cup Ids] /\ meta \in [Slots -> Nat]
           /\ cur \in {None} \cup Slots
           /\ DpcBar = "poll" <=> cur = None
  BY SameConstants, Constants DEF Path!PathInv, Path!TypeOK

\* A step that moves no slot.
Still ==
    /\ UNCHANGED <<sendVars, txHead, pq, cur, last, drops, crossed>>
    /\ DpcBar' = DpcBar

\* It is a stuttering step of SlotPath.
LEMMA StillPath == ASSUME Still  PROVE UNCHANGED Path!vars
<1>1. QueueBar' = QueueBar /\ LastBar' = LastBar
  BY DEF Still, QueueBar, LastBar
<1> QED  BY <1>1 DEF Still, Path!vars, Path!sendVars, Path!daemon, Path!pools, Path!app,
                     sendVars, pools, app

\* A step of sendmsg is the same step of SlotPath.
LEMMA SendPath ==
    ASSUME NEW a \in Senders, SendStep(a), UNCHANGED <<daemonVars, clock>>
    PROVE  Path!Next
<1>1. Path!SendStep(a)
  BY SameConstants
     DEF SendStep, TakeSlot, Fill, Post, Die, Path!SendStep, Path!TakeSlot, Path!Fill,
         Path!Post, Path!Die, Path!pools, pools
<1>2. UNCHANGED Path!daemon
  BY DEF daemonVars, seen, Path!daemon, QueueBar, DpcBar, LastBar
<1> QED  BY <1>1, <1>2 DEF Path!Next

\* The burst and its inserts are SlotPath's Drain: as many copies of a slot go
\* into the queue as there are in the burst and there is room for.
LEMMA DrainPath ==
    ASSUME LoopInv, Path!PathInv, Drain
    PROVE  Path!Drain /\ pq' \in Queues
<1> DEFINE k == Least(TxBurst, Len(tx))
           n == Least(k, Capacity - Len(pq))
<1>0. /\ tx \in Seq(Slots) /\ txHead \in Nat /\ meta \in [Slots -> Nat] /\ Len(tx) \in Nat
      /\ pq \in Queues /\ Len(pq) \in Nat /\ Capacity \in Nat
  BY PathTypes, Constants DEF LoopInv, Queues
<1>1. k \in Nat /\ k <= Len(tx)
  BY <1>0, Constants DEF Least
<1>2. TxTable(k) \in [1..k -> Slots]
  <2>1. \A i \in 1..k : tx[i] \in Slots
    BY <1>0, <1>1
  <2> QED  BY <2>1, Constants DEF TxTable
<1> HIDE DEF k
<1>3. Holds(Inserted(k), n, k)
  BY <1>0, <1>1, <1>2, BurstInserted DEF Fit
<1> HIDE DEF n
<1>4. /\ pq' = Inserted(k)
      /\ tx' = SubSeq(tx, k + 1, Len(tx)) /\ txHead' = (txHead + k) % RingSize
      /\ failed' = (failed \/ Len(pq) + k > Capacity)
      /\ crossed' = (crossed \/ txHead + k > RingSize)
      /\ dpc = "drain" /\ dpc' = "check"
      /\ UNCHANGED <<free, pools, app, fate, cur, last, drops>>
  BY DEF Drain, k
<1>5. /\ pq' \in Queues /\ Len(pq') = Len(pq) + n
      /\ \A z : Count(pq', z) = Count(pq, z) + Cardinality({j \in 1..n : TxTable(k)[j] = z})
  BY <1>3, <1>4 DEF Holds
<1>6. QueueBar' = [s \in Path!Slots |-> QueueBar[s] + Path!Copies(k, n, s)]
  <2>1. \A s : Path!Copies(k, n, s) = Cardinality({j \in 1..n : TxTable(k)[j] = s})
    BY SameCardinality DEF Path!Copies, Path!TxTable, TxTable
  <2>2. QueueBar' = [s \in Slots |-> Count(pq', s)] /\ QueueBar = [s \in Slots |-> Count(pq, s)]
    BY DEF QueueBar, Count
  <2>3. ASSUME NEW s \in Slots
        PROVE  Count(pq', s) = QueueBar[s] + Path!Copies(k, n, s)
    BY <1>5, <2>1, <2>2
  <2> QED  BY <2>2, <2>3, SameConstants
<1>7. failed' = (failed \/ n < k)
  <2>1. n < k <=> Len(pq) + k > Capacity
    BY <1>0, <1>1 DEF n, Least, Queues
  <2> QED  BY <1>4, <2>1
<1>8. DpcBar = "poll" /\ DpcBar' = DpcBar /\ LastBar' = LastBar
  BY <1>4 DEF DpcBar, LastBar
<1>9. Path!Least(TxBurst, Len(tx)) = k /\ Path!Least(k, Path!Capacity - Len(pq)) = n
  BY SameConstants DEF Path!Least, Least, k, n
<1> QED  BY <1>4, <1>5, <1>6, <1>7, <1>8, <1>9
            DEF Path!Drain, Path!pools, Path!app, pools, app

\* The root leaves the queue.
LEMMA RootLeaves ==
    ASSUME LoopInv, dpc = "check", ~IsEmpty(pq), pq' = ExtractMin(pq)
    PROVE  /\ RootSlot \in Path!Slots /\ Path!Leaves(RootSlot) /\ pq' \in Queues
<1> DEFINE r == RootSlot
<1>0. pq \in Seq(Nodes(Slots)) /\ Len(pq) \in Nat /\ Len(pq) # 0 /\ Len(pq) <= Capacity
  BY DEF LoopInv, Queues, IsEmpty
<1>1. r = pq[1].data /\ r \in Slots
  <2>1. pq[1] \in Nodes(Slots) /\ Head(pq) = pq[1]
    BY <1>0
  <2> QED  BY <2>1 DEF RootSlot, Nodes
<1>2. /\ pq' \in Seq(Nodes(Slots)) /\ Shuffle(pq', Tail(pq))
      /\ Tail(pq) \in Seq(Nodes(Slots)) /\ Len(Tail(pq)) = Len(pq) - 1
  BY <1>0, ExtractShuffles, RootedEntries
<1>3. Len(pq') = Len(pq) - 1 /\ pq' \in Queues
  <2>1. Len(pq') = Len(pq) - 1
    BY <1>2 DEF Shuffle
  <2>2. Len(pq') <= Capacity
    BY <1>0, <2>1, Constants
  <2> QED  BY <1>2, <2>1, <2>2 DEF Queues
<1>4. ASSUME NEW s
      PROVE  Count(pq', s) = Count(pq, s) - IF pq[1].data = s THEN 1 ELSE 0
  <2>1. Count(pq', s) = Count(Tail(pq), s)
    BY <1>2, ShuffleCount
  <2> QED  BY <1>0, <2>1, TailCount
<1> HIDE DEF r
<1>5. QueueBar' = [s \in Slots |-> Count(pq', s)] /\ QueueBar = [s \in Slots |-> Count(pq, s)]
  BY DEF QueueBar, Count
<1>6. \A s : Count(pq, s) \in Nat /\ Count(pq', s) \in Nat
  BY <1>0, <1>2, CountType
<1>7. QueueBar' = [QueueBar EXCEPT ![r] = @ - 1]
  <2>1. \A s \in Slots : Count(pq', s) = IF s = r THEN Count(pq, s) - 1 ELSE Count(pq, s)
    BY <1>1, <1>4, <1>6
  <2> QED  BY <1>5, <2>1
<1>8. QueueBar[r] > 0
  <2>1. QueueBar[r] = Count(pq, r)
    BY <1>1, <1>5
  <2>2. Count(pq', r) = Count(pq, r) - 1
    BY <1>1, <1>4
  <2> QED  BY <1>6, <2>1, <2>2
<1>9. DpcBar = "poll"
  BY DEF DpcBar
<1>10. Path!Leaves(r)
  BY <1>0, <1>3, <1>7, <1>8, <1>9 DEF Path!Leaves
<1> QED  BY <1>1, <1>3, <1>10, SameConstants DEF r

\* Dropping the root is DropLate of its slot, wherever the heap has its minimum.
LEMMA LatePath ==
    ASSUME LoopInv, CheckLate
    PROVE  Path!Next /\ pq' \in Queues
<1>1. RootSlot \in Path!Slots /\ Path!Leaves(RootSlot) /\ pq' \in Queues
  BY RootLeaves DEF CheckLate
<1>2. DpcBar' = DpcBar /\ LastBar' = LastBar
  BY DEF CheckLate, DpcBar, LastBar
<1>3. Path!DropLate(RootSlot)
  BY <1>1, <1>2 DEF CheckLate, Path!DropLate, shm, Path!pools, Path!app, pools, app
<1> QED  BY <1>1, <1>3 DEF Path!Next

\* Taking the root out is Extract of its slot.
LEMMA DuePath ==
    ASSUME LoopInv, CheckDue
    PROVE  Path!Next /\ pq' \in Queues
<1>1. RootSlot \in Path!Slots /\ Path!Leaves(RootSlot) /\ pq' \in Queues
  BY RootLeaves DEF CheckDue
<1>2. DpcBar' = "send" /\ LastBar' = LastBar
  BY DEF CheckDue, DpcBar, LastBar, seen
<1>3. Path!Extract(RootSlot)
  BY <1>1, <1>2 DEF CheckDue, Path!Extract, Path!sendVars, Path!pools, Path!app,
                    sendVars, pools, app, seen
<1> QED  BY <1>1, <1>3 DEF Path!Next

\* The port takes or refuses the packet, as in SlotPath's Transmit.
LEMMA TransmitPath ==
    ASSUME LoopInv, Path!PathInv, Transmit
    PROVE  Path!Transmit
<1> DEFINE p == [id |-> mbuf[cur], txtime |-> meta[cur], at |-> clock]
<1>0. DpcBar = "send" /\ DpcBar' = "recycle"
  BY DEF Transmit, DpcBar
<1>1. cur \in Slots
  BY <1>0, PathTypes
<1>2. mbuf[cur] \in {0} \cup Ids /\ meta[cur] \in Nat /\ clock \in Nat
  BY <1>1, PathTypes DEF LoopInv
<1>3. p # None
  <2>1. p \in Sent
    BY <1>2 DEF Sent
  <2> QED  BY <2>1, KtsndAssumption
<1>4. QueueBar' = QueueBar
  BY DEF Transmit, QueueBar
<1>5. CASE /\ last' = p
           /\ fate' = [fate EXCEPT ![mbuf[cur]] = IF @ = "posted" THEN "wire" ELSE "twice"]
  <2>1. LastBar' = [id |-> mbuf[cur], txtime |-> meta[cur]]
    BY <1>3, <1>5 DEF LastBar
  <2> QED  BY <1>0, <1>4, <1>5, <2>1
              DEF Transmit, Path!Transmit, shm, Path!pools, Path!app, pools, app
<1>6. CASE last' = last /\ fate' = [fate EXCEPT ![mbuf[cur]] = "refused"]
  <2>1. LastBar' = LastBar
    BY <1>6 DEF LastBar
  <2> QED  BY <1>0, <1>4, <1>6, <2>1
              DEF Transmit, Path!Transmit, shm, Path!pools, Path!app, pools, app
<1> QED  BY <1>5, <1>6 DEF Transmit

\* The slot goes back to free_ring.
LEMMA RecyclePath ==
    ASSUME LoopInv, Recycle
    PROVE  Path!Recycle
<1>1. /\ DpcBar = "recycle" /\ DpcBar' = "poll"
      /\ QueueBar' = QueueBar /\ LastBar' = LastBar
  BY DEF Recycle, DpcBar, QueueBar, LastBar, seen
<1> QED  BY <1>1, SameConstants
            DEF Recycle, Path!Recycle, Path!pools, Path!app, pools, app, seen

\* Every other step moves no slot.
LEMMA OtherStill ==
    ASSUME \/ CheckWait \/ TransmitNull \/ Sigint \/ Leave \/ NicReclaim \/ Tick
           \/ UNCHANGED vars
    PROVE  Still /\ pq' = pq
<1>1. CASE CheckWait
  BY <1>1 DEF CheckWait, Still, DpcBar, seen
<1>2. CASE TransmitNull
  BY <1>2 DEF TransmitNull, Still, DpcBar, seen
<1>3. CASE Sigint
  BY <1>3 DEF Sigint, Still, DpcBar, seen
<1>4. CASE Leave
  BY <1>4 DEF Leave, Still, DpcBar, seen
<1>5. CASE NicReclaim
  BY <1>5 DEF NicReclaim, Still, DpcBar, seen
<1>6. CASE Tick
  BY <1>6 DEF Tick, Still, DpcBar, daemonVars, seen
<1>7. CASE UNCHANGED vars
  BY <1>7 DEF vars, Still, DpcBar, daemonVars, seen
<1> QED  BY <1>1, <1>2, <1>3, <1>4, <1>5, <1>6, <1>7

\* Every step of the daemon is a step of SlotPath, or moves no slot.
LEMMA StepPath ==
    ASSUME LoopInv, Path!PathInv, [Next]_vars
    PROVE  [Path!Next]_Path!vars /\ pq' \in Queues
<1>0. pq \in Queues
  BY DEF LoopInv
<1>1. CASE \E a \in Senders : SendStep(a) /\ UNCHANGED <<daemonVars, clock>>
  <2>1. pq' = pq
    BY <1>1 DEF daemonVars
  <2> QED  BY <1>0, <1>1, <2>1, SendPath
<1>2. CASE Drain
  BY <1>2, DrainPath DEF Path!Next
<1>3. CASE CheckLate
  BY <1>3, LatePath
<1>4. CASE CheckDue
  BY <1>4, DuePath
<1>5. CASE Transmit
  <2>1. pq' = pq
    BY <1>5 DEF Transmit
  <2> QED  BY <1>0, <1>5, <2>1, TransmitPath DEF Path!Next
<1>6. CASE Recycle
  <2>1. pq' = pq
    BY <1>6 DEF Recycle
  <2> QED  BY <1>0, <1>6, <2>1, RecyclePath DEF Path!Next
<1>7. CASE \/ CheckWait \/ TransmitNull \/ Sigint \/ Leave \/ NicReclaim \/ Tick
           \/ UNCHANGED vars
  BY <1>0, <1>7, OtherStill, StillPath
<1> QED  BY <1>1, <1>2, <1>3, <1>4, <1>5, <1>6, <1>7 DEF Next, DaemonStep

\* The inductive invariant: SlotPath's, through the refinement mapping, with
\* what the mapping needs.
DaemonInv == LoopInv /\ Path!PathInv

-----------------------------------------------------------------------------
(***************************************************************************)
(* The buffers of the port                                                 *)
(***************************************************************************)
\* Every buffer is in the mempool, in one of the port's queues, or leaked by
\* a refusal.
NicInv ==
    /\ {pool, inNic, rxBufs, refusals, descs} \subseteq Nat
    /\ pool + inNic + rxBufs + refusals = PoolSize
    /\ inNic <= descs
    /\ NullOnlyByRefusals

\* Each action moves a buffer from one of these places to another.
LEMMA NicStep == NicInv /\ [Next]_vars => NicInv'
<1> SUFFICES ASSUME NicInv, [Next]_vars  PROVE NicInv'
  OBVIOUS
<1>0. /\ pool \in Nat /\ inNic \in Nat /\ rxBufs \in Nat /\ refusals \in Nat /\ descs \in Nat
      /\ PoolSize \in Nat
      /\ pool + inNic + rxBufs + refusals = PoolSize /\ inNic <= descs
      /\ dpc = "segv" => refusals + descs + rxBufs >= PoolSize
  BY KtsndAssumption DEF NicInv, NullOnlyByRefusals
<1>1. CASE UNCHANGED <<pool, inNic, rxBufs, refusals, descs>> /\ (dpc' = "segv" => dpc = "segv")
  BY <1>0, <1>1 DEF NicInv, NullOnlyByRefusals
<1>2. CASE Transmit
  <2>1. /\ pool > 0 /\ pool' = pool - 1 /\ dpc' = "recycle"
        /\ descs' = descs /\ rxBufs' = rxBufs
    BY <1>2 DEF Transmit
  <2>2. CASE inNic < descs /\ inNic' = inNic + 1 /\ refusals' = refusals
    BY <1>0, <2>1, <2>2 DEF NicInv, NullOnlyByRefusals
  <2>3. CASE inNic' = inNic /\ refusals' = refusals + 1
    BY <1>0, <2>1, <2>3 DEF NicInv, NullOnlyByRefusals
  <2> QED  BY <1>2, <2>2, <2>3 DEF Transmit
<1>3. CASE TransmitNull
  <2>1. pool = 0 /\ UNCHANGED <<pool, inNic, rxBufs, refusals, descs>>
    BY <1>3 DEF TransmitNull, nic, seen
  <2> QED  BY <1>0, <2>1 DEF NicInv, NullOnlyByRefusals
<1>4. CASE NicReclaim
  <2>1. /\ inNic > 0 /\ inNic' = inNic - 1 /\ pool' = pool + 1
        /\ UNCHANGED <<descs, rxBufs, refusals, dpc>>
    BY <1>4 DEF NicReclaim, seen
  <2> QED  BY <1>0, <2>1 DEF NicInv, NullOnlyByRefusals
<1>5. CASE (\E a \in Senders : SendStep(a)) /\ UNCHANGED <<daemonVars, clock>>
  BY <1>1, <1>5 DEF daemonVars, nic, seen
<1>6. CASE \/ Drain \/ CheckWait \/ CheckLate \/ CheckDue \/ Recycle \/ Leave
           \/ Sigint \/ Tick \/ UNCHANGED vars
  BY <1>1, <1>6 DEF Drain, CheckWait, CheckLate, CheckDue, Recycle, Leave, Sigint, Tick,
                    vars, daemonVars, nic, seen
<1> QED  BY <1>2, <1>3, <1>4, <1>5, <1>6 DEF Next, DaemonStep

\* At the start the buffers are in the mempool and the receive queue.
LEMMA NicInit == Init => NicInv
<1> SUFFICES ASSUME Init  PROVE NicInv
  OBVIOUS
<1>1. /\ pool = PoolSize - rxBufs /\ inNic = 0 /\ refusals = 0 /\ dpc = "drain"
      /\ descs \in {0, Descs} /\ rxBufs \in {0, RxDescs}
  BY DEF Init, PortInit
<1>2. PoolSize \in Nat /\ Descs \in Nat /\ RxDescs \in Nat /\ RxDescs <= PoolSize
  BY KtsndAssumption
<1>3. pool \in Nat /\ rxBufs \in Nat /\ descs \in Nat
  BY <1>1, <1>2
<1> QED  BY <1>1, <1>2, <1>3 DEF NicInv, NullOnlyByRefusals

\* The null buffer is used only after refusals that leaked the mempool.
THEOREM NullNeedsRefusals == Spec => []NullOnlyByRefusals
<1>1. NicInv => NullOnlyByRefusals
  BY DEF NicInv
<1> QED  BY <1>1, NicInit, NicStep, PTL DEF Spec

-----------------------------------------------------------------------------
(***************************************************************************)
(* No packet early                                                         *)
(***************************************************************************)
U64 == 0..(2 * Half - 1)

\* Until a burst runs past the end of tx_ring the keys of the queue are the
\* transmission times in the slots.
EarlyInv ==
    /\ asked \in [Ids -> U64] /\ meta \in [Slots -> U64]
    /\ ~crossed =>
           /\ \A x \in Entries(pq) : x = Entry(x.data)
           /\ dpc = "send" => I64(meta[cur]) <= clock + Delta
           /\ last # None => /\ last.id \in 1..ids
                             /\ last.at >= I64(asked[last.id]) - Delta

\* An i64 stays below Half.
LEMMA SignedRange == ASSUME NEW x \in U64  PROVE I64(x) \in Int /\ I64(x) < Half
  BY KtsndAssumption DEF I64, U64

\* A number below m is no more than its remainder.
LEMMA Remainder ==
    ASSUME NEW x \in Int, NEW m \in Nat \ {0}, x < m
    PROVE  x % m \in Int /\ x <= x % m
<1>1. x % m \in 0..(m - 1)
  OBVIOUS
<1>2. CASE x < 0
  BY <1>1, <1>2
<1>3. CASE ~(x < 0)
  <2>1. x \in 0..(m - 1)
    BY <1>3
  <2>2. x % m = x
    BY <2>1
  <2> QED  BY <2>2
<1> QED  BY <1>1, <1>2, <1>3

\* The difference of kt_get_time_diff_ns, wrapped or not, is no less than the
\* true one.
LEMMA DiffBound ==
    ASSUME NEW g \in Int, g < Half, GetMin(pq) = g, clock \in Nat, Diff <= Delta
    PROVE  g <= clock + Delta
<1> DEFINE x == g - clock + Half
           m == 2 * Half
<1>1. Half \in Nat \ {0} /\ Delta \in Nat
  BY KtsndAssumption
<1>2. x \in Int /\ m \in Nat \ {0} /\ x < m
  BY <1>1
<1>3. Diff = (x % m) - Half
  BY DEF Diff
<1> HIDE DEF x, m
<1>4. x % m \in Int /\ x <= x % m
  BY <1>2, Remainder
<1>5. x <= Delta + Half
  BY <1>1, <1>2, <1>3, <1>4
<1> QED  BY <1>1, <1>5 DEF x

\* An entry of the heap is a slot that SlotPath's queue holds.
LEMMA QueuedSlot ==
    ASSUME LoopInv, NEW x \in Entries(pq)
    PROVE  x.data \in Slots /\ QueueBar[x.data] > 0
<1>0. pq \in Seq(Nodes(Slots)) /\ Len(pq) \in Nat
  BY DEF LoopInv, Queues
<1>1. PICK k \in 1..Len(pq) : x = pq[k]
  BY DEF Entries
<1>2. x.data \in Slots
  <2>1. x \in Nodes(Slots)
    BY <1>0, <1>1
  <2> QED  BY <2>1 DEF Nodes
<1> DEFINE S == {i \in 1..Len(pq) : pq[i].data = x.data}
<1>3. QueueBar[x.data] = Cardinality(S)
  BY <1>2 DEF QueueBar
<1>4. IsFiniteSet(S) /\ S # {}
  BY <1>0, <1>1, CountType
<1> HIDE DEF S
<1>5. Cardinality(S) \in Nat /\ Cardinality(S) # 0
  BY <1>4, FS_CardinalityType, FS_EmptySet
<1> QED  BY <1>2, <1>3, <1>5

\* What an application writes is not queued and not being sent.
LEMMA WrittenApart ==
    ASSUME DaemonInv, ~crossed, NEW a \in Senders, mine[a] # None
    PROVE  /\ cur # mine[a].slot
           /\ \A x \in Entries(pq) : x.data # mine[a].slot
<1> DEFINE s == mine[a].slot
<1>1. Path!Apart /\ Path!TypeOK
  BY DEF DaemonInv, Path!PathInv
<1>2. s \in Slots
  BY <1>1, SameConstants DEF Path!TypeOK, Held
<1>3. Path!InHand(s)
  BY DEF Path!InHand, Path!Holders
<1>4. cur # s /\ ~Path!InQueue(s)
  BY <1>1, <1>2, <1>3, SameConstants DEF Path!Apart
<1>5. ~(QueueBar[s] > 0)
  BY <1>4 DEF Path!InQueue
<1> HIDE DEF s
<1>6. \A x \in Entries(pq) : x.data # s
  BY <1>5, QueuedSlot DEF DaemonInv
<1> QED  BY <1>4, <1>6 DEF s

\* Writing a slot disturbs no key: a slot in hand is neither queued nor sent.
LEMMA EarlyFill ==
    ASSUME DaemonInv, EarlyInv, NEW a \in Senders, Fill(a), UNCHANGED <<daemonVars, clock>>
    PROVE  EarlyInv'
<1> DEFINE s == mine[a].slot
<1>0. /\ pq' = pq /\ dpc' = dpc /\ cur' = cur /\ last' = last /\ crossed' = crossed
      /\ clock' = clock /\ asked' = asked /\ ids' = ids
      /\ meta' = [meta EXCEPT ![s] = asked[mine[a].id]]
  BY DEF Fill, daemonVars, seen
<1>1. mine[a] # None /\ mine[a] \in Held /\ cur \in {None} \cup Slots
  <2>1. Path!TypeOK
    BY DEF DaemonInv, Path!PathInv
  <2> QED  BY <2>1, SameConstants DEF Path!TypeOK, Fill
<1>2. s \in Slots /\ mine[a].id \in Ids
  BY <1>1 DEF Held
<1>3. meta' \in [Slots -> U64] /\ asked' \in [Ids -> U64]
  BY <1>0, <1>2 DEF EarlyInv
<1>4. ASSUME ~crossed
      PROVE  /\ \A x \in Entries(pq) : x = Entry(x.data)'
             /\ dpc = "send" => I64(meta'[cur]) <= clock + Delta
  <2>1. cur # s /\ \A x \in Entries(pq) : x.data # s
    BY <1>1, <1>4, WrittenApart
  <2>2. ASSUME NEW x \in Entries(pq)  PROVE x = Entry(x.data)'
    <3>1. x = Entry(x.data) /\ x.data \in Slots
      BY <1>4, QueuedSlot DEF EarlyInv, DaemonInv
    <3>2. meta'[x.data] = meta[x.data]
      BY <1>0, <2>1, <3>1 DEF EarlyInv
    <3> QED  BY <3>1, <3>2 DEF Entry, I64
  <2>3. ASSUME dpc = "send"  PROVE I64(meta'[cur]) <= clock + Delta
    <3>1. cur \in Slots
      <4>1. DpcBar = "send"
        BY <2>3 DEF DpcBar
      <4> QED  BY <4>1, PathTypes DEF DaemonInv
    <3>2. meta'[cur] = meta[cur]
      BY <1>0, <2>1, <3>1 DEF EarlyInv
    <3> QED  BY <1>4, <2>3, <3>2 DEF EarlyInv
  <2> QED  BY <2>2, <2>3
<1>5. ~crossed => (last # None => /\ last.id \in 1..ids
                                  /\ last.at >= I64(asked[last.id]) - Delta)
  BY DEF EarlyInv
<1> QED  BY <1>0, <1>3, <1>4, <1>5 DEF EarlyInv, Entries, I64

\* A new request does not change what was asked for earlier packets.
LEMMA EarlyTake ==
    ASSUME DaemonInv, EarlyInv, NEW a \in Senders, NEW t \in TxTimes, TakeSlot(a, t),
           UNCHANGED <<daemonVars, clock>>
    PROVE  EarlyInv'
<1>0. /\ pq' = pq /\ dpc' = dpc /\ cur' = cur /\ last' = last /\ crossed' = crossed
      /\ clock' = clock /\ meta' = meta /\ ids' = ids + 1 /\ ids < MaxMsgs
      /\ asked' = [asked EXCEPT ![ids + 1] = t]
  BY DEF TakeSlot, daemonVars, seen, pools
<1>1. ids \in Nat /\ ids + 1 \in Ids /\ t \in U64
  <2>1. ids \in 0..MaxMsgs /\ MaxMsgs \in Nat
    BY SendmsgAssumption DEF DaemonInv, Path!PathInv, Path!TypeOK
  <2>2. ids \in Nat /\ ids + 1 \in Ids
    BY <1>0, <2>1 DEF Ids
  <2>3. t \in U64
    BY KtsndAssumption DEF U64
  <2> QED  BY <2>2, <2>3
<1>2. asked' \in [Ids -> U64] /\ meta' \in [Slots -> U64]
  BY <1>0, <1>1 DEF EarlyInv
<1>3. ASSUME ~crossed, last # None
      PROVE  last.id \in 1..(ids + 1) /\ asked'[last.id] = asked[last.id]
  <2>1. last.id \in 1..ids
    BY <1>3 DEF EarlyInv
  <2>2. last.id \in Ids /\ last.id # ids + 1
    BY <1>0, <1>1, <2>1, SendmsgAssumption DEF Ids
  <2>3. asked'[last.id] = asked[last.id]
    BY <1>0, <2>2 DEF EarlyInv
  <2> QED  BY <1>1, <2>1, <2>3
<1>4. ASSUME ~crossed
      PROVE  /\ \A x \in Entries(pq) : x = Entry(x.data)'
             /\ dpc = "send" => I64(meta[cur]) <= clock + Delta
             /\ last # None => last.at >= I64(asked[last.id]) - Delta
  BY <1>0, <1>4 DEF EarlyInv, Entry, I64
<1>5. ASSUME ~crossed, last # None  PROVE last.at >= I64(asked'[last.id]) - Delta
  BY <1>3, <1>4, <1>5 DEF I64
<1> QED  BY <1>0, <1>2, <1>3, <1>4, <1>5 DEF EarlyInv, Entries, I64

\* A step that at most takes entries out of the queue.
LEMMA EarlyQuiet ==
    ASSUME DaemonInv, EarlyInv, UNCHANGED <<meta, asked, ids, last, crossed>>,
           Entries(pq') \subseteq Entries(pq),
           clock' \in Nat, clock' >= clock,
           dpc' = "send" => dpc = "send" /\ cur' = cur
    PROVE  EarlyInv'
<1>0. clock \in Nat /\ Delta \in Nat
  BY KtsndAssumption DEF DaemonInv, LoopInv
<1>1. ASSUME ~crossed, dpc' = "send"  PROVE I64(meta[cur]) <= clock' + Delta
  <2>1. DpcBar = "send" /\ I64(meta[cur]) <= clock + Delta
    BY <1>1 DEF EarlyInv, DpcBar
  <2>2. cur \in Slots
    BY <2>1, PathTypes DEF DaemonInv
  <2>3. I64(meta[cur]) \in Int
    BY <2>2, SignedRange DEF EarlyInv
  <2> QED  BY <1>0, <2>1, <2>3
<1>2. ASSUME ~crossed  PROVE \A x \in Entries(pq') : x = Entry(x.data)'
  BY <1>2 DEF EarlyInv, Entry, I64
<1>3. ~crossed => (last # None => /\ last.id \in 1..ids
                                  /\ last.at >= I64(asked[last.id]) - Delta)
  BY DEF EarlyInv
<1>4. ASSUME dpc' = "send"  PROVE cur' = cur
  BY <1>4
<1>5. Entries(pq)' = Entries(pq')
  BY DEF Entries
<1> QED  BY <1>1, <1>2, <1>3, <1>4, <1>5 DEF EarlyInv, I64

\* The burst's entries get the times in their slots as keys.
LEMMA EarlyDrain ==
    ASSUME DaemonInv, EarlyInv, Drain
    PROVE  EarlyInv'
<1> DEFINE k == Least(TxBurst, Len(tx))
<1>0. /\ tx \in Seq(Slots) /\ Len(tx) \in Nat /\ meta \in [Slots -> Nat] /\ pq \in Queues
  BY PathTypes DEF DaemonInv, LoopInv
<1>1. k \in Nat /\ k <= Len(tx)
  BY <1>0, Constants DEF Least
<1>2. TxTable(k) \in [1..k -> Slots]
  <2>1. \A i \in 1..k : tx[i] \in Slots
    BY <1>0, <1>1
  <2> QED  BY <2>1, Constants DEF TxTable
<1>3. /\ pq' = Inserted(k) /\ dpc' = "check" /\ (~crossed' => ~crossed)
      /\ UNCHANGED <<meta, asked, ids, last>>
  BY DEF Drain, pools, app
<1> HIDE DEF k
<1>4. \A x \in Entries(pq') : x \in Entries(pq) \/ \E j \in 1..k : x = Entry(TxTable(k)[j])
  BY <1>0, <1>1, <1>2, <1>3, BurstInserted DEF Holds
<1>5. ASSUME ~crossed, NEW x \in Entries(pq')  PROVE x = Entry(x.data)
  <2>1. CASE x \in Entries(pq)
    BY <1>5, <2>1 DEF EarlyInv
  <2>2. CASE \E j \in 1..k : x = Entry(TxTable(k)[j])
    BY <2>2 DEF Entry
  <2> QED  BY <1>4, <2>1, <2>2
<1>6. \A s : Entry(s)' = Entry(s)
  BY <1>3 DEF Entry, I64
<1>7. ~crossed => (last # None => /\ last.id \in 1..ids
                                  /\ last.at >= I64(asked[last.id]) - Delta)
  BY DEF EarlyInv
<1>8. Entries(pq)' = Entries(pq')
  BY DEF Entries
<1>9. ASSUME ~crossed', NEW x \in Entries(pq)'  PROVE x = Entry(x.data)'
  BY <1>3, <1>5, <1>6, <1>8, <1>9
<1>10. dpc' # "send"
  BY <1>3
<1>11. ~crossed' => (last' # None => /\ last'.id \in 1..ids'
                                     /\ last'.at >= I64(asked'[last'.id]) - Delta)
  BY <1>3, <1>7
<1>12. (meta \in [Slots -> U64])' /\ (asked \in [Ids -> U64])'
  BY <1>3 DEF EarlyInv
<1> QED  BY <1>9, <1>10, <1>11, <1>12 DEF EarlyInv, I64

\* The root is an entry, and without it there are no others.
LEMMA RootEntry ==
    ASSUME LoopInv, ~IsEmpty(pq)
    PROVE  /\ Head(pq) \in Entries(pq) /\ GetMin(pq) = Head(pq).prio
           /\ Entries(ExtractMin(pq)) \subseteq Entries(pq)
<1>0. pq \in Seq(Nodes(Slots)) /\ Len(pq) \in Nat /\ Len(pq) # 0
  BY DEF LoopInv, Queues, IsEmpty
<1>1. Head(pq) = pq[1] /\ 1 \in 1..Len(pq)
  BY <1>0
<1>2. GetMin(pq) = Head(pq).prio
  BY <1>1 DEF GetMin, Prio
<1>3. /\ Shuffle(ExtractMin(pq), Tail(pq))
      /\ Len(Tail(pq)) = Len(pq) - 1 /\ \A k \in 1..(Len(pq) - 1) : Tail(pq)[k] = pq[k + 1]
  BY <1>0, ExtractShuffles, RootedEntries
<1>4. Entries(ExtractMin(pq)) = Entries(Tail(pq))
  BY <1>3, ShuffleEntries
<1>5. Entries(Tail(pq)) \subseteq Entries(pq)
  <2> SUFFICES ASSUME NEW k \in 1..Len(Tail(pq))  PROVE Tail(pq)[k] \in Entries(pq)
    BY DEF Entries
  <2>1. k \in 1..(Len(pq) - 1) /\ k + 1 \in 1..Len(pq)
    BY <1>0, <1>3
  <2> QED  BY <1>3, <2>1 DEF Entries
<1> QED  BY <1>1, <1>2, <1>4, <1>5 DEF Entries

\* The root is taken out only when it is due, by a key that is its time.
LEMMA EarlyDue ==
    ASSUME DaemonInv, EarlyInv, CheckDue
    PROVE  EarlyInv'
<1>0. /\ dpc' = "send" /\ cur' = Head(pq).data /\ pq' = ExtractMin(pq) /\ ~IsEmpty(pq)
      /\ Diff \in 0..Delta /\ UNCHANGED <<meta, asked, ids, last, crossed, clock>>
  BY DEF CheckDue, RootSlot, sendVars, pools, app, seen
<1>1. /\ Head(pq) \in Entries(pq) /\ GetMin(pq) = Head(pq).prio
      /\ Entries(pq') \subseteq Entries(pq)
  BY <1>0, RootEntry DEF DaemonInv
<1>2. ASSUME ~crossed  PROVE I64(meta[Head(pq).data]) <= clock + Delta
  <2> DEFINE s == Head(pq).data
             g == I64(meta[s])
  <2>1. Head(pq) = Entry(s) /\ s \in Slots
    BY <1>1, <1>2, QueuedSlot DEF EarlyInv, DaemonInv
  <2>2. GetMin(pq) = g
    BY <1>1, <2>1 DEF Entry
  <2>3. g \in Int /\ g < Half
    BY <2>1, SignedRange DEF EarlyInv
  <2>4. Diff <= Delta /\ clock \in Nat
    BY <1>0, KtsndAssumption DEF DaemonInv, LoopInv
  <2> HIDE DEF g
  <2>5. g <= clock + Delta
    BY <2>2, <2>3, <2>4, DiffBound
  <2> QED  BY <2>5 DEF g
<1>3. ~crossed => (last # None => /\ last.id \in 1..ids
                                  /\ last.at >= I64(asked[last.id]) - Delta)
  BY DEF EarlyInv
<1>4. Entries(pq)' = Entries(pq') /\ \A s : Entry(s)' = Entry(s)
  BY <1>0 DEF Entries, Entry, I64
<1>5. ASSUME ~crossed  PROVE \A x \in Entries(pq') : x = Entry(x.data)
  BY <1>1, <1>5 DEF EarlyInv
<1> QED  BY <1>0, <1>2, <1>3, <1>4, <1>5 DEF EarlyInv, I64

\* What goes out is not earlier than the check allowed: the clock moved on.
LEMMA EarlyTransmit ==
    ASSUME DaemonInv, EarlyInv, Transmit
    PROVE  EarlyInv'
<1>0. /\ dpc = "send" /\ dpc' = "recycle"
      /\ UNCHANGED <<meta, asked, ids, crossed, clock, pq>>
  BY DEF Transmit, shm, pools, app
<1>1. /\ \/ last' = last
         \/ last' = [id |-> mbuf[cur], txtime |-> meta[cur], at |-> clock]
  BY DEF Transmit
<1>2. DpcBar = "send" /\ cur \in Slots
  BY <1>0, PathTypes DEF DpcBar, DaemonInv
<1>3. ASSUME ~crossed, last' = [id |-> mbuf[cur], txtime |-> meta[cur], at |-> clock]
      PROVE  last'.id \in 1..ids /\ last'.at >= I64(asked[last'.id]) - Delta
  <2>1. mbuf[cur] \in 1..ids /\ meta[cur] = asked[mbuf[cur]]
    <3>1. Path!InFlight(cur)
      BY <1>2 DEF Path!InFlight
    <3>2. Path!Contents
      BY <1>3 DEF DaemonInv, Path!PathInv
    <3> QED  BY <1>2, <3>1, <3>2, SameConstants DEF Path!Contents
  <2>2. I64(meta[cur]) <= clock + Delta /\ I64(meta[cur]) \in Int
    BY <1>0, <1>2, <1>3, SignedRange DEF EarlyInv
  <2>3. clock >= I64(meta[cur]) - Delta
    BY <2>2, KtsndAssumption DEF DaemonInv, LoopInv
  <2> QED  BY <1>3, <2>1, <2>3
<1>4. ~crossed => (last # None => /\ last.id \in 1..ids
                                  /\ last.at >= I64(asked[last.id]) - Delta)
  BY DEF EarlyInv
<1>5. Entries(pq)' = Entries(pq) /\ \A s : Entry(s)' = Entry(s)
  BY <1>0 DEF Entries, Entry, I64
<1>6. ~crossed => (last' # None => /\ last'.id \in 1..ids
                                   /\ last'.at >= I64(asked[last'.id]) - Delta)
  BY <1>1, <1>3, <1>4
<1> QED  BY <1>0, <1>5, <1>6 DEF EarlyInv, I64

\* EarlyInv is kept by every step.
LEMMA EarlyStep ==
    ASSUME DaemonInv, EarlyInv, [Next]_vars
    PROVE  EarlyInv'
<1>0. clock \in Nat
  BY DEF DaemonInv, LoopInv
<1>1. ASSUME NEW a \in Senders, SendStep(a), UNCHANGED <<daemonVars, clock>>
      PROVE  EarlyInv'
  <2>1. CASE Post(a) \/ Die(a)
    <3>1. /\ UNCHANGED <<meta, asked, ids, last, crossed>> /\ pq' = pq /\ clock' = clock
          /\ dpc' = dpc /\ cur' = cur
      BY <1>1, <2>1 DEF Post, Die, pools, daemonVars, seen
    <3> QED  BY <1>0, <3>1, EarlyQuiet
  <2> QED  BY <1>1, <2>1, EarlyFill, EarlyTake DEF SendStep
<1>2. CASE CheckLate
  <2>1. Entries(pq') \subseteq Entries(pq)
    BY <1>2, RootEntry DEF CheckLate, DaemonInv
  <2>2. UNCHANGED <<meta, asked, ids, last, crossed>> /\ clock' = clock /\ dpc' = "drain"
    BY <1>2 DEF CheckLate, shm, pools, app
  <2> QED  BY <1>0, <2>1, <2>2, EarlyQuiet
<1>3. CASE \/ CheckWait \/ TransmitNull \/ Sigint \/ Leave \/ NicReclaim \/ Recycle
           \/ UNCHANGED vars
  <2>1. /\ UNCHANGED <<meta, asked, ids, last, crossed>> /\ pq' = pq /\ clock' = clock
        /\ dpc' = "send" => dpc = "send" /\ cur' = cur
    BY <1>3 DEF CheckWait, TransmitNull, Sigint, Leave, NicReclaim, Recycle, vars,
                daemonVars, seen, sendVars, pools, app
  <2> QED  BY <1>0, <2>1, EarlyQuiet
<1>4. CASE Tick
  <2>1. /\ UNCHANGED <<meta, asked, ids, last, crossed>> /\ pq' = pq /\ clock' = clock + 1
        /\ dpc' = dpc /\ cur' = cur
    BY <1>4 DEF Tick, daemonVars, seen, sendVars, pools, app
  <2> QED  BY <1>0, <2>1, EarlyQuiet
<1> QED  BY <1>1, <1>2, <1>3, <1>4, EarlyDrain, EarlyDue, EarlyTransmit
            DEF Next, DaemonStep

\* It holds at the start.
LEMMA EarlyInit == Init => EarlyInv
<1> SUFFICES ASSUME Init  PROVE EarlyInv
  OBVIOUS
<1>1. /\ meta = [s \in Slots |-> 0] /\ asked = [i \in Ids |-> 0] /\ pq = << >>
      /\ dpc = "drain" /\ last = None
  BY DEF Init, SendInit
<1>2. 0 \in U64
  BY KtsndAssumption DEF U64
<1>3. Entries(pq) = {}
  BY <1>1 DEF Entries
<1> QED  BY <1>1, <1>2, <1>3 DEF EarlyInv

-----------------------------------------------------------------------------
(***************************************************************************)
(* The proofs about SlotPath, for the slots of this daemon                 *)
(***************************************************************************)
Slot == INSTANCE SlotPathProofs WITH queue <- QueueBar, queued <- Len(pq),
                                     dpc <- DpcBar, last <- LastBar

\* Its definitions are those of Path.
LEMMA SlotCardinality ==
    ASSUME NEW S
    PROVE  Path!Cardinality(S) = Slot!Cardinality(S)
  BY DEF Path!Cardinality, Slot!Cardinality

\* The constants of the two instances of SlotPath are the same.
LEMMA SlotConstants ==
    /\ Path!Capacity = Slot!Capacity /\ Path!Slots = Slot!Slots
    /\ Path!Ids = Slot!Ids /\ Path!Held = Slot!Held
    /\ Slot!IsFiniteSet(Senders) <=> IsFiniteSet(Senders)
  BY DEF Path!Capacity, Slot!Capacity, Path!Slots, Slot!Slots, Path!Ids, Slot!Ids,
         Path!Held, Slot!Held, Slot!IsFiniteSet, IsFiniteSet

\* So are the initial states,
LEMMA SameInit == Path!Init <=> Slot!Init
  BY SlotConstants DEF Path!Init, Slot!Init, Path!SendInit, Slot!SendInit

\* the variables,
LEMMA SameVars == Path!vars = Slot!vars
  BY DEF Path!vars, Slot!vars, Path!sendVars, Slot!sendVars, Path!daemon, Slot!daemon,
         Path!pools, Slot!pools, Path!app, Slot!app

\* the steps of an application,
LEMMA SameSend == ASSUME NEW a PROVE Path!SendStep(a) <=> Slot!SendStep(a)
  BY SlotConstants DEF Path!SendStep, Slot!SendStep, Path!TakeSlot, Slot!TakeSlot,
         Path!Fill, Slot!Fill, Path!Post, Slot!Post, Path!Die, Slot!Die,
         Path!pools, Slot!pools

\* the dequeue of a burst,
LEMMA SameDrain == Path!Drain <=> Slot!Drain
<1>1. \A x, y : Path!Least(x, y) = Slot!Least(x, y)
  BY DEF Path!Least, Slot!Least
<1>2. \A k, n, s : Path!Copies(k, n, s) = Slot!Copies(k, n, s)
  BY SlotCardinality DEF Path!Copies, Slot!Copies, Path!TxTable, Slot!TxTable
<1> QED  BY <1>1, <1>2, SlotConstants
            DEF Path!Drain, Slot!Drain, Path!pools, Slot!pools, Path!app, Slot!app

\* the next-state relation,
LEMMA SameNext == Path!Next <=> Slot!Next
<1>1. Path!Transmit <=> Slot!Transmit
  BY DEF Path!Transmit, Slot!Transmit, Path!pools, Slot!pools, Path!app, Slot!app
<1>2. Path!Recycle <=> Slot!Recycle
  BY SlotConstants
     DEF Path!Recycle, Slot!Recycle, Path!pools, Slot!pools, Path!app, Slot!app
<1>3. ASSUME NEW s
      PROVE  (Path!DropLate(s) <=> Slot!DropLate(s)) /\ (Path!Extract(s) <=> Slot!Extract(s))
  BY DEF Path!DropLate, Slot!DropLate, Path!Extract, Slot!Extract,
         Path!Leaves, Slot!Leaves, Path!pools, Slot!pools, Path!app, Slot!app,
         Path!sendVars, Slot!sendVars
<1>4. (UNCHANGED Path!daemon) <=> (UNCHANGED Slot!daemon)
  BY DEF Path!daemon, Slot!daemon
<1> QED  BY <1>1, <1>2, <1>3, <1>4, SameSend, SameDrain, SlotConstants
            DEF Path!Next, Slot!Next

\* and the invariants.
LEMMA SameInvariants ==
    /\ Path!PathInv <=> Slot!PathInv
    /\ Path!SlotCount <=> Slot!SlotCount
    /\ Path!NothingOverflows <=> Slot!NothingOverflows
    /\ Path!OneOwner <=> Slot!OneOwner
    /\ Path!WireFaithful <=> Slot!WireFaithful
<1>1. Path!Holders = Slot!Holders /\ Path!Holding = Slot!Holding
  BY DEF Path!Holders, Slot!Holders, Path!Holding, Slot!Holding
<1>2. Path!SlotCount <=> Slot!SlotCount
  BY <1>1, SlotCardinality, SlotConstants DEF Path!SlotCount, Slot!SlotCount
<1>3. Path!NothingOverflows <=> Slot!NothingOverflows
  BY DEF Path!NothingOverflows, Slot!NothingOverflows
<1>4. Path!Apart <=> Slot!Apart
  BY <1>1, SlotConstants
     DEF Path!Apart, Slot!Apart, Path!Distinct, Slot!Distinct, Path!In, Slot!In,
         Path!InQueue, Slot!InQueue, Path!InHand, Slot!InHand
<1>5. Path!Contents <=> Slot!Contents
  BY <1>1, SlotConstants
     DEF Path!Contents, Slot!Contents, Path!In, Slot!In, Path!InQueue, Slot!InQueue,
         Path!InFlight, Slot!InFlight
<1>6. Path!TypeOK <=> Slot!TypeOK
  BY SlotConstants DEF Path!TypeOK, Slot!TypeOK
<1>7. Path!WireFaithful <=> Slot!WireFaithful
  BY SlotConstants DEF Path!WireFaithful, Slot!WireFaithful
<1> QED  BY <1>2, <1>3, <1>4, <1>5, <1>6, <1>7
            DEF Path!PathInv, Slot!PathInv, Path!OneOwner, Slot!OneOwner

\* The assumptions of SlotPath hold of the instance.
LEMMA SlotAssumption ==
    /\ Slot!IsFiniteSet(Senders) /\ Mortal \subseteq Senders
    /\ RingSize \in Nat \ {0, 1} /\ TxBurst \in Nat \ {0}
    /\ TxTimes \subseteq Nat /\ MaxMsgs \in Nat
    /\ None \notin Slot!Slots \cup Slot!Held
  BY SendmsgAssumption, SameConstants, SlotConstants

\* The start of the daemon is a start of SlotPath.
LEMMA DaemonInit == Init => Path!Init /\ DaemonInv
<1> SUFFICES ASSUME Init  PROVE Path!Init /\ DaemonInv
  OBVIOUS
<1>1. pq = << >> /\ dpc = "drain" /\ clock = 0 /\ last = None
  BY DEF Init
<1>2. LoopInv
  <2>1. Len(pq) = 0 /\ pq \in Seq(Nodes(Slots))
    BY <1>1
  <2> QED  BY <1>1, <2>1, Constants DEF LoopInv, Queues
<1>3. QueueBar = [s \in Slots |-> 0]
  <2>1. \A s \in Slots : {i \in 1..Len(pq) : pq[i].data = s} = {}
    BY <1>1
  <2> QED  BY <2>1, FS_EmptySet DEF QueueBar
<1>4. Len(pq) = 0 /\ DpcBar = "poll" /\ LastBar = None
  BY <1>1 DEF DpcBar, LastBar
<1>5. Path!Init
  BY <1>3, <1>4, SameConstants DEF Init, SendInit, Path!Init, Path!SendInit
<1>6. Path!PathInv
  BY <1>5, SameInit, SameInvariants, SlotAssumption, Slot!InitPath
<1> QED  BY <1>2, <1>5, <1>6 DEF DaemonInv

\* The two instances agree after a step as before it.
LEMMA SameAfter == Path!PathInv' <=> Slot!PathInv'
  BY SameInvariants, PTL

\* A step of one instance is a step of the other.
LEMMA SameStep == [Path!Next]_Path!vars => [Slot!Next]_Slot!vars
<1>1. Path!vars' = Slot!vars'
  BY DEF Path!vars, Slot!vars, Path!sendVars, Slot!sendVars, Path!daemon, Slot!daemon,
         Path!pools, Slot!pools, Path!app, Slot!app
<1> QED  BY <1>1, SameVars, SameNext

\* Every step of the daemon is one of SlotPath or stutters, and DaemonInv stays.
LEMMA DaemonStepInv ==
    ASSUME DaemonInv, [Next]_vars
    PROVE  DaemonInv' /\ [Path!Next]_Path!vars
<1>1. [Path!Next]_Path!vars /\ pq' \in Queues
  BY StepPath DEF DaemonInv
<1>2. Slot!PathInv /\ [Slot!Next]_Slot!vars
  BY <1>1, SameStep, SameInvariants DEF DaemonInv
<1>3. Slot!PathInv'
  BY <1>2, SlotAssumption, Slot!StepInv
<1>4. Path!PathInv'
  BY <1>3, SameAfter
<1>5. dpc' \in {"drain", "check", "send", "recycle", "segv", "exit"} /\ clock' \in Nat
  <2>0. dpc \in {"drain", "check", "send", "recycle", "segv", "exit"} /\ clock \in Nat
    BY DEF DaemonInv, LoopInv
  <2>1. CASE DaemonStep
    BY <2>0, <2>1 DEF DaemonStep, Drain, CheckWait, CheckLate, CheckDue, Transmit,
                      TransmitNull, Recycle, Leave
  <2>2. CASE Sigint \/ NicReclaim \/ Tick
    BY <2>0, <2>2 DEF Sigint, NicReclaim, Tick, daemonVars
  <2>3. CASE \/ (\E a \in Senders : SendStep(a)) /\ UNCHANGED <<daemonVars, clock>>
             \/ UNCHANGED vars
    BY <2>0, <2>3 DEF vars, daemonVars
  <2> QED  BY <2>1, <2>2, <2>3 DEF Next
<1> QED  BY <1>1, <1>4, <1>5 DEF DaemonInv, LoopInv

\* DaemonInv holds throughout: in every state of the loop SlotPath's invariant
\* holds under the mapping, and the heap is a queue of slots.
THEOREM DaemonInvariant == Spec => []DaemonInv
<1>1. Init => DaemonInv
  BY DaemonInit
<1>2. DaemonInv /\ [Next]_vars => DaemonInv'
  BY DaemonStepInv
<1> QED  BY <1>1, <1>2, PTL DEF Spec

\* The daemon moves slots as SlotPath says (RefinesSlotPath).
THEOREM LoopRefines == Spec => RefinesSlotPath
<1>1. Init => Path!Init
  BY DaemonInit
<1>2. DaemonInv /\ [Next]_vars => [Path!Next]_Path!vars
  BY DaemonStepInv
<1> QED  BY <1>1, <1>2, DaemonInvariant, PTL DEF Spec, RefinesSlotPath, Path!Spec

\* SlotPath's inductive invariant holds of the daemon.
THEOREM LoopPathInv == Spec => []PathInv
<1>1. DaemonInv => PathInv
  BY DEF DaemonInv, PathInv
<1> QED  BY <1>1, DaemonInvariant, PTL

\* Slots are conserved but for late packets.
THEOREM LoopConserves == Spec => []SlotCount
<1>1. DaemonInv => SlotCount
  BY DEF DaemonInv, SlotCount, Path!PathInv
<1> QED  BY <1>1, DaemonInvariant, PTL

\* The results the loop and sendmsg ignore are no failures.
THEOREM LoopNoOverflow == Spec => []NothingOverflows
<1>1. DaemonInv => NothingOverflows
  BY DEF DaemonInv, NothingOverflows, Path!PathInv
<1> QED  BY <1>1, DaemonInvariant, PTL

\* A slot has one owner until a burst runs past the end of tx_ring.
THEOREM LoopOneOwner == Spec => []OneOwner
<1>1. DaemonInv => OneOwner
  BY DEF DaemonInv, OneOwner, Path!OneOwner, Path!PathInv
<1> QED  BY <1>1, DaemonInvariant, PTL

\* A packet goes out once, with the txtime that was asked for it.
THEOREM LoopWireFaithful == Spec => []WireFaithful
<1>1. DaemonInv => WireFaithful
  <2> SUFFICES ASSUME Path!PathInv  PROVE Path!WireFaithful
    BY DEF DaemonInv, WireFaithful
  <2> SUFFICES ASSUME ~crossed
               PROVE  /\ LastBar # None => /\ LastBar.id \in Path!Ids
                                           /\ LastBar.txtime = asked[LastBar.id]
                      /\ \A i \in Path!Ids : fate[i] # "twice"
    BY DEF Path!WireFaithful
  <2>1. Path!Contents /\ ids \in 0..MaxMsgs
    BY DEF Path!PathInv, Path!TypeOK
  <2>2. 1..ids \subseteq Path!Ids
    BY <2>1, SendmsgAssumption DEF Path!Ids
  <2> QED  BY <2>1, <2>2 DEF Path!Contents
<1> QED  BY <1>1, DaemonInvariant, PTL

\* Until a burst runs past the end of tx_ring, no packet is put on the wire
\* earlier than tx_delta_ns before its time (NotEarly), although the heap may
\* be out of order and the difference of the two times may wrap around.
THEOREM NeverEarly == Spec => []NotEarly
<1>1. EarlyInv => NotEarly
  BY DEF EarlyInv, NotEarly
<1>2. DaemonInv /\ EarlyInv /\ [Next]_vars => EarlyInv'
  BY EarlyStep
<1> QED  BY <1>1, <1>2, EarlyInit, DaemonInvariant, PTL DEF Spec
=============================================================================
