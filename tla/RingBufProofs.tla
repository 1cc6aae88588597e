--------------------------- MODULE RingBufProofs ----------------------------
(***************************************************************************)
(* Proofs about RingBuf for every ring size, every number of producers and *)
(* consumers, every burst size and every counter width.                    *)
(***************************************************************************)
EXTENDS RingBuf, TLAPS

-----------------------------------------------------------------------------
(***************************************************************************)
(* Arithmetic: division with remainder, and what u32 differences yield.    *)
(***************************************************************************)

\* The remainder is in range and the quotient an integer.
LEMMA DivMod ==
    \A M \in Nat \ {0}, x \in Int :
        /\ x % M \in 0..(M - 1)
        /\ x \div M \in Int
        /\ x = M * (x \div M) + (x % M)
OBVIOUS

\* The only multiple of M strictly between -M and M is 0.
LEMMA SmallMultiple ==
    \A M \in Nat \ {0}, j \in Int : M * j < M /\ 0 - M < M * j => j = 0
OBVIOUS

\* The difference of two numbers, from their quotients and remainders.
LEMMA DivDifference ==
    \A M, a, b, q, s, i, j \in Int :
        a = M * q + i /\ b = M * s + j => M * (q - s) = (a - b) - (i - j)
OBVIOUS

\* Quotient and remainder are unique.
LEMMA ModUnique ==
    ASSUME NEW M \in Nat \ {0}, NEW k \in Int, NEW r \in 0..(M - 1),
           NEW x \in Int, x = M * k + r
    PROVE  x % M = r
<1> DEFINE q == x \div M
           s == x % M
<1>1. s \in 0..(M - 1) /\ q \in Int /\ x = M * q + s
  BY DivMod
<1> HIDE DEF q, s
<1>2. M * (k - q) = s - r
  BY <1>1
<1>3. s - r < M /\ 0 - M < s - r
  BY <1>1
<1>4. k - q = 0
  BY <1>1, <1>2, <1>3, SmallMultiple
<1>5. s = r
  BY <1>1, <1>4
<1> QED
  BY <1>5 DEF s

\* What the constants are.
LEMMA Constants ==
    /\ Size \in Nat \ {0} /\ Modulus \in Nat \ {0} /\ Capacity \in Nat
    /\ Size <= Modulus /\ Capacity < Modulus
    /\ MaxPut \in Nat \ {0} /\ MaxTake \in Nat \ {0}
<1>1. PICK k \in 1..Modulus : Modulus = k * Size
  BY RingAssumption
<1>2. k * Size >= Size
  BY <1>1, RingAssumption
<1> QED
  BY <1>1, <1>2, RingAssumption DEF Capacity

\* A u32 counter is a natural number below Modulus.
LEMMA U32Type == \A x \in Int : U32(x) \in Nat /\ U32(x) < Modulus
BY Constants, DivMod DEF U32

\* Two counters and their u32 values differ by the same amount up to laps.
LEMMA U32Laps ==
    ASSUME NEW a \in Nat, NEW b \in Nat
    PROVE  \E k \in Int : Modulus * k = (a - b) - (U32(a) - U32(b))
<1> DEFINE q == a \div Modulus
           s == b \div Modulus
           i == U32(a)
           j == U32(b)
<1>1. q \in Int /\ i \in Int /\ a = Modulus * q + i
  BY DivMod, Constants DEF U32
<1>2. s \in Int /\ j \in Int /\ b = Modulus * s + j
  BY DivMod, Constants DEF U32
<1> HIDE DEF q, s, i, j
<1>3. Modulus * (q - s) = (a - b) - (i - j)
  BY <1>1, <1>2, Constants, DivDifference
<1>4. q - s \in Int
  BY <1>1, <1>2
<1> QED
  BY <1>3, <1>4 DEF i, j

\* Counters less than a lap apart that are equal as u32 are equal.
LEMMA U32Equal ==
    ASSUME NEW a \in Nat, NEW b \in Nat, b <= a, a - b < Modulus,
           U32(a) = U32(b)
    PROVE  a = b
<1>1. PICK k \in Int : Modulus * k = (a - b) - (U32(a) - U32(b))
  BY U32Laps
<1>2. Modulus * k = a - b
  BY <1>1, U32Type
<1>3. k = 0
  BY <1>2, Constants, SmallMultiple
<1> QED
  BY <1>2, <1>3, Constants

\* The u32 expression c - (a - b) is exact when its value is in range.
LEMMA U32Difference ==
    ASSUME NEW a \in Nat, NEW b \in Nat, NEW c \in Nat,
           0 <= c - (a - b), c - (a - b) < Modulus
    PROVE  U32(c - (U32(a) - U32(b))) = c - (a - b)
<1>1. PICK k \in Int : Modulus * k = (a - b) - (U32(a) - U32(b))
  BY U32Laps
<1> DEFINE y == c - (U32(a) - U32(b))
           r == c - (a - b)
<1>2. y \in Int /\ r \in 0..(Modulus - 1)
  BY Constants, U32Type
<1>3. y = Modulus * k + r
  BY <1>1, U32Type
<1> HIDE DEF y, r
<1>4. y % Modulus = r
  BY <1>2, <1>3, Constants, ModUnique
<1> QED
  BY <1>4 DEF y, r, U32

\* free_entries is exact while the head is within one capacity of cons.tail.
LEMMA FreeEntriesExact ==
    ASSUME NEW h \in Nat, NEW t \in Nat, t <= h, h <= t + Capacity
    PROVE  FreeEntries(h, t) = Capacity - (h - t)
BY U32Difference, Constants DEF FreeEntries

\* entries is exact while the head is within one capacity of prod.tail.
LEMMA EntriesExact ==
    ASSUME NEW h \in Nat, NEW t \in Nat, h <= t, t <= h + Capacity
    PROVE  Entries(t, h) = t - h
<1>1. U32(0 - (U32(h) - U32(t))) = 0 - (h - t)
  BY U32Difference, Constants
<1>2. 0 - (U32(h) - U32(t)) = U32(t) - U32(h)
  BY U32Type
<1> QED
  BY <1>1, <1>2 DEF Entries

\* Both are natural numbers whatever the counters are.
LEMMA AvailableType ==
    \A h, t \in Nat : FreeEntries(h, t) \in Nat /\ Entries(t, h) \in Nat
BY U32Type, Constants DEF FreeEntries, Entries

-----------------------------------------------------------------------------
(***************************************************************************)
(* ClaimInv is inductive.  One lemma per action; producers and consumers   *)
(* are different processes, so an action of one side leaves the windows    *)
(* and claims of the other side alone but for the counter it moves.        *)
(***************************************************************************)

\* The initial state satisfies the invariant.
LEMMA ClaimInit == Init => ClaimInv
<1> SUFFICES ASSUME Init PROVE ClaimInv
  OBVIOUS
<1>1. TypeOK
  <2>1. << >> \in Seq(Content) /\ << >> \in Seq(Values) /\ Len(<< >>) = 0
    OBVIOUS
  <2>2. /\ prod \in HeadTail /\ cons \in HeadTail
        /\ ring \in [0..(Cells - 1) -> Content]
        /\ old \in [Procs -> Nat] /\ n \in [Procs -> Nat]
        /\ max \in [Consumers -> 0..MaxTake]
    BY Constants DEF Init, HeadTail, Content
  <2>3. /\ pc \in [Procs -> {"idle", "count"} \cup EnqLabels \cup DeqLabels]
        /\ \A p \in Producers : pc[p] \in {"idle", "count"} \cup EnqLabels
        /\ \A c \in Consumers : pc[c] \in {"idle", "count"} \cup DeqLabels
        /\ crashed \in SUBSET Procs
        /\ crossed \in BOOLEAN
    BY DEF Init, Procs
  <2>4. /\ tbl \in [Procs -> Seq(Content)]
        /\ \A p \in Producers : tbl[p] \in Seq(Values) /\ Len(tbl[p]) <= MaxPut
        /\ log \in Seq(Values)
    BY <2>1, Constants DEF Init, Procs
  <2> QED
    BY <2>2, <2>3, <2>4 DEF TypeOK
<1>2. RingOrder
  BY Constants DEF Init, RingOrder
<1>3. EnqClaims
  BY DEF Init, EnqClaims, EnqWindow, EnqRange, EnqDisjoint, EnqCover, Procs,
         InEnqWindow, EnqClaim
<1>4. DeqClaims
  BY DEF Init, DeqClaims, DeqWindow, DeqRange, DeqDisjoint, DeqCover, Procs,
         InDeqWindow, DeqClaim
<1> QED
  BY <1>1, <1>2, <1>3, <1>4 DEF ClaimInv

\* Claims of producers that no step touches, on counters that do not move,
\* still tile prod.tail..prod.head-1.
LEMMA EnqTilingFrame ==
    ASSUME EnqRange, EnqDisjoint, EnqCover, prod' = prod,
           \A q \in Producers :
               /\ EnqClaim(q)' <=> EnqClaim(q)
               /\ EnqClaim(q) => /\ old'[q] = old[q] /\ n'[q] = n[q]
                                 /\ tbl'[q] = tbl[q]
    PROVE  EnqRange' /\ EnqDisjoint' /\ EnqCover'
<1>1. EnqRange'
  BY DEF EnqRange
<1>2. EnqDisjoint'
  BY DEF EnqDisjoint, Apart
<1>3. EnqCover'
  <2> SUFFICES ASSUME NEW x \in prod.tail..(prod.head - 1)
               PROVE  \E q \in Producers : EnqClaim(q)' /\ Covers(q, x)'
    BY DEF EnqCover
  <2>1. PICK q \in Producers : EnqClaim(q) /\ Covers(q, x)
    BY DEF EnqCover
  <2> QED
    BY <2>1 DEF Covers
<1> QED
  BY <1>1, <1>2, <1>3

\* The same for consumers and cons.tail..cons.head-1.
LEMMA DeqTilingFrame ==
    ASSUME DeqRange, DeqDisjoint, DeqCover, cons' = cons,
           \A d \in Consumers :
               /\ DeqClaim(d)' <=> DeqClaim(d)
               /\ DeqClaim(d) => old'[d] = old[d] /\ n'[d] = n[d]
    PROVE  DeqRange' /\ DeqDisjoint' /\ DeqCover'
<1>1. DeqRange'
  BY DEF DeqRange
<1>2. DeqDisjoint'
  BY DEF DeqDisjoint, Apart
<1>3. DeqCover'
  <2> SUFFICES ASSUME NEW x \in cons.tail..(cons.head - 1)
               PROVE  \E d \in Consumers : DeqClaim(d)' /\ Covers(d, x)'
    BY DEF DeqCover
  <2>1. PICK d \in Consumers : DeqClaim(d) /\ Covers(d, x)
    BY DEF DeqCover
  <2> QED
    BY <2>1 DEF Covers
<1> QED
  BY <1>1, <1>2, <1>3

\* A step that leaves prod and the producers alone and does not move
\* cons.tail back preserves everything about producers.
LEMMA EnqFrame ==
    ASSUME TypeOK, TypeOK', EnqClaims, prod' = prod, cons.tail <= cons'.tail,
           crashed \subseteq crashed',
           \A q \in Producers : /\ pc'[q] = pc[q] /\ old'[q] = old[q]
                                /\ n'[q] = n[q] /\ tbl'[q] = tbl[q]
    PROVE  EnqClaims'
<1>1. EnqRange' /\ EnqDisjoint' /\ EnqCover'
  BY EnqTilingFrame DEF EnqClaims, EnqClaim
<1>2. EnqWindow'
  BY Constants DEF EnqClaims, EnqWindow, InEnqWindow, TypeOK, HeadTail, Procs
<1> QED
  BY <1>1, <1>2 DEF EnqClaims

\* The same for consumers and prod.tail.
LEMMA DeqFrame ==
    ASSUME TypeOK, TypeOK', DeqClaims, cons' = cons, prod.tail <= prod'.tail,
           crashed \subseteq crashed',
           \A d \in Consumers : /\ pc'[d] = pc[d] /\ old'[d] = old[d]
                                /\ n'[d] = n[d]
    PROVE  DeqClaims'
<1>1. DeqRange' /\ DeqDisjoint' /\ DeqCover'
  BY DeqTilingFrame DEF DeqClaims, DeqClaim
<1>2. DeqWindow'
  BY Constants DEF DeqClaims, DeqWindow, InDeqWindow, TypeOK, HeadTail, Procs
<1> QED
  BY <1>1, <1>2 DEF DeqClaims

-----------------------------------------------------------------------------
\* Starting an enqueue loads the current head.
LEMMA ClaimEnqStart ==
    ASSUME ClaimInv, NEW p \in Producers, NEW t \in PutTables, EnqStart(p, t)
    PROVE  ClaimInv'
<1> USE DEF ClaimInv, EnqStart, At, Goto
<1>0. p \in Procs /\ p \notin Consumers
  BY RingAssumption DEF Procs
<1>1. t \in Seq(Values) /\ t \in Seq(Content) /\ Len(t) <= MaxPut
  BY Constants DEF PutTables, Content
<1>2. TypeOK'
  BY <1>0, <1>1, RingAssumption DEF TypeOK, HeadTail, Procs, EnqLabels, DeqLabels
<1>3. RingOrder'
  BY DEF RingOrder
<1>4. EnqWindow'
  BY <1>0, Constants DEF EnqClaims, EnqWindow, InEnqWindow, TypeOK, HeadTail
<1>5. EnqRange' /\ EnqDisjoint' /\ EnqCover'
  BY <1>0, EnqTilingFrame DEF EnqClaims, EnqClaim, TypeOK
<1>6. DeqClaims'
  <2>1. \A d \in Consumers : pc'[d] = pc[d] /\ old'[d] = old[d] /\ n'[d] = n[d]
    BY <1>0 DEF TypeOK, Procs
  <2>2. cons' = cons /\ prod.tail <= prod'.tail /\ crashed \subseteq crashed'
    BY <1>0 DEF TypeOK, HeadTail
  <2> QED  BY <1>2, <2>1, <2>2, DeqFrame
<1> QED
  BY <1>2, <1>3, <1>4, <1>5, <1>6 DEF EnqClaims

\* The n taken from cons.tail fits if old_head is the head: free_entries is
\* then exact, and cons.tail can only grow until the CAS.
LEMMA ClaimEnqLoadTail ==
    ASSUME ClaimInv, NEW p \in Producers, EnqLoadTail(p)
    PROVE  ClaimInv'
<1> USE DEF ClaimInv, At, Goto
<1> DEFINE k == Least(Len(tbl[p]), FreeEntries(old[p], cons.tail))
<1>0. p \in Procs /\ p \notin Consumers /\ pc[p] = "prodTail"
  BY RingAssumption DEF Procs, EnqLoadTail
<1>1. /\ k \in Nat /\ k <= Len(tbl[p])
      /\ k <= FreeEntries(old[p], cons.tail)
      /\ FreeEntries(old[p], cons.tail) \in Nat
  <2>1. FreeEntries(old[p], cons.tail) \in Nat
    BY <1>0, AvailableType DEF TypeOK, HeadTail
  <2>2. Len(tbl[p]) \in Nat
    BY <1>0 DEF TypeOK
  <2> QED
    BY <2>1, <2>2 DEF Least
<1>2. old[p] = prod.head => prod.head + k <= cons.tail + Capacity
  <2>1. prod.head \in Nat /\ cons.tail \in Nat /\ Capacity \in Nat
    BY Constants DEF TypeOK, HeadTail
  <2>2. cons.tail <= prod.head /\ prod.head <= cons.tail + Capacity
    BY DEF RingOrder, TypeOK, HeadTail
  <2>3. old[p] = prod.head => FreeEntries(old[p], cons.tail) = Capacity - (prod.head - cons.tail)
    BY <2>1, <2>2, FreeEntriesExact
  <2> HIDE DEF k, ClaimInv
  <2> QED  BY <1>1, <2>1, <2>2, <2>3
<1> HIDE DEF k
<1>3. CASE k = 0
  <2>1. /\ pc' = [pc EXCEPT ![p] = "idle"] /\ old' = [old EXCEPT ![p] = 0]
        /\ n' = [n EXCEPT ![p] = 0] /\ tbl' = [tbl EXCEPT ![p] = << >>]
        /\ UNCHANGED <<prod, cons, ring, max, crashed, log, crossed>>
    BY <1>3 DEF EnqLoadTail, EndLocals, k
  <2>2. TypeOK'
    BY <1>0, <2>1, Constants, RingAssumption
    DEF TypeOK, HeadTail, Procs, EnqLabels, DeqLabels
  <2>3. RingOrder'
    BY <2>1 DEF RingOrder
  <2>4. EnqWindow'
    BY <1>0, <2>1, Constants DEF EnqClaims, EnqWindow, InEnqWindow, TypeOK, HeadTail
  <2>5. EnqRange' /\ EnqDisjoint' /\ EnqCover'
    BY <1>0, <2>1, EnqTilingFrame DEF EnqClaims, EnqClaim, TypeOK
  <2>6. DeqClaims'
    <3>1. \A d \in Consumers : pc'[d] = pc[d] /\ old'[d] = old[d] /\ n'[d] = n[d]
      BY <1>0, <2>1 DEF TypeOK, Procs
    <3>2. cons' = cons /\ prod.tail <= prod'.tail /\ crashed \subseteq crashed'
      BY <1>0, <2>1 DEF TypeOK, HeadTail
    <3> QED  BY <2>2, <3>1, <3>2, DeqFrame
  <2> QED
    BY <2>2, <2>3, <2>4, <2>5, <2>6 DEF EnqClaims
<1>4. CASE k > 0
  <2>1. /\ pc' = [pc EXCEPT ![p] = "prodCas"] /\ n' = [n EXCEPT ![p] = k]
        /\ UNCHANGED <<prod, cons, ring, old, max, tbl, crashed, log, crossed>>
    BY <1>1, <1>4 DEF EnqLoadTail, k
  <2>2. TypeOK'
    BY <1>0, <1>1, <2>1, Constants, RingAssumption
    DEF TypeOK, HeadTail, Procs, EnqLabels, DeqLabels
  <2>3. RingOrder'
    BY <2>1 DEF RingOrder
  <2>4. EnqWindow'
    <3>1. \A q \in Producers : q # p => pc'[q] = pc[q] /\ n'[q] = n[q]
      BY <2>1 DEF TypeOK, Procs
    <3>2. pc'[p] = "prodCas" /\ n'[p] = k
      BY <1>0, <2>1 DEF TypeOK
    <3>3. k >= 1
      BY <1>1, <1>4
    <3> QED
      BY <1>0, <1>1, <1>2, <2>1, <3>1, <3>2, <3>3 DEF EnqClaims, EnqWindow, InEnqWindow
  <2>5. EnqRange' /\ EnqDisjoint' /\ EnqCover'
    BY <1>0, <2>1, EnqTilingFrame DEF EnqClaims, EnqClaim, TypeOK
  <2>6. DeqClaims'
    <3>1. \A d \in Consumers : pc'[d] = pc[d] /\ old'[d] = old[d] /\ n'[d] = n[d]
      BY <1>0, <2>1 DEF TypeOK, Procs
    <3>2. cons' = cons /\ prod.tail <= prod'.tail /\ crashed \subseteq crashed'
      BY <1>0, <2>1 DEF TypeOK, HeadTail
    <3> QED  BY <2>2, <3>1, <3>2, DeqFrame
  <2> QED
    BY <2>2, <2>3, <2>4, <2>5, <2>6 DEF EnqClaims
<1> QED
  BY <1>1, <1>3, <1>4

\* A successful CAS finds old_head equal to the head, not a lap behind, so
\* the new claim starts where the last one ends and fits.
LEMMA ClaimEnqCasOk ==
    ASSUME ClaimInv, NEW p \in Producers, EnqCasOk(p)
    PROVE  ClaimInv'
<1> USE DEF ClaimInv, At, Goto
<1>0. p \in Procs /\ p \notin Consumers /\ pc[p] = "prodCas"
  BY RingAssumption DEF Procs, EnqCasOk
<1>1. prod.head \in Nat /\ prod.tail \in Nat /\ old[p] \in Nat /\ n[p] \in Nat
  BY <1>0 DEF TypeOK, HeadTail
<1>2. old[p] = prod.head
  BY <1>0, <1>1, U32Equal DEF EnqCasOk, EnqClaims, EnqWindow, InEnqWindow
<1>3. /\ 1 <= n[p] /\ n[p] <= Len(tbl[p])
      /\ prod.head + n[p] <= cons.tail + Capacity
  BY <1>0, <1>2 DEF EnqClaims, EnqWindow
<1>4. /\ prod' = [head |-> prod.head + n[p], tail |-> prod.tail]
      /\ pc' = [pc EXCEPT ![p] = "prodCopy"]
      /\ UNCHANGED <<cons, ring, old, n, max, tbl, crashed>>
  BY <1>1 DEF EnqCasOk, TypeOK, HeadTail
<1>5. TypeOK'
  <2>1. log' \in Seq(Values)
    <3>1. tbl[p] \in Seq(Values) /\ log \in Seq(Values)
      BY DEF TypeOK
    <3>2. SubSeq(tbl[p], 1, n[p]) \in Seq(Values)
      BY <1>1, <1>3, <3>1
    <3> QED
      BY <3>1, <3>2 DEF EnqCasOk
  <2>2. crossed' \in BOOLEAN
    BY DEF EnqCasOk, TypeOK
  <2>3. prod' \in HeadTail
    BY <1>1, <1>4 DEF HeadTail
  <2>4. /\ pc' \in [Procs -> {"idle", "count"} \cup EnqLabels \cup DeqLabels]
        /\ \A q \in Producers : pc'[q] \in {"idle", "count"} \cup EnqLabels
        /\ \A q \in Consumers : pc'[q] \in {"idle", "count"} \cup DeqLabels
    BY <1>0, <1>4 DEF TypeOK, Procs, EnqLabels, DeqLabels
  <2> QED
    BY <1>4, <2>1, <2>2, <2>3, <2>4 DEF TypeOK
<1>6. RingOrder'
  BY <1>1, <1>3, <1>4 DEF RingOrder, TypeOK, HeadTail
<1>7. EnqWindow'
  <2> SUFFICES ASSUME NEW q \in Producers
               PROVE  /\ InEnqWindow(q)' => old'[q] <= prod'.head
                      /\ InEnqWindow(q)' /\ q \notin crashed' =>
                             prod'.head - old'[q] < Modulus
                      /\ pc'[q] = "prodCas" =>
                             /\ 1 <= n'[q] /\ n'[q] <= Len(tbl'[q])
                             /\ old'[q] = prod'.head =>
                                    prod'.head + n'[q] <= cons'.tail + Capacity
    BY DEF EnqWindow
  <2>1. CASE q = p
    BY <1>0, <1>4, <2>1 DEF InEnqWindow, TypeOK
  <2>2. CASE q # p
    <3>1. pc'[q] = pc[q] /\ old[q] \in Nat
      BY <1>4, <2>2 DEF TypeOK, Procs
    <3>2. /\ InEnqWindow(q) => old[q] <= prod.head
          /\ InEnqWindow(q) /\ q \notin crashed => (prod.head + n[p]) - old[q] < Modulus
      <4>1. InEnqWindow(q) => old[q] <= prod.head
        BY DEF EnqClaims, EnqWindow
      <4>2. InEnqWindow(q) /\ q \notin crashed => (prod.head + n[p]) - old[q] < Modulus
        BY <2>2 DEF EnqCasOk, NoLap, InEnqWindow
      <4> QED
        BY <4>1, <4>2
    <3> QED
      BY <1>1, <1>3, <1>4, <3>1, <3>2 DEF EnqClaims, EnqWindow, InEnqWindow
  <2> QED
    BY <2>1, <2>2
<1>8. EnqRange'
  BY <1>0, <1>1, <1>2, <1>3, <1>4
  DEF EnqClaims, EnqRange, EnqClaim, RingOrder, TypeOK, Procs
<1>9. EnqDisjoint'
  BY <1>0, <1>1, <1>2, <1>4
  DEF EnqClaims, EnqRange, EnqDisjoint, EnqClaim, Apart, TypeOK, Procs
<1>10. EnqCover'
  <2> SUFFICES ASSUME NEW x \in prod.tail..((prod.head + n[p]) - 1)
               PROVE  \E q \in Producers : EnqClaim(q)' /\ Covers(q, x)'
    BY <1>1, <1>4 DEF EnqCover
  <2>1. CASE x < prod.head
    <3>1. PICK q \in Producers : EnqClaim(q) /\ Covers(q, x)
      BY <1>1, <2>1 DEF EnqClaims, EnqCover
    <3> QED
      BY <1>0, <1>4, <3>1 DEF EnqClaim, Covers, TypeOK
  <2>2. CASE prod.head <= x
    <3>1. EnqClaim(p)' /\ Covers(p, x)'
      BY <1>0, <1>1, <1>2, <1>4, <2>2 DEF EnqClaim, Covers, TypeOK
    <3> QED
      BY <3>1
  <2> QED
    BY <1>1, <2>1, <2>2
<1>11. DeqClaims'
  <2>1. \A d \in Consumers : pc'[d] = pc[d] /\ old'[d] = old[d] /\ n'[d] = n[d]
    BY <1>0, <1>1, <1>4 DEF TypeOK, Procs
  <2>2. cons' = cons /\ prod.tail <= prod'.tail /\ crashed \subseteq crashed'
    BY <1>0, <1>1, <1>4 DEF TypeOK, HeadTail
  <2> QED  BY <1>5, <2>1, <2>2, DeqFrame
<1> QED
  BY <1>5, <1>6, <1>7, <1>8, <1>9, <1>10, <1>11 DEF EnqClaims

\* A failed CAS loads the head again.
LEMMA ClaimEnqCasFail ==
    ASSUME ClaimInv, NEW p \in Producers, EnqCasFail(p)
    PROVE  ClaimInv'
<1> USE DEF ClaimInv, EnqCasFail, At, Goto
<1>0. p \in Procs /\ p \notin Consumers
  BY RingAssumption DEF Procs
<1>1. TypeOK'
  BY <1>0 DEF TypeOK, HeadTail, Procs, EnqLabels, DeqLabels
<1>2. RingOrder'
  BY DEF RingOrder
<1>3. EnqWindow'
  BY <1>0, Constants DEF EnqClaims, EnqWindow, InEnqWindow, TypeOK, HeadTail
<1>4. EnqRange' /\ EnqDisjoint' /\ EnqCover'
  BY <1>0, EnqTilingFrame DEF EnqClaims, EnqClaim, TypeOK
<1>5. DeqClaims'
  <2>1. \A d \in Consumers : pc'[d] = pc[d] /\ old'[d] = old[d] /\ n'[d] = n[d]
    BY <1>0 DEF TypeOK, Procs
  <2>2. cons' = cons /\ prod.tail <= prod'.tail /\ crashed \subseteq crashed'
    BY <1>0 DEF TypeOK, HeadTail
  <2> QED  BY <1>1, <2>1, <2>2, DeqFrame
<1> QED
  BY <1>1, <1>2, <1>3, <1>4, <1>5 DEF EnqClaims

\* Where a burst starts is a cell of the ring.
LEMMA IndexType == \A h \in Nat : Index(h) \in 0..(Size - 1)
<1> TAKE h \in Nat
<1> DEFINE u == U32(h)
<1>1. u \in Int
  BY U32Type
<1> HIDE DEF u
<1>2. u % Size \in 0..(Size - 1)
  BY <1>1, Constants, DivMod
<1> QED
  BY <1>2 DEF Index, u

\* The copy touches cells of the page only, and no counter.
LEMMA ClaimEnqCopy ==
    ASSUME ClaimInv, NEW p \in Producers, EnqCopy(p)
    PROVE  ClaimInv'
<1> USE DEF ClaimInv, EnqCopy, At, Goto
<1>0. p \in Procs /\ p \notin Consumers
  BY RingAssumption DEF Procs
<1>1. TypeOK'
  <2>1. /\ tbl[p] \in Seq(Values) /\ n[p] \in Nat /\ old[p] \in Nat
        /\ n[p] <= Len(tbl[p]) /\ Index(old[p]) \in Int
    BY <1>0, IndexType DEF TypeOK, EnqClaims, EnqRange, EnqClaim
  <2>2. ring' \in [0..(Cells - 1) -> Content]
    <3> SUFFICES ASSUME NEW c \in 0..(Cells - 1)
                 PROVE  (IF c \in CellsOf(old[p], n[p])
                         THEN tbl[p][c - Index(old[p]) + 1] ELSE ring[c]) \in Content
      BY DEF EnqueueElems
    <3>1. CASE c \in CellsOf(old[p], n[p])
      BY <2>1, <3>1 DEF CellsOf, Content
    <3>2. CASE c \notin CellsOf(old[p], n[p])
      BY <3>2 DEF TypeOK
    <3> QED
      BY <3>1, <3>2
  <2> QED
    BY <1>0, <2>2 DEF TypeOK, HeadTail, Procs, EnqLabels, DeqLabels
<1>2. RingOrder'
  BY DEF RingOrder
<1>3. EnqWindow'
  BY <1>0 DEF EnqClaims, EnqWindow, InEnqWindow, TypeOK
<1>4. EnqRange' /\ EnqDisjoint' /\ EnqCover'
  BY <1>0, EnqTilingFrame DEF EnqClaims, EnqClaim, TypeOK
<1>5. DeqClaims'
  <2>1. \A d \in Consumers : pc'[d] = pc[d] /\ old'[d] = old[d] /\ n'[d] = n[d]
    BY <1>0 DEF TypeOK, Procs
  <2>2. cons' = cons /\ prod.tail <= prod'.tail /\ crashed \subseteq crashed'
    BY <1>0 DEF TypeOK, HeadTail
  <2> QED  BY <1>1, <2>1, <2>2, DeqFrame
<1> QED
  BY <1>1, <1>2, <1>3, <1>4, <1>5 DEF EnqClaims

\* Publishing gives up the claim that starts at prod.tail; the others start
\* at its end or later.
LEMMA ClaimEnqPublish ==
    ASSUME ClaimInv, NEW p \in Producers, EnqPublish(p)
    PROVE  ClaimInv'
<1> USE DEF ClaimInv, At, Goto
<1>0. p \in Procs /\ p \notin Consumers /\ pc[p] = "prodWait" /\ EnqClaim(p)
  BY RingAssumption DEF Procs, EnqPublish, EnqClaim
<1>1. /\ prod.head \in Nat /\ prod.tail \in Nat /\ old[p] \in Nat /\ n[p] \in Nat
      /\ cons.head \in Nat /\ cons.tail \in Nat
  BY <1>0 DEF TypeOK, HeadTail
<1>2. /\ prod.tail <= old[p] /\ old[p] + n[p] <= prod.head /\ 1 <= n[p]
  BY <1>0 DEF EnqClaims, EnqRange
<1>3. old[p] = prod.tail
  <2>1. old[p] - prod.tail < Modulus
    BY <1>1, <1>2, Constants DEF RingOrder
  <2> QED
    BY <1>1, <1>2, <2>1, U32Equal DEF EnqPublish
<1>4. /\ prod' = [head |-> prod.head, tail |-> prod.tail + n[p]]
      /\ pc' = [pc EXCEPT ![p] = "idle"] /\ old' = [old EXCEPT ![p] = 0]
      /\ n' = [n EXCEPT ![p] = 0] /\ tbl' = [tbl EXCEPT ![p] = << >>]
      /\ UNCHANGED <<cons, ring, max, crashed, log, crossed>>
  BY DEF EnqPublish, EndLocals, TypeOK, HeadTail
<1>5. TypeOK'
  BY <1>0, <1>1, <1>4, Constants DEF TypeOK, HeadTail, Procs, EnqLabels, DeqLabels
<1>6. RingOrder'
  BY <1>1, <1>2, <1>3, <1>4 DEF RingOrder
<1>7. EnqWindow'
  BY <1>0, <1>4 DEF EnqClaims, EnqWindow, InEnqWindow, TypeOK, HeadTail
<1>8. \A q \in Producers : EnqClaim(q)' =>
          /\ q # p /\ EnqClaim(q) /\ old'[q] = old[q] /\ n'[q] = n[q]
          /\ tbl'[q] = tbl[q] /\ old[q] \in Nat /\ n[q] \in Nat
  BY <1>0, <1>4 DEF EnqClaim, TypeOK, Procs
<1>9. EnqRange'
  BY <1>0, <1>1, <1>2, <1>3, <1>4, <1>8
  DEF EnqClaims, EnqRange, EnqDisjoint, Apart
<1>10. EnqDisjoint'
  BY <1>8 DEF EnqClaims, EnqDisjoint, Apart
<1>11. EnqCover'
  <2> SUFFICES ASSUME NEW x \in (prod.tail + n[p])..(prod.head - 1)
               PROVE  \E q \in Producers : EnqClaim(q)' /\ Covers(q, x)'
    BY <1>4 DEF EnqCover
  <2>1. PICK q \in Producers : EnqClaim(q) /\ Covers(q, x)
    BY <1>1 DEF EnqClaims, EnqCover
  <2>2. q # p
    BY <1>1, <1>3, <2>1 DEF Covers
  <2> QED
    BY <1>0, <1>4, <2>1, <2>2 DEF EnqClaim, Covers, TypeOK, Procs
<1>12. DeqClaims'
  <2>1. \A d \in Consumers : pc'[d] = pc[d] /\ old'[d] = old[d] /\ n'[d] = n[d]
    BY <1>0, <1>1, <1>4 DEF TypeOK, Procs
  <2>2. cons' = cons /\ prod.tail <= prod'.tail /\ crashed \subseteq crashed'
    BY <1>0, <1>1, <1>4 DEF TypeOK, HeadTail
  <2> QED  BY <1>5, <2>1, <2>2, DeqFrame
<1> QED
  BY <1>5, <1>6, <1>7, <1>9, <1>10, <1>11, <1>12 DEF EnqClaims

-----------------------------------------------------------------------------
\* Starting a dequeue loads the current head.
LEMMA ClaimDeqStart ==
    ASSUME ClaimInv, NEW c \in Consumers, NEW k \in 1..MaxTake, DeqStart(c, k)
    PROVE  ClaimInv'
<1> USE DEF ClaimInv, DeqStart, At, Goto
<1>0. c \in Procs /\ c \notin Producers
  BY RingAssumption DEF Procs
<1>1. TypeOK'
  BY <1>0, Constants DEF TypeOK, HeadTail, Procs, EnqLabels, DeqLabels
<1>2. RingOrder'
  BY DEF RingOrder
<1>3. DeqWindow'
  BY <1>0, Constants DEF DeqClaims, DeqWindow, InDeqWindow, TypeOK, HeadTail
<1>4. DeqRange' /\ DeqDisjoint' /\ DeqCover'
  BY <1>0, DeqTilingFrame DEF DeqClaims, DeqClaim, TypeOK
<1>5. EnqClaims'
  <2>1. \A q \in Producers : /\ pc'[q] = pc[q] /\ old'[q] = old[q]
                             /\ n'[q] = n[q] /\ tbl'[q] = tbl[q]
    BY <1>0 DEF TypeOK, Procs
  <2>2. prod' = prod /\ cons.tail <= cons'.tail /\ crashed \subseteq crashed'
    BY <1>0 DEF TypeOK, HeadTail
  <2> QED  BY <1>1, <2>1, <2>2, EnqFrame
<1> QED
  BY <1>1, <1>2, <1>3, <1>4, <1>5 DEF DeqClaims

\* The n taken from prod.tail is there if old_head is the head: entries is
\* then exact, and prod.tail can only grow until the CAS.
LEMMA ClaimDeqLoadTail ==
    ASSUME ClaimInv, NEW c \in Consumers, DeqLoadTail(c)
    PROVE  ClaimInv'
<1> USE DEF ClaimInv, At, Goto
<1> DEFINE k == Least(max[c], Entries(prod.tail, old[c]))
<1>0. c \in Procs /\ c \notin Producers /\ pc[c] = "consTail"
  BY RingAssumption DEF Procs, DeqLoadTail
<1>1. /\ k \in Nat /\ k <= MaxTake
      /\ k <= Entries(prod.tail, old[c])
      /\ Entries(prod.tail, old[c]) \in Nat
  <2>1. Entries(prod.tail, old[c]) \in Nat
    BY <1>0, AvailableType DEF TypeOK, HeadTail
  <2>2. max[c] \in 0..MaxTake
    BY DEF TypeOK
  <2> QED
    BY <2>1, <2>2, Constants DEF Least
<1>2. old[c] = cons.head => cons.head + k <= prod.tail
  <2>1. cons.head \in Nat /\ prod.tail \in Nat
    BY DEF TypeOK, HeadTail
  <2>2. cons.head <= prod.tail /\ prod.tail <= cons.head + Capacity
    BY Constants DEF RingOrder, TypeOK, HeadTail
  <2> QED
    BY <1>0, <1>1, <2>1, <2>2, EntriesExact
<1> HIDE DEF k
<1>3. CASE k = 0
  <2>1. /\ pc' = [pc EXCEPT ![c] = "idle"] /\ old' = [old EXCEPT ![c] = 0]
        /\ n' = [n EXCEPT ![c] = 0] /\ max' = [max EXCEPT ![c] = 0]
        /\ UNCHANGED <<prod, cons, ring, tbl, crashed, log, crossed>>
    BY <1>3 DEF DeqLoadTail, EndLocals, k
  <2>2. TypeOK'
    BY <1>0, <2>1, Constants DEF TypeOK, HeadTail, Procs, EnqLabels, DeqLabels
  <2>3. RingOrder'
    BY <2>1 DEF RingOrder
  <2>4. DeqWindow'
    BY <1>0, <2>1, Constants DEF DeqClaims, DeqWindow, InDeqWindow, TypeOK, HeadTail
  <2>5. DeqRange' /\ DeqDisjoint' /\ DeqCover'
    BY <1>0, <2>1, DeqTilingFrame DEF DeqClaims, DeqClaim, TypeOK
  <2>6. EnqClaims'
    <3>1. \A q \in Producers : /\ pc'[q] = pc[q] /\ old'[q] = old[q]
                               /\ n'[q] = n[q] /\ tbl'[q] = tbl[q]
      BY <1>0, <2>1 DEF TypeOK, Procs
    <3>2. prod' = prod /\ cons.tail <= cons'.tail /\ crashed \subseteq crashed'
      BY <1>0, <2>1 DEF TypeOK, HeadTail
    <3> QED  BY <2>2, <3>1, <3>2, EnqFrame
  <2> QED
    BY <2>2, <2>3, <2>4, <2>5, <2>6 DEF DeqClaims
<1>4. CASE k > 0
  <2>1. /\ pc' = [pc EXCEPT ![c] = "consCas"] /\ n' = [n EXCEPT ![c] = k]
        /\ UNCHANGED <<prod, cons, ring, old, max, tbl, crashed, log, crossed>>
    BY <1>1, <1>4 DEF DeqLoadTail, k
  <2>2. TypeOK'
    BY <1>0, <1>1, <2>1 DEF TypeOK, HeadTail, Procs, EnqLabels, DeqLabels
  <2>3. RingOrder'
    BY <2>1 DEF RingOrder
  <2>4. DeqWindow'
    <3>1. \A d \in Consumers : d # c => pc'[d] = pc[d] /\ n'[d] = n[d]
      BY <2>1 DEF TypeOK, Procs
    <3>2. pc'[c] = "consCas" /\ n'[c] = k
      BY <1>0, <2>1 DEF TypeOK
    <3>3. k >= 1
      BY <1>1, <1>4
    <3> QED
      BY <1>0, <1>1, <1>2, <2>1, <3>1, <3>2, <3>3 DEF DeqClaims, DeqWindow, InDeqWindow
  <2>5. DeqRange' /\ DeqDisjoint' /\ DeqCover'
    BY <1>0, <2>1, DeqTilingFrame DEF DeqClaims, DeqClaim, TypeOK
  <2>6. EnqClaims'
    <3>1. \A q \in Producers : /\ pc'[q] = pc[q] /\ old'[q] = old[q]
                               /\ n'[q] = n[q] /\ tbl'[q] = tbl[q]
      BY <1>0, <2>1 DEF TypeOK, Procs
    <3>2. prod' = prod /\ cons.tail <= cons'.tail /\ crashed \subseteq crashed'
      BY <1>0, <2>1 DEF TypeOK, HeadTail
    <3> QED  BY <2>2, <3>1, <3>2, EnqFrame
  <2> QED
    BY <2>2, <2>3, <2>4, <2>5, <2>6 DEF DeqClaims
<1> QED
  BY <1>1, <1>3, <1>4

\* A successful CAS claims entries that are published and unclaimed.
LEMMA ClaimDeqCasOk ==
    ASSUME ClaimInv, NEW c \in Consumers, DeqCasOk(c)
    PROVE  ClaimInv'
<1> USE DEF ClaimInv, At, Goto
<1>0. c \in Procs /\ c \notin Producers /\ pc[c] = "consCas"
  BY RingAssumption DEF Procs, DeqCasOk
<1>1. cons.head \in Nat /\ cons.tail \in Nat /\ old[c] \in Nat /\ n[c] \in Nat
  BY <1>0 DEF TypeOK, HeadTail
<1>2. old[c] = cons.head
  BY <1>0, <1>1, U32Equal DEF DeqCasOk, DeqClaims, DeqWindow, InDeqWindow
<1>3. 1 <= n[c] /\ n[c] <= MaxTake /\ cons.head + n[c] <= prod.tail
  BY <1>0, <1>2 DEF DeqClaims, DeqWindow
<1>4. /\ cons' = [head |-> cons.head + n[c], tail |-> cons.tail]
      /\ pc' = [pc EXCEPT ![c] = "consCopy"]
      /\ UNCHANGED <<prod, ring, old, n, max, tbl, crashed, log>>
  BY <1>1 DEF DeqCasOk, TypeOK, HeadTail
<1>5. TypeOK'
  <2>1. crossed' \in BOOLEAN
    BY DEF DeqCasOk, TypeOK
  <2> QED
    BY <1>0, <1>1, <1>4, <2>1 DEF TypeOK, HeadTail, Procs, EnqLabels, DeqLabels
<1>6. RingOrder'
  BY <1>1, <1>3, <1>4 DEF RingOrder, TypeOK, HeadTail
<1>7. DeqWindow'
  <2> SUFFICES ASSUME NEW d \in Consumers
               PROVE  /\ InDeqWindow(d)' => old'[d] <= cons'.head
                      /\ InDeqWindow(d)' /\ d \notin crashed' =>
                             cons'.head - old'[d] < Modulus
                      /\ pc'[d] = "consCas" =>
                             /\ 1 <= n'[d] /\ n'[d] <= MaxTake
                             /\ old'[d] = cons'.head =>
                                    cons'.head + n'[d] <= prod'.tail
    BY DEF DeqWindow
  <2>1. CASE d = c
    BY <1>0, <1>4, <2>1 DEF InDeqWindow, TypeOK
  <2>2. CASE d # c
    <3>1. pc'[d] = pc[d] /\ old[d] \in Nat
      BY <1>4, <2>2 DEF TypeOK, Procs
    <3>2. /\ InDeqWindow(d) => old[d] <= cons.head
          /\ InDeqWindow(d) /\ d \notin crashed => (cons.head + n[c]) - old[d] < Modulus
      <4>1. InDeqWindow(d) => old[d] <= cons.head
        BY DEF DeqClaims, DeqWindow
      <4>2. InDeqWindow(d) /\ d \notin crashed => (cons.head + n[c]) - old[d] < Modulus
        BY <2>2 DEF DeqCasOk, NoLap, InDeqWindow
      <4> QED
        BY <4>1, <4>2
    <3> QED
      BY <1>1, <1>3, <1>4, <3>1, <3>2 DEF DeqClaims, DeqWindow, InDeqWindow
  <2> QED
    BY <2>1, <2>2
<1>8. DeqRange'
  BY <1>0, <1>1, <1>2, <1>3, <1>4
  DEF DeqClaims, DeqRange, DeqClaim, RingOrder, TypeOK, Procs
<1>9. DeqDisjoint'
  BY <1>0, <1>1, <1>2, <1>4
  DEF DeqClaims, DeqRange, DeqDisjoint, DeqClaim, Apart, TypeOK, Procs
<1>10. DeqCover'
  <2> SUFFICES ASSUME NEW x \in cons.tail..((cons.head + n[c]) - 1)
               PROVE  \E d \in Consumers : DeqClaim(d)' /\ Covers(d, x)'
    BY <1>1, <1>4 DEF DeqCover
  <2>1. CASE x < cons.head
    <3>1. PICK d \in Consumers : DeqClaim(d) /\ Covers(d, x)
      BY <1>1, <2>1 DEF DeqClaims, DeqCover
    <3> QED
      BY <1>0, <1>4, <3>1 DEF DeqClaim, Covers, TypeOK
  <2>2. CASE cons.head <= x
    <3>1. DeqClaim(c)' /\ Covers(c, x)'
      BY <1>0, <1>1, <1>2, <1>4, <2>2 DEF DeqClaim, Covers, TypeOK
    <3> QED
      BY <3>1
  <2> QED
    BY <1>1, <2>1, <2>2
<1>11. EnqClaims'
  <2>1. \A q \in Producers : /\ pc'[q] = pc[q] /\ old'[q] = old[q]
                             /\ n'[q] = n[q] /\ tbl'[q] = tbl[q]
    BY <1>0, <1>1, <1>4 DEF TypeOK, Procs
  <2>2. prod' = prod /\ cons.tail <= cons'.tail /\ crashed \subseteq crashed'
    BY <1>0, <1>1, <1>4 DEF TypeOK, HeadTail
  <2> QED  BY <1>5, <2>1, <2>2, EnqFrame
<1> QED
  BY <1>5, <1>6, <1>7, <1>8, <1>9, <1>10, <1>11 DEF DeqClaims

\* A failed CAS loads the head again.
LEMMA ClaimDeqCasFail ==
    ASSUME ClaimInv, NEW c \in Consumers, DeqCasFail(c)
    PROVE  ClaimInv'
<1> USE DEF ClaimInv, DeqCasFail, At, Goto
<1>0. c \in Procs /\ c \notin Producers
  BY RingAssumption DEF Procs
<1>1. TypeOK'
  BY <1>0 DEF TypeOK, HeadTail, Procs, EnqLabels, DeqLabels
<1>2. RingOrder'
  BY DEF RingOrder
<1>3. DeqWindow'
  BY <1>0, Constants DEF DeqClaims, DeqWindow, InDeqWindow, TypeOK, HeadTail
<1>4. DeqRange' /\ DeqDisjoint' /\ DeqCover'
  BY <1>0, DeqTilingFrame DEF DeqClaims, DeqClaim, TypeOK
<1>5. EnqClaims'
  <2>1. \A q \in Producers : /\ pc'[q] = pc[q] /\ old'[q] = old[q]
                             /\ n'[q] = n[q] /\ tbl'[q] = tbl[q]
    BY <1>0 DEF TypeOK, Procs
  <2>2. prod' = prod /\ cons.tail <= cons'.tail /\ crashed \subseteq crashed'
    BY <1>0 DEF TypeOK, HeadTail
  <2> QED  BY <1>1, <2>1, <2>2, EnqFrame
<1> QED
  BY <1>1, <1>2, <1>3, <1>4, <1>5 DEF DeqClaims

\* What a dequeue burst copies comes from cells of the page.
LEMMA ClaimDeqCopy ==
    ASSUME ClaimInv, NEW c \in Consumers, DeqCopy(c)
    PROVE  ClaimInv'
<1> USE DEF ClaimInv, DeqCopy, At, Goto
<1>0. c \in Procs /\ c \notin Producers
  BY RingAssumption DEF Procs
<1>1. TypeOK'
  <2>1. /\ n[c] \in Nat /\ n[c] <= MaxTake
        /\ Index(old[c]) \in 0..(Size - 1)
    BY <1>0, IndexType DEF TypeOK, DeqClaims, DeqRange, DeqClaim
  <2>2. \A i \in 1..n[c] : Index(old[c]) + i - 1 \in 0..(Cells - 1)
    BY <2>1, Constants, RingAssumption
  <2>3. DequeueElems(old[c], n[c]) \in [1..n[c] -> Content]
    BY <2>1, <2>2 DEF DequeueElems, TypeOK
  <2>4. DequeueElems(old[c], n[c]) \in Seq(Content)
    BY <2>1, <2>3
  <2> QED
    BY <1>0, <2>4 DEF TypeOK, HeadTail, Procs, EnqLabels, DeqLabels
<1>2. RingOrder'
  BY DEF RingOrder
<1>3. DeqWindow'
  BY <1>0 DEF DeqClaims, DeqWindow, InDeqWindow, TypeOK
<1>4. DeqRange' /\ DeqDisjoint' /\ DeqCover'
  BY <1>0, DeqTilingFrame DEF DeqClaims, DeqClaim, TypeOK
<1>5. EnqClaims'
  <2>1. \A q \in Producers : /\ pc'[q] = pc[q] /\ old'[q] = old[q]
                             /\ n'[q] = n[q] /\ tbl'[q] = tbl[q]
    BY <1>0 DEF TypeOK, Procs
  <2>2. prod' = prod /\ cons.tail <= cons'.tail
    BY DEF TypeOK, HeadTail
  <2> QED  BY <1>1, <2>1, <2>2, EnqFrame
<1> QED
  BY <1>1, <1>2, <1>3, <1>4, <1>5 DEF DeqClaims

\* Releasing gives up the claim that starts at cons.tail.
LEMMA ClaimDeqRelease ==
    ASSUME ClaimInv, NEW c \in Consumers, DeqRelease(c)
    PROVE  ClaimInv'
<1> USE DEF ClaimInv, At, Goto
<1>0. c \in Procs /\ c \notin Producers /\ pc[c] = "consWait" /\ DeqClaim(c)
  BY RingAssumption DEF Procs, DeqRelease, DeqClaim
<1>1. /\ prod.head \in Nat /\ prod.tail \in Nat /\ old[c] \in Nat /\ n[c] \in Nat
      /\ cons.head \in Nat /\ cons.tail \in Nat
  BY <1>0 DEF TypeOK, HeadTail
<1>2. cons.tail <= old[c] /\ old[c] + n[c] <= cons.head /\ 1 <= n[c]
  BY <1>0 DEF DeqClaims, DeqRange
<1>3. old[c] = cons.tail
  <2>1. old[c] - cons.tail < Modulus
    BY <1>1, <1>2, Constants DEF RingOrder
  <2> QED
    BY <1>1, <1>2, <2>1, U32Equal DEF DeqRelease
<1>4. /\ cons' = [head |-> cons.head, tail |-> cons.tail + n[c]]
      /\ pc' = [pc EXCEPT ![c] = "idle"] /\ old' = [old EXCEPT ![c] = 0]
      /\ n' = [n EXCEPT ![c] = 0] /\ max' = [max EXCEPT ![c] = 0]
      /\ UNCHANGED <<prod, ring, tbl, crashed, log, crossed>>
  BY DEF DeqRelease, EndLocals, TypeOK, HeadTail
<1>5. TypeOK'
  BY <1>0, <1>1, <1>4, Constants DEF TypeOK, HeadTail, Procs, EnqLabels, DeqLabels
<1>6. RingOrder'
  BY <1>1, <1>2, <1>3, <1>4, Constants DEF RingOrder
<1>7. DeqWindow'
  BY <1>0, <1>4 DEF DeqClaims, DeqWindow, InDeqWindow, TypeOK, HeadTail
<1>8. \A d \in Consumers : DeqClaim(d)' =>
          /\ d # c /\ DeqClaim(d) /\ old'[d] = old[d] /\ n'[d] = n[d]
          /\ old[d] \in Nat /\ n[d] \in Nat
  BY <1>0, <1>4 DEF DeqClaim, TypeOK, Procs
<1>9. DeqRange'
  BY <1>0, <1>1, <1>2, <1>3, <1>4, <1>8
  DEF DeqClaims, DeqRange, DeqDisjoint, Apart
<1>10. DeqDisjoint'
  BY <1>8 DEF DeqClaims, DeqDisjoint, Apart
<1>11. DeqCover'
  <2> SUFFICES ASSUME NEW x \in (cons.tail + n[c])..(cons.head - 1)
               PROVE  \E d \in Consumers : DeqClaim(d)' /\ Covers(d, x)'
    BY <1>4 DEF DeqCover
  <2>1. PICK d \in Consumers : DeqClaim(d) /\ Covers(d, x)
    BY <1>1 DEF DeqClaims, DeqCover
  <2>2. d # c
    BY <1>1, <1>3, <2>1 DEF Covers
  <2> QED
    BY <1>0, <1>4, <2>1, <2>2 DEF DeqClaim, Covers, TypeOK, Procs
<1>12. EnqClaims'
  <2>1. \A q \in Producers : /\ pc'[q] = pc[q] /\ old'[q] = old[q]
                             /\ n'[q] = n[q] /\ tbl'[q] = tbl[q]
    BY <1>0, <1>1, <1>4 DEF TypeOK, Procs
  <2>2. prod' = prod /\ cons.tail <= cons'.tail /\ crashed \subseteq crashed'
    BY <1>0, <1>1, <1>4 DEF TypeOK, HeadTail
  <2> QED  BY <1>5, <2>1, <2>2, EnqFrame
<1> QED
  BY <1>5, <1>6, <1>7, <1>9, <1>10, <1>11, <1>12 DEF DeqClaims

-----------------------------------------------------------------------------
\* Killing a process, and a step that changes nothing, touch no claim.
LEMMA ClaimIdle ==
    ASSUME ClaimInv,
           crashed' \in SUBSET Procs, crashed \subseteq crashed',
           UNCHANGED <<prod, cons, ring, pc, old, n, max, tbl, log, crossed>>
    PROVE  ClaimInv'
<1>1. TypeOK'
  BY DEF ClaimInv, TypeOK
<1>2. RingOrder'
  BY DEF ClaimInv, RingOrder
<1>3. cons.tail <= cons'.tail /\ prod.tail <= prod'.tail
  BY DEF ClaimInv, TypeOK, HeadTail
<1>4. EnqClaims'
  BY <1>1, <1>3, EnqFrame DEF ClaimInv
<1>5. DeqClaims'
  BY <1>1, <1>3, DeqFrame DEF ClaimInv
<1> QED
  BY <1>1, <1>2, <1>4, <1>5 DEF ClaimInv

\* The two loads of kt_ringbuf_count touch no claim either.
LEMMA ClaimCount ==
    ASSUME ClaimInv, NEW p \in Procs, CountStart(p) \/ CountEnd(p)
    PROVE  ClaimInv'
<1>1. /\ pc[p] \in {"idle", "count"} /\ pc'[p] \in {"idle", "count"}
      /\ pc' = [pc EXCEPT ![p] = pc'[p]]
      /\ old' = [old EXCEPT ![p] = old'[p]] /\ old'[p] \in Nat
      /\ n' = [n EXCEPT ![p] = n'[p]] /\ n'[p] \in Nat
      /\ UNCHANGED <<prod, cons, ring, max, tbl, crashed, log, crossed>>
  BY DEF CountStart, CountEnd, At, Goto, EndLocals, ClaimInv, TypeOK, HeadTail
<1>2. TypeOK'
  BY <1>1, Zenon DEF ClaimInv, TypeOK, Procs
<1>3. RingOrder'
  BY <1>1 DEF ClaimInv, RingOrder
<1>4. \A q \in Procs : q # p => pc'[q] = pc[q] /\ old'[q] = old[q] /\ n'[q] = n[q]
  BY <1>1 DEF ClaimInv, TypeOK
<1>5. EnqClaims'
  <2>1. EnqRange' /\ EnqDisjoint' /\ EnqCover'
    BY <1>1, <1>4, EnqTilingFrame DEF ClaimInv, EnqClaims, EnqClaim, Procs
  <2>2. EnqWindow'
    BY <1>1, <1>4 DEF ClaimInv, EnqClaims, EnqWindow, InEnqWindow, Procs
  <2> QED  BY <2>1, <2>2 DEF EnqClaims
<1>6. DeqClaims'
  <2>1. DeqRange' /\ DeqDisjoint' /\ DeqCover'
    BY <1>1, <1>4, DeqTilingFrame DEF ClaimInv, DeqClaims, DeqClaim, Procs
  <2>2. DeqWindow'
    BY <1>1, <1>4 DEF ClaimInv, DeqClaims, DeqWindow, InDeqWindow, Procs
  <2> QED  BY <2>1, <2>2 DEF DeqClaims
<1> QED
  BY <1>2, <1>3, <1>5, <1>6 DEF ClaimInv

\* Every step preserves the invariant.
LEMMA ClaimStep == ClaimInv /\ [Next]_vars => ClaimInv'
<1> SUFFICES ASSUME ClaimInv, [Next]_vars PROVE ClaimInv'
  OBVIOUS
<1>1. ASSUME NEW p \in Producers, EnqStep(p) PROVE ClaimInv'
  BY <1>1, ClaimEnqLoadTail, ClaimEnqCasOk, ClaimEnqCasFail, ClaimEnqCopy,
     ClaimEnqPublish DEF EnqStep
<1>2. ASSUME NEW p \in Producers, NEW t \in PutTables, EnqStart(p, t) PROVE ClaimInv'
  BY <1>2, ClaimEnqStart
<1>3. ASSUME NEW c \in Consumers, DeqStep(c) PROVE ClaimInv'
  BY <1>3, ClaimDeqLoadTail, ClaimDeqCasOk, ClaimDeqCasFail, ClaimDeqCopy,
     ClaimDeqRelease DEF DeqStep
<1>4. ASSUME NEW c \in Consumers, NEW k \in 1..MaxTake, DeqStart(c, k) PROVE ClaimInv'
  BY <1>4, ClaimDeqStart
<1>5. ASSUME NEW p \in Procs, Crash(p) PROVE ClaimInv'
  BY <1>5, ClaimIdle DEF Crash, ClaimInv, TypeOK
<1>6. CASE UNCHANGED vars
  BY <1>6, ClaimIdle DEF vars, ClaimInv, TypeOK
<1>7. ASSUME NEW p \in Procs, CountStart(p) \/ CountEnd(p) PROVE ClaimInv'
  BY <1>7, ClaimCount
<1> QED
  BY <1>1, <1>2, <1>3, <1>4, <1>5, <1>6, <1>7 DEF Next

\* ClaimInv is an invariant of the ring.
THEOREM ClaimInvariant == Spec => []ClaimInv
<1>1. Init => ClaimInv
  BY ClaimInit
<1>2. ClaimInv /\ [Next]_vars => ClaimInv'
  BY ClaimStep
<1> QED
  BY <1>1, <1>2, PTL DEF Spec

\* Every variable of the ring keeps its type, for every instance.
THEOREM TypeCorrect == Spec => []TypeOK
<1>1. ClaimInv => TypeOK
  BY DEF ClaimInv
<1> QED
  BY <1>1, ClaimInvariant, PTL

\* The counters stay ordered and within one capacity, for every instance:
\* the ring is never over- or underfilled.
THEOREM OrderCorrect == Spec => []RingOrder
<1>1. ClaimInv => RingOrder
  BY DEF ClaimInv
<1> QED
  BY <1>1, ClaimInvariant, PTL

\* A spinning process waits for a process whose claim starts at the tail: the
\* position at the tail is covered by a claim, and no claim starts below it.
THEOREM SpinCorrect == Spec => []SpinHasHolder
<1>1. ClaimInv => SpinHasHolder
  <2> SUFFICES ASSUME ClaimInv PROVE SpinHasHolder
    OBVIOUS
  <2>1. ASSUME NEW p \in Producers, pc[p] = "prodWait", prod.tail # old[p]
        PROVE  \E q \in Producers : /\ Claimed(q)
                                    /\ old[q] = prod.tail
                                    /\ old[q] + n[q] <= old[p]
    <3>1. EnqClaim(p) /\ p \in Procs /\ old[p] \in Nat /\ n[p] \in Nat
          /\ prod.tail \in Nat /\ prod.head \in Nat
      BY <2>1 DEF EnqClaim, Procs, ClaimInv, TypeOK, HeadTail
    <3>2. prod.tail < old[p] /\ prod.tail < prod.head
      BY <2>1, <3>1 DEF ClaimInv, EnqClaims, EnqRange
    <3>3. PICK q \in Producers : EnqClaim(q) /\ Covers(q, prod.tail)
      BY <3>1, <3>2 DEF ClaimInv, EnqClaims, EnqCover
    <3>4. old[q] \in Nat /\ n[q] \in Nat /\ old[q] = prod.tail /\ q # p
      <4>1. q \in Procs /\ prod.tail <= old[q]
        BY <3>3 DEF ClaimInv, EnqClaims, EnqRange, Procs
      <4>2. old[q] \in Nat /\ n[q] \in Nat
        BY <4>1 DEF ClaimInv, TypeOK
      <4>3. old[q] = prod.tail
        BY <3>1, <3>3, <4>1, <4>2 DEF Covers
      <4> QED  BY <2>1, <4>2, <4>3
    <3>5. old[q] + n[q] <= old[p]
      <4>1. Apart(q, p) /\ 1 <= n[p]
        BY <3>1, <3>3, <3>4 DEF ClaimInv, EnqClaims, EnqRange, EnqDisjoint
      <4> QED  BY <3>1, <3>2, <3>4, <4>1 DEF Apart
    <3> QED
      BY <3>3, <3>4, <3>5 DEF Claimed, EnqClaim
  <2>2. ASSUME NEW c \in Consumers, pc[c] = "consWait", cons.tail # old[c]
        PROVE  \E d \in Consumers : /\ Claimed(d)
                                    /\ old[d] = cons.tail
                                    /\ old[d] + n[d] <= old[c]
    <3>1. DeqClaim(c) /\ c \in Procs /\ old[c] \in Nat /\ n[c] \in Nat
          /\ cons.tail \in Nat /\ cons.head \in Nat
      BY <2>2 DEF DeqClaim, Procs, ClaimInv, TypeOK, HeadTail
    <3>2. cons.tail < old[c] /\ cons.tail < cons.head
      BY <2>2, <3>1 DEF ClaimInv, DeqClaims, DeqRange
    <3>3. PICK d \in Consumers : DeqClaim(d) /\ Covers(d, cons.tail)
      BY <3>1, <3>2 DEF ClaimInv, DeqClaims, DeqCover
    <3>4. old[d] \in Nat /\ n[d] \in Nat /\ old[d] = cons.tail /\ d # c
      <4>1. d \in Procs /\ cons.tail <= old[d]
        BY <3>3 DEF ClaimInv, DeqClaims, DeqRange, Procs
      <4>2. old[d] \in Nat /\ n[d] \in Nat
        BY <4>1 DEF ClaimInv, TypeOK
      <4>3. old[d] = cons.tail
        BY <3>1, <3>3, <4>1, <4>2 DEF Covers
      <4> QED  BY <2>2, <4>2, <4>3
    <3>5. old[d] + n[d] <= old[c]
      <4>1. Apart(d, c) /\ 1 <= n[c]
        BY <3>1, <3>3, <3>4 DEF ClaimInv, DeqClaims, DeqRange, DeqDisjoint
      <4> QED  BY <3>1, <3>2, <3>4, <4>1 DEF Apart
    <3> QED
      BY <3>3, <3>4, <3>5 DEF Claimed, DeqClaim
  <2> QED
    BY <2>1, <2>2 DEF SpinHasHolder
<1> QED
  BY <1>1, ClaimInvariant, PTL

-----------------------------------------------------------------------------
(***************************************************************************)
(* kt_ringbuf_count                                                        *)
(***************************************************************************)
\* What a call has loaded first was published.
Loaded == \A p \in Procs : pc[p] = "count" => old[p] <= prod.tail

\* prod.tail only grows, and no step of others changes what a call loaded.
LEMMA LoadedStep == ClaimInv /\ Loaded /\ [Next]_vars => Loaded'
<1> SUFFICES ASSUME ClaimInv, Loaded, [Next]_vars, NEW p \in Procs, pc'[p] = "count"
             PROVE  old'[p] <= prod'.tail
  BY DEF Loaded
<1>0. /\ prod.tail \in Nat /\ old \in [Procs -> Nat] /\ n \in [Procs -> Nat]
      /\ pc \in [Procs -> {"idle", "count"} \cup EnqLabels \cup DeqLabels]
      /\ Producers \subseteq Procs /\ Consumers \subseteq Procs
  BY DEF ClaimInv, TypeOK, HeadTail, Procs
<1>1. CASE pc[p] = "count" /\ old'[p] = old[p] /\ prod.tail <= prod'.tail
  <2>1. prod'.tail \in Nat
    BY ClaimStep DEF ClaimInv, TypeOK, HeadTail
  <2> QED  BY <1>0, <1>1, <2>1 DEF Loaded
<1>2. CASE old'[p] = prod.tail /\ prod' = prod
  BY <1>0, <1>2
<1>3. ASSUME NEW q \in Producers, EnqStep(q)
      PROVE  pc[p] = "count" /\ old'[p] = old[p] /\ prod.tail <= prod'.tail
  <2>1. pc[p] = "count" /\ old'[p] = old[p]
    BY <1>0, <1>3 DEF EnqStep, EnqLoadTail, EnqCasOk, EnqCasFail, EnqCopy, EnqPublish,
                      At, Goto, EndLocals
  <2>2. prod.tail <= prod'.tail
    <3>1. prod \in HeadTail /\ n[q] \in Nat
      BY <1>0 DEF ClaimInv, TypeOK
    <3>2. prod'.tail = prod.tail \/ prod'.tail = prod.tail + n[q]
      BY <1>3, <3>1 DEF EnqStep, EnqLoadTail, EnqCasOk, EnqCasFail, EnqCopy, EnqPublish,
                        HeadTail
    <3> QED  BY <1>0, <3>1, <3>2
  <2> QED  BY <2>1, <2>2
<1>4. ASSUME NEW c \in Consumers, DeqStep(c)
      PROVE  pc[p] = "count" /\ old'[p] = old[p] /\ prod.tail <= prod'.tail
  BY <1>0, <1>4 DEF DeqStep, DeqLoadTail, DeqCasOk, DeqCasFail, DeqCopy, DeqRelease,
                    At, Goto, EndLocals
<1>5. ASSUME NEW q \in Producers, NEW t \in PutTables, EnqStart(q, t)
      PROVE  pc[p] = "count" /\ old'[p] = old[p] /\ prod.tail <= prod'.tail
  BY <1>0, <1>5 DEF EnqStart, At, Goto
<1>6. ASSUME NEW c \in Consumers, NEW k \in 1..MaxTake, DeqStart(c, k)
      PROVE  pc[p] = "count" /\ old'[p] = old[p] /\ prod.tail <= prod'.tail
  BY <1>0, <1>6 DEF DeqStart, At, Goto
<1>7. ASSUME NEW q \in Procs, CountStart(q)
      PROVE  \/ pc[p] = "count" /\ old'[p] = old[p] /\ prod.tail <= prod'.tail
             \/ old'[p] = prod.tail /\ prod' = prod
  BY <1>0, <1>7 DEF CountStart, At, Goto
<1>8. ASSUME NEW q \in Procs, CountEnd(q) \/ Crash(q)
      PROVE  pc[p] = "count" /\ old'[p] = old[p] /\ prod.tail <= prod'.tail
  BY <1>0, <1>8 DEF CountEnd, Crash, At, Goto, EndLocals
<1>9. CASE UNCHANGED vars
  BY <1>0, <1>1, <1>9 DEF vars
<1> QED
  BY <1>1, <1>2, <1>3, <1>4, <1>5, <1>6, <1>7, <1>8, <1>9 DEF Next

\* The masked difference of two counters less than Size apart is exact: Size
\* divides Modulus, so the mask takes away whole laps only.
LEMMA MaskedDifference ==
    ASSUME NEW a \in Nat, NEW b \in Nat, b <= a, a - b < Size
    PROVE  (U32(a) - U32(b)) % Size = a - b
<1> DEFINE y == U32(a) - U32(b)
           r == a - b
<1>1. y \in Int /\ r \in 0..(Size - 1)
  BY U32Type, Constants
<1>2. PICK k \in Int : Modulus * k = r - y
  BY U32Laps
<1>3. PICK m \in 1..Modulus : Modulus = m * Size
  BY RingAssumption
<1> HIDE DEF y, r
<1>4. m * k \in Int /\ Size * (m * k) = Modulus * k
  BY <1>3, Constants
<1> DEFINE z == 0 - m * k
<1>5. z \in Int /\ y = Size * z + r
  BY <1>1, <1>2, <1>3, <1>4, Constants
<1> HIDE DEF z
<1>6. y % Size = r
  BY <1>1, <1>5, Constants, ModUnique
<1> QED  BY <1>6 DEF y, r

\* What kt_ringbuf_count returns, whatever happens between its two loads, for
\* every instance: unless consumers overtook the prod.tail it loaded, exactly
\* the entries between that and cons.tail (CountSound).
THEOREM CountCorrect == Spec => []CountSound
<1>1. Init => Loaded
  BY DEF Init, Loaded
<1>2. Spec => []Loaded
  BY <1>1, ClaimInvariant, LoadedStep, PTL DEF Spec
<1>3. ClaimInv /\ Loaded => CountSound
  <2> SUFFICES ASSUME ClaimInv, Loaded, NEW p \in Procs, pc[p] = "count"
               PROVE  /\ old[p] <= prod.tail
                      /\ cons.tail <= old[p] => kt_ringbuf_count(p) = old[p] - cons.tail
    BY DEF CountSound
  <2>1. old[p] <= prod.tail
    BY DEF Loaded
  <2>2. ASSUME cons.tail <= old[p]
        PROVE  kt_ringbuf_count(p) = old[p] - cons.tail
    <3>1. /\ old[p] \in Nat /\ cons.tail \in Nat /\ prod.tail \in Nat
          /\ cons.head \in Nat /\ prod.head \in Nat
      BY DEF ClaimInv, TypeOK, HeadTail
    <3>2. old[p] - cons.tail < Size /\ old[p] - cons.tail <= Capacity
      BY <2>1, <3>1, Constants DEF ClaimInv, RingOrder, Capacity
    <3>3. (U32(old[p]) - U32(cons.tail)) % Size = old[p] - cons.tail
      BY <2>2, <3>1, <3>2, MaskedDifference
    <3> QED  BY <3>2, <3>3 DEF kt_ringbuf_count, Least
  <2> QED  BY <2>1, <2>2
<1> QED
  BY <1>2, <1>3, ClaimInvariant, PTL
=============================================================================
