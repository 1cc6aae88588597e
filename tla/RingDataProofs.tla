--------------------------- MODULE RingDataProofs ---------------------------
(***************************************************************************)
(* What the ring delivers, for every ring size, every number of producers  *)
(* and consumers, every burst size and every counter width.  The claims of *)
(* ClaimInv lie within one capacity of each other; so different positions  *)
(* have different cells, and a cell is written by one process at a time.   *)
(* So the ring implements the queue of Fifo while no burst runs past the   *)
(* last cell.                                                              *)
(***************************************************************************)
EXTENDS RingBufProofs, SequenceTheorems

\* The u32 wrap-around does not show in the index: Size divides Modulus.
LEMMA IndexMod == \A h \in Nat : Index(h) = h % Size
<1> TAKE h \in Nat
<1>1. PICK m \in 1..Modulus : Modulus = m * Size
  BY RingAssumption
<1> DEFINE q == h \div Modulus
           u == h % Modulus
           s == u \div Size
           i == u % Size
<1>2. q \in Int /\ u \in Nat /\ h = Modulus * q + u
  BY DivMod, Constants
<1> HIDE DEF q, u
<1>3. s \in Int /\ i \in 0..(Size - 1) /\ u = Size * s + i
  BY <1>2, DivMod, Constants
<1> HIDE DEF s, i
<1>4. m * q \in Int /\ Modulus * q = Size * (m * q)
  BY <1>1, <1>2, Constants
<1> DEFINE z == m * q
<1> HIDE DEF z
<1>5. z \in Int /\ h = Size * z + (Size * s + i)
  BY <1>2, <1>3, <1>4 DEF z
<1> DEFINE w == z + s
<1>6. h = Size * w + i /\ w \in Int
  BY <1>3, <1>5, Constants
<1> HIDE DEF w
<1>7. h % Size = i
  BY <1>3, <1>6, Constants, ModUnique
<1> QED  BY <1>7 DEF Index, U32, i, u

\* Up to the last cell, the next position has the next cell.
LEMMA IndexStep ==
    ASSUME NEW h \in Nat, NEW i \in Nat, Index(h) + i < Size
    PROVE  Index(h + i) = Index(h) + i
<1> DEFINE q == h \div Size
           r == h % Size
<1>1. q \in Int /\ r \in 0..(Size - 1) /\ h = Size * q + r
  BY DivMod, Constants
<1>2. r = Index(h)
  BY IndexMod
<1> HIDE DEF q, r
<1> DEFINE x == h + i
           t == r + i
<1>3. t \in 0..(Size - 1) /\ x \in Nat /\ x = Size * q + t
  BY <1>1, <1>2, Constants
<1> HIDE DEF x, t
<1>4. x % Size = t
  BY <1>1, <1>3, Constants, ModUnique
<1> QED  BY <1>2, <1>3, <1>4, IndexMod DEF x, t

\* Positions less than a ring apart have different cells.
LEMMA IndexInjective ==
    ASSUME NEW x \in Nat, NEW y \in Nat, x - y < Size, y - x < Size, Index(x) = Index(y)
    PROVE  x = y
<1> DEFINE q == x \div Size
           s == y \div Size
           r == x % Size
<1>1. q \in Int /\ r \in Int /\ x = Size * q + r
  BY DivMod, Constants
<1>2. s \in Int /\ y = Size * s + r
  <2>1. y % Size = r
    BY IndexMod
  <2>2. s \in Int /\ y = Size * s + (y % Size)
    BY DivMod, Constants
  <2> QED  BY <2>1, <2>2
<1> HIDE DEF q, s, r
<1>3. Size * (q - s) = x - y /\ q - s \in Int
  BY <1>1, <1>2, Constants, DivDifference
<1>4. q - s = 0
  BY <1>3, Constants, SmallMultiple
<1> QED  BY <1>3, <1>4, Constants

\* The cells of a burst that ends within the ring are those of its positions.
LEMMA CellPosition ==
    ASSUME NEW h \in Nat, NEW k \in Nat, Index(h) + k <= Size, NEW c \in CellsOf(h, k)
    PROVE  \E x \in h..(h + k - 1) : Index(x) = c /\ x = h + (c - Index(h))
<1>1. Index(h) \in 0..(Size - 1) /\ c \in Index(h)..(Index(h) + k - 1)
  BY IndexType DEF CellsOf
<1> DEFINE i == c - Index(h)
<1>2. i \in 0..(k - 1) /\ i \in Nat /\ Index(h) + i < Size /\ Index(h) + i = c
  BY <1>1, Constants
<1> HIDE DEF i
<1>3. Index(h + i) = c /\ h + i \in h..(h + k - 1)
  BY <1>2, IndexStep
<1> QED  BY <1>3 DEF i

\* The cell of a position outside such a burst, but less than a ring away
\* from it, is not one of its cells.
LEMMA OutsideCells ==
    ASSUME NEW h \in Nat, NEW k \in Nat, NEW x \in Nat, NEW lo \in Nat,
           Index(h) + k <= Size, lo <= h, h + k <= lo + Size, lo <= x, x < lo + Size,
           x < h \/ h + k <= x
    PROVE  Index(x) \notin CellsOf(h, k)
<1> SUFFICES ASSUME Index(x) \in CellsOf(h, k)  PROVE FALSE
  OBVIOUS
<1>1. PICK y \in h..(h + k - 1) : Index(y) = Index(x)
  BY CellPosition
<1>2. y \in Nat /\ x - y < Size /\ y - x < Size /\ y # x
  BY <1>1, Constants
<1> QED  BY <1>1, <1>2, IndexInjective

-----------------------------------------------------------------------------
(***************************************************************************)
(* DataInv is inductive relative to ClaimInv.                              *)
(***************************************************************************)

\* The types of the counters and of a process's locals.
LEMMA Numbers ==
    ASSUME ClaimInv
    PROVE  /\ prod.head \in Nat /\ prod.tail \in Nat
           /\ cons.head \in Nat /\ cons.tail \in Nat
           /\ \A p \in Procs : old[p] \in Nat /\ n[p] \in Nat
BY DEF ClaimInv, TypeOK, HeadTail

\* All claims lie within one ring from cons.tail on.
LEMMA ClaimSpan ==
    ASSUME ClaimInv, NEW p \in Procs, Claimed(p)
    PROVE  /\ old[p] \in Nat /\ n[p] \in Nat /\ 1 <= n[p]
           /\ cons.tail <= old[p] /\ old[p] + n[p] <= prod.head
           /\ prod.head < cons.tail + Size
<1>1. prod.head < cons.tail + Size
  BY Numbers, Constants DEF ClaimInv, RingOrder, Capacity
<1>2. CASE p \in Producers
  <2>1. EnqClaim(p)
    BY <1>2, RingAssumption
    DEF Claimed, EnqClaim, ClaimInv, TypeOK, EnqLabels
  <2>2. 1 <= n[p] /\ prod.tail <= old[p] /\ old[p] + n[p] <= prod.head
    BY <1>2, <2>1 DEF ClaimInv, EnqClaims, EnqRange
  <2> QED  BY <1>1, <2>2, Numbers DEF ClaimInv, RingOrder
<1>3. CASE p \in Consumers
  <2>1. DeqClaim(p)
    BY <1>3 DEF Claimed, DeqClaim, ClaimInv, TypeOK, DeqLabels
  <2>2. 1 <= n[p] /\ cons.tail <= old[p] /\ old[p] + n[p] <= cons.head
    BY <1>3, <2>1 DEF ClaimInv, DeqClaims, DeqRange
  <2> QED  BY <1>1, <2>2, Numbers DEF ClaimInv, RingOrder
<1> QED  BY <1>2, <1>3 DEF Procs

\* The claims of two processes are apart, whichever sides they are on.
LEMMA ClaimsApart ==
    ASSUME ClaimInv, NEW p \in Procs, NEW q \in Procs, p # q, Claimed(p), Claimed(q)
    PROVE  Apart(p, q)
<1>1. ASSUME NEW a \in Procs, Claimed(a), a \in Producers  PROVE EnqClaim(a)
  BY <1>1 DEF Claimed, EnqClaim, ClaimInv, TypeOK, EnqLabels
<1>2. ASSUME NEW a \in Procs, Claimed(a), a \in Consumers  PROVE DeqClaim(a)
  BY <1>2 DEF Claimed, DeqClaim, ClaimInv, TypeOK, DeqLabels
<1>3. ASSUME NEW a \in Producers, NEW b \in Consumers, EnqClaim(a), DeqClaim(b)
      PROVE  old[b] + n[b] <= old[a]
  <2>1. prod.tail <= old[a] /\ old[b] + n[b] <= cons.head
    BY <1>3 DEF ClaimInv, EnqClaims, EnqRange, DeqClaims, DeqRange
  <2> QED  BY <2>1, Numbers DEF ClaimInv, RingOrder, Procs
<1>4. CASE p \in Producers /\ q \in Producers
  BY <1>1, <1>4 DEF ClaimInv, EnqClaims, EnqDisjoint
<1>5. CASE p \in Consumers /\ q \in Consumers
  BY <1>2, <1>5 DEF ClaimInv, DeqClaims, DeqDisjoint
<1>6. CASE p \in Producers /\ q \in Consumers
  BY <1>1, <1>2, <1>3, <1>6 DEF Apart
<1>7. CASE p \in Consumers /\ q \in Producers
  BY <1>1, <1>2, <1>3, <1>7 DEF Apart
<1> QED  BY <1>4, <1>5, <1>6, <1>7 DEF Procs

\* The cell of a position between cons.tail and prod.head that is not claimed
\* by a process is not one the process copies.
LEMMA ClaimCells ==
    ASSUME ClaimInv, ClaimsFit, NEW p \in Procs, Claimed(p),
           NEW x \in cons.tail..(prod.head - 1), ~Covers(p, x)
    PROVE  Index(x) \notin CellsOf(old[p], n[p])
<1>1. /\ old[p] \in Nat /\ n[p] \in Nat /\ cons.tail \in Nat /\ x \in Nat
      /\ cons.tail <= old[p] /\ old[p] + n[p] <= cons.tail + Size
      /\ cons.tail <= x /\ x < cons.tail + Size
  BY ClaimSpan, Numbers, Constants
<1>2. x < old[p] \/ old[p] + n[p] <= x
  BY <1>1 DEF Covers
<1>3. Index(old[p]) + n[p] <= Size
  BY DEF ClaimsFit
<1> QED  BY <1>1, <1>2, <1>3, OutsideCells

\* A step that moves none of what the cells and the tables hold, and by which
\* nobody gains a claim.
LEMMA DataFrame ==
    ASSUME ClaimInv, DataInv, ClaimInv',
           UNCHANGED <<prod, ring, log, crossed>>, cons.tail <= cons'.tail,
           \A p \in Procs : Claimed(p)' =>
               pc'[p] = pc[p] /\ old'[p] = old[p] /\ n'[p] = n[p] /\ tbl'[p] = tbl[p]
    PROVE  DataInv'
<1>1. \A p \in Procs : Claimed(p)' => Claimed(p)
  BY DEF Claimed
<1>2. TablesLogged'
  BY DEF DataInv, TablesLogged, EnqClaim, Claimed, Procs
<1>3. ASSUME ~crossed  PROVE ClaimsFit'
  BY <1>1, <1>3 DEF DataInv, ClaimsFit
<1>4. ASSUME ~crossed  PROVE CellsHold'
  <2> SUFFICES ASSUME NEW x \in cons'.tail..(prod'.head - 1), Written(x)'
               PROVE  ring[Index(x)] = log[x + 1]
    BY DEF CellsHold
  <2>1. Written(x)
    BY DEF Written, Covers, Claimed, Procs
  <2>2. x \in cons.tail..(prod.head - 1)
    <3>1. cons'.tail \in Nat
      BY DEF ClaimInv, TypeOK, HeadTail
    <3> QED  BY <3>1, Numbers
  <2> QED  BY <1>4, <2>1, <2>2 DEF DataInv, CellsHold
<1>5. ASSUME ~crossed  PROVE TakenRight'
  BY <1>5 DEF DataInv, TakenRight, Claimed, Procs
<1> QED  BY <1>2, <1>3, <1>4, <1>5 DEF DataInv

\* A won claim of a producer is logged with the values it is about to copy.
LEMMA DataEnqCasOk ==
    ASSUME ClaimInv, DataInv, ClaimInv', NEW p \in Producers, EnqCasOk(p)
    PROVE  DataInv'
<1>0. p \in Procs /\ pc[p] = "prodCas"
  BY DEF Procs, EnqCasOk, At
<1>1. old[p] = prod.head
  BY <1>0, Numbers, U32Equal DEF EnqCasOk, At, ClaimInv, EnqClaims, EnqWindow, InEnqWindow
<1>2. 1 <= n[p] /\ n[p] <= Len(tbl[p])
  BY <1>0 DEF ClaimInv, EnqClaims, EnqWindow
<1>3. /\ prod' = [head |-> prod.head + n[p], tail |-> prod.tail]
      /\ pc' = [pc EXCEPT ![p] = "prodCopy"]
      /\ UNCHANGED <<cons, ring, old, n, max, tbl, crashed>>
      /\ pc \in [Procs -> {"idle", "count"} \cup EnqLabels \cup DeqLabels]
  BY Numbers DEF EnqCasOk, Goto, ClaimInv, TypeOK, HeadTail
<1>4. \A q \in Procs : q # p => pc'[q] = pc[q]
  BY <1>3
<1>5. /\ Len(log') = prod.head + n[p]
      /\ \A i \in 1..prod.head : log'[i] = log[i]
      /\ \A i \in 1..n[p] : log'[prod.head + i] = tbl[p][i]
  <2> DEFINE s == SubSeq(tbl[p], 1, n[p])
  <2>1. s \in Seq(Values) /\ Len(s) = n[p] /\ \A i \in 1..n[p] : s[i] = tbl[p][i]
    <3>1. tbl[p] \in Seq(Values) /\ n[p] \in Nat
      BY <1>0 DEF ClaimInv, TypeOK
    <3> QED  BY <1>2, <3>1
  <2>2. log \in Seq(Values) /\ Len(log) = prod.head /\ log' = log \o s
    BY DEF ClaimInv, TypeOK, DataInv, EnqCasOk
  <2> HIDE DEF s
  <2>3. Len(log') = Len(log) + Len(s)
    BY <2>1, <2>2, ConcatProperties
  <2>4. ASSUME NEW i \in 1..prod.head  PROVE log'[i] = log[i]
    BY <2>1, <2>2, Numbers
  <2>5. ASSUME NEW i \in 1..n[p]  PROVE log'[Len(log) + i] = s[i]
    <3>1. n[p] \in Nat /\ Len(log) \in Nat
      BY <1>0, <2>2 DEF ClaimInv, TypeOK
    <3> QED  BY <2>1, <2>2, <3>1
  <2> QED  BY <2>1, <2>2, <2>3, <2>4, <2>5
<1>6. TablesLogged'
  <2> SUFFICES ASSUME NEW q \in Producers, EnqClaim(q)', NEW i \in 1..n'[q]
               PROVE  tbl'[q][i] = log'[old'[q] + i]
    BY DEF TablesLogged
  <2>1. CASE q = p
    BY <1>1, <1>3, <1>5, <2>1
  <2>2. CASE q # p
    <3>1. EnqClaim(q) /\ q \in Procs
      BY <1>4, <2>2 DEF EnqClaim, Procs
    <3>2. tbl[q][i] = log[old[q] + i] /\ old[q] + n[q] <= prod.head
      BY <1>3, <3>1 DEF DataInv, TablesLogged, ClaimInv, EnqClaims, EnqRange
    <3>3. old[q] + i \in 1..prod.head
      BY <1>3, <3>1, <3>2, Numbers
    <3> QED  BY <1>3, <1>5, <3>2, <3>3
  <2> QED  BY <2>1, <2>2
<1>7. ASSUME ~crossed'  PROVE ~crossed /\ Index(old[p]) + n[p] <= Size
  <2>1. ~crossed /\ ~Crosses(old[p], n[p])
    BY <1>7 DEF EnqCasOk
  <2>2. Index(old[p]) \in 0..(Size - 1) /\ n[p] \in Nat
    BY <1>0, Numbers, IndexType
  <2> QED  BY <2>1, <2>2, Constants DEF Crosses
<1>8. ASSUME ~crossed'  PROVE ClaimsFit'
  <2> SUFFICES ASSUME NEW q \in Procs, Claimed(q)'  PROVE Index(old[q]) + n[q] <= Size
    BY <1>3 DEF ClaimsFit
  <2>1. CASE q # p
    BY <1>4, <1>7, <1>8, <2>1 DEF Claimed, DataInv, ClaimsFit
  <2> QED  BY <1>7, <1>8, <2>1
<1>9. ASSUME ~crossed'  PROVE CellsHold'
  <2> SUFFICES ASSUME NEW x \in cons'.tail..(prod'.head - 1), Written(x)'
               PROVE  ring'[Index(x)] = log'[x + 1]
    BY DEF CellsHold
  <2>0. ring' = ring /\ x \in cons.tail..((prod.head + n[p]) - 1)
    BY <1>3
  <2>1. Written(x) /\ x \in cons.tail..(prod.head - 1)
    <3>1. CASE x < prod'.tail
      BY <1>0, <1>3, <2>0, <3>1, Numbers DEF Written, ClaimInv, RingOrder
    <3>2. CASE \E q \in Producers : pc'[q] = "prodWait" /\ Covers(q, x)'
      <4>1. PICK q \in Producers : pc'[q] = "prodWait" /\ Covers(q, x)'
        BY <3>2
      <4>2. q # p /\ q \in Procs
        BY <1>0, <1>3, <4>1 DEF Procs
      <4>3. pc[q] = "prodWait" /\ Covers(q, x)
        BY <1>3, <1>4, <4>1, <4>2 DEF Covers
      <4>4. old[q] + n[q] <= prod.head
        BY <4>3 DEF EnqClaim, ClaimInv, EnqClaims, EnqRange
      <4> QED  BY <2>0, <4>2, <4>3, <4>4, Numbers DEF Written, Covers
    <3> QED  BY <3>1, <3>2 DEF Written
  <2>2. x + 1 \in 1..prod.head
    BY <2>1, Numbers
  <2> QED  BY <1>5, <1>7, <1>9, <2>0, <2>1, <2>2 DEF DataInv, CellsHold
<1>10. ASSUME ~crossed'  PROVE TakenRight'
  <2> SUFFICES ASSUME NEW c \in Consumers, pc'[c] = "consWait"
               PROVE  /\ Len(tbl[c]) = n[c]
                      /\ \A i \in 1..n[c] : tbl[c][i] = log'[old[c] + i]
    BY <1>3 DEF TakenRight
  <2>1. pc[c] = "consWait" /\ c \in Procs /\ Claimed(c)
    BY <1>0, <1>3 DEF Procs, Claimed
  <2>2. old[c] + n[c] <= prod.head
    BY <2>1, ClaimSpan
  <2>3. \A i \in 1..n[c] : old[c] + i \in 1..prod.head
    BY <2>1, <2>2, Numbers
  <2> QED  BY <1>5, <1>7, <1>10, <2>1, <2>3 DEF DataInv, TakenRight
<1> QED  BY <1>3, <1>5, <1>6, <1>8, <1>9, <1>10 DEF DataInv

\* The copy loop of a producer writes its own positions and nobody else's.
LEMMA DataEnqCopy ==
    ASSUME ClaimInv, DataInv, ClaimInv', NEW p \in Producers, EnqCopy(p)
    PROVE  DataInv'
<1>0. p \in Procs /\ pc[p] = "prodCopy" /\ EnqClaim(p) /\ Claimed(p)
  BY DEF Procs, EnqCopy, At, EnqClaim, Claimed
<1>1. /\ pc' = [pc EXCEPT ![p] = "prodWait"]
      /\ pc \in [Procs -> {"idle", "count"} \cup EnqLabels \cup DeqLabels]
      /\ UNCHANGED <<prod, cons, old, n, max, tbl, crashed, log, crossed>>
  BY DEF EnqCopy, Goto, ClaimInv, TypeOK
<1>2. \A q \in Procs : q # p => pc'[q] = pc[q]
  BY <1>1
<1>3. TablesLogged'
  BY <1>0, <1>1, <1>2 DEF DataInv, TablesLogged, EnqClaim, Procs
<1>4. ASSUME ~crossed  PROVE ClaimsFit'
  BY <1>0, <1>1, <1>2, <1>4 DEF DataInv, ClaimsFit, Claimed
<1>5. ASSUME ~crossed  PROVE CellsHold'
  <2> SUFFICES ASSUME NEW x \in cons.tail..(prod.head - 1), Written(x)'
               PROVE  ring'[Index(x)] = log[x + 1]
    BY <1>1 DEF CellsHold
  <2>1. /\ x \in Nat /\ old[p] \in Nat /\ n[p] \in Nat
        /\ Index(x) \in 0..(Cells - 1) /\ Index(old[p]) + n[p] <= Size
    <3>1. x \in Nat
      BY Numbers
    <3>2. Index(x) \in 0..(Size - 1) /\ Size <= Cells
      BY <3>1, IndexType, Constants, RingAssumption
    <3> QED  BY <1>0, <1>5, <3>1, <3>2, Numbers, Constants, RingAssumption DEF DataInv, ClaimsFit
  <2>2. ring'[Index(x)] = IF Index(x) \in CellsOf(old[p], n[p])
                          THEN tbl[p][Index(x) - Index(old[p]) + 1] ELSE ring[Index(x)]
    BY <2>1 DEF EnqCopy, EnqueueElems
  <2>3. CASE Covers(p, x)
    <3> DEFINE i == x - old[p]
    <3>1. i \in Nat /\ i < n[p] /\ x = old[p] + i
      BY <2>1, <2>3 DEF Covers
    <3> HIDE DEF i
    <3>2. Index(old[p]) \in Nat
      BY <2>1, IndexType, Constants
    <3>3. Index(x) = Index(old[p]) + i
      BY <2>1, <3>1, <3>2, IndexStep, Constants
    <3>4. Index(x) \in CellsOf(old[p], n[p])
      BY <2>1, <3>1, <3>2, <3>3 DEF CellsOf
    <3>5. ring'[Index(x)] = tbl[p][i + 1]
      BY <2>2, <3>1, <3>2, <3>3, <3>4
    <3>6. tbl[p][i + 1] = log[old[p] + (i + 1)]
      BY <1>0, <2>1, <3>1 DEF DataInv, TablesLogged
    <3> QED  BY <2>1, <3>1, <3>5, <3>6
  <2>4. CASE ~Covers(p, x)
    <3>1. Index(x) \notin CellsOf(old[p], n[p])
      BY <1>0, <1>5, <2>4, ClaimCells DEF DataInv
    <3>2. Written(x)
      BY <1>1, <1>2, <2>4 DEF Written, Covers, Procs
    <3> QED  BY <1>5, <2>2, <3>1, <3>2 DEF DataInv, CellsHold
  <2> QED  BY <2>3, <2>4
<1>6. ASSUME ~crossed  PROVE TakenRight'
  BY <1>0, <1>1, <1>2, <1>6 DEF DataInv, TakenRight, Procs
<1> QED  BY <1>1, <1>3, <1>4, <1>5, <1>6 DEF DataInv

\* Publishing makes a claim's positions published; they were written before.
LEMMA DataEnqPublish ==
    ASSUME ClaimInv, DataInv, ClaimInv', NEW p \in Producers, EnqPublish(p)
    PROVE  DataInv'
<1>0. p \in Procs /\ pc[p] = "prodWait" /\ EnqClaim(p) /\ Claimed(p)
  BY DEF Procs, EnqPublish, At, EnqClaim, Claimed
<1>1. old[p] = prod.tail
  <2>1. old[p] - prod.tail < Modulus /\ prod.tail <= old[p]
    BY <1>0, Numbers, Constants DEF ClaimInv, RingOrder, EnqClaims, EnqRange
  <2> QED  BY <1>0, <2>1, Numbers, U32Equal DEF EnqPublish
<1>2. /\ prod'.head = prod.head /\ prod'.tail = prod.tail + n[p]
      /\ pc' = [pc EXCEPT ![p] = "idle"] /\ old' = [old EXCEPT ![p] = 0]
      /\ n' = [n EXCEPT ![p] = 0] /\ tbl' = [tbl EXCEPT ![p] = << >>]
      /\ UNCHANGED <<cons, ring, max, crashed, log, crossed>>
  BY DEF EnqPublish, Goto, EndLocals, ClaimInv, TypeOK, HeadTail
<1>3. \A q \in Procs : /\ q # p => /\ pc'[q] = pc[q] /\ old'[q] = old[q]
                                   /\ n'[q] = n[q] /\ tbl'[q] = tbl[q]
                       /\ Claimed(q)' => q # p
  BY <1>2 DEF ClaimInv, TypeOK, Claimed
<1>4. TablesLogged'
  BY <1>2, <1>3 DEF DataInv, TablesLogged, EnqClaim, Claimed, Procs
<1>5. ASSUME ~crossed  PROVE ClaimsFit'
  BY <1>3, <1>5 DEF DataInv, ClaimsFit, Claimed
<1>6. ASSUME ~crossed  PROVE CellsHold'
  <2> SUFFICES ASSUME NEW x \in cons'.tail..(prod'.head - 1), Written(x)'
               PROVE  ring'[Index(x)] = log'[x + 1]
    BY DEF CellsHold
  <2>1. x \in cons.tail..(prod.head - 1) /\ ring' = ring /\ log' = log
    BY <1>2
  <2>2. Written(x)
    <3>1. CASE x < prod'.tail
      <4>1. x < prod.tail \/ Covers(p, x)
        BY <1>0, <1>1, <1>2, <2>1, <3>1, Numbers DEF Covers
      <4> QED  BY <1>0, <4>1 DEF Written
    <3>2. CASE \E q \in Producers : pc'[q] = "prodWait" /\ Covers(q, x)'
      <4>1. PICK q \in Producers : pc'[q] = "prodWait" /\ Covers(q, x)'
        BY <3>2
      <4>2. q \in Procs /\ q # p
        BY <1>0, <1>3, <4>1 DEF Procs, Claimed
      <4> QED  BY <1>3, <4>1, <4>2 DEF Written, Covers
    <3> QED  BY <3>1, <3>2 DEF Written
  <2> QED  BY <1>6, <2>1, <2>2 DEF DataInv, CellsHold
<1>7. ASSUME ~crossed  PROVE TakenRight'
  BY <1>2, <1>3, <1>7 DEF DataInv, TakenRight, Claimed, Procs
<1> QED  BY <1>2, <1>4, <1>5, <1>6, <1>7 DEF DataInv

\* A won claim of a consumer ends within the ring, or the step sets crossed.
LEMMA DataDeqCasOk ==
    ASSUME ClaimInv, DataInv, ClaimInv', NEW c \in Consumers, DeqCasOk(c)
    PROVE  DataInv'
<1>0. c \in Procs /\ c \notin Producers
  BY RingAssumption DEF Procs
<1>1. /\ cons'.tail = cons.tail /\ pc' = [pc EXCEPT ![c] = "consCopy"]
      /\ UNCHANGED <<prod, ring, old, n, max, tbl, crashed, log>>
  BY DEF DeqCasOk, Goto, ClaimInv, TypeOK, HeadTail
<1>2. \A q \in Procs : pc'[q] = IF q = c THEN "consCopy" ELSE pc[q]
  BY <1>1 DEF ClaimInv, TypeOK
<1>3. TablesLogged'
  BY <1>0, <1>1, <1>2 DEF DataInv, TablesLogged, EnqClaim, Procs
<1>4. ASSUME ~crossed'  PROVE ~crossed /\ Index(old[c]) + n[c] <= Size
  <2>1. ~crossed /\ ~Crosses(old[c], n[c])
    BY <1>4 DEF DeqCasOk
  <2>2. Index(old[c]) \in 0..(Size - 1) /\ n[c] \in Nat
    BY <1>0, Numbers, IndexType
  <2> QED  BY <2>1, <2>2, Constants DEF Crosses
<1>5. ASSUME ~crossed'  PROVE ClaimsFit'
  <2> SUFFICES ASSUME NEW q \in Procs, Claimed(q)'  PROVE Index(old[q]) + n[q] <= Size
    BY <1>1 DEF ClaimsFit
  <2>1. CASE q # c
    BY <1>2, <1>4, <1>5, <2>1 DEF Claimed, DataInv, ClaimsFit
  <2> QED  BY <1>4, <1>5, <2>1
<1>6. ASSUME ~crossed'  PROVE CellsHold'
  <2>1. \A x \in cons.tail..(prod.head - 1) : Written(x)' => Written(x)
    BY <1>0, <1>1, <1>2 DEF Written, Covers, Procs
  <2> QED  BY <1>1, <1>4, <1>6, <2>1 DEF DataInv, CellsHold
<1>7. ASSUME ~crossed'  PROVE TakenRight'
  BY <1>1, <1>2, <1>4, <1>7 DEF DataInv, TakenRight, Procs
<1> QED  BY <1>1, <1>3, <1>5, <1>6, <1>7 DEF DataInv

\* The copy loop of a consumer reads published positions, which are written.
LEMMA DataDeqCopy ==
    ASSUME ClaimInv, DataInv, ClaimInv', NEW c \in Consumers, DeqCopy(c)
    PROVE  DataInv'
<1>0. c \in Procs /\ c \notin Producers /\ pc[c] = "consCopy" /\ DeqClaim(c) /\ Claimed(c)
  BY RingAssumption DEF Procs, DeqCopy, At, DeqClaim, Claimed
<1>1. /\ pc' = [pc EXCEPT ![c] = "consWait"]
      /\ tbl' = [tbl EXCEPT ![c] = DequeueElems(old[c], n[c])]
      /\ UNCHANGED <<prod, cons, ring, old, n, max, crashed, log, crossed>>
  BY DEF DeqCopy, Goto
<1>2. /\ \A q \in Procs : pc'[q] = IF q = c THEN "consWait" ELSE pc[q]
      /\ \A q \in Procs : q # c => tbl'[q] = tbl[q]
      /\ tbl'[c] = DequeueElems(old[c], n[c])
  BY <1>0, <1>1 DEF ClaimInv, TypeOK
<1>3. TablesLogged'
  BY <1>0, <1>1, <1>2 DEF DataInv, TablesLogged, EnqClaim, Procs
<1>4. ASSUME ~crossed  PROVE ClaimsFit'
  BY <1>0, <1>1, <1>2, <1>4 DEF DataInv, ClaimsFit, Claimed
<1>5. ASSUME ~crossed  PROVE CellsHold'
  <2>1. \A x \in cons.tail..(prod.head - 1) : Written(x)' => Written(x)
    BY <1>0, <1>1, <1>2 DEF Written, Covers, Procs
  <2> QED  BY <1>1, <1>5, <2>1 DEF DataInv, CellsHold
<1>6. ASSUME ~crossed, NEW i \in 1..n[c]
      PROVE  ring[Index(old[c]) + i - 1] = log[old[c] + i]
  <2>1. /\ old[c] \in Nat /\ n[c] \in Nat /\ Index(old[c]) \in Nat
        /\ Index(old[c]) + n[c] <= Size
    <3>1. old[c] \in Nat /\ n[c] \in Nat
      BY <1>0, Numbers
    <3>2. Index(old[c]) \in Nat
      BY <3>1, IndexType, Constants
    <3> QED  BY <1>0, <1>6, <3>1, <3>2 DEF DataInv, ClaimsFit
  <2> DEFINE j == i - 1
             x == old[c] + j
  <2>2. j \in Nat /\ Index(old[c]) + j < Size /\ x \in Nat /\ x + 1 = old[c] + i
    BY <1>6, <2>1, Constants
  <2>3. x \in cons.tail..(prod.head - 1) /\ x < prod.tail
    <3>1. cons.tail <= old[c] /\ old[c] + n[c] <= cons.head
      BY <1>0 DEF ClaimInv, DeqClaims, DeqRange
    <3> QED  BY <1>6, <2>1, <3>1, Numbers DEF ClaimInv, RingOrder
  <2>4. Index(old[c]) + i - 1 = Index(old[c]) + j
    BY <1>6, <2>1
  <2> HIDE DEF j
  <2>5. Index(x) = Index(old[c]) + j
    BY <2>1, <2>2, IndexStep
  <2>6. ring[Index(x)] = log[x + 1]
    BY <1>6, <2>3 DEF DataInv, CellsHold, Written
  <2> QED  BY <2>2, <2>4, <2>5, <2>6
<1>7. ASSUME ~crossed  PROVE TakenRight'
  <2> SUFFICES ASSUME NEW d \in Consumers, pc'[d] = "consWait"
               PROVE  /\ Len(tbl'[d]) = n[d]
                      /\ \A i \in 1..n[d] : tbl'[d][i] = log[old[d] + i]
    BY <1>1 DEF TakenRight
  <2>1. CASE d = c
    <3>1. n[c] \in Nat
      BY <1>0, Numbers
    <3> QED  BY <1>2, <1>6, <1>7, <2>1, <3>1 DEF DequeueElems
  <2>2. CASE d # c
    BY <1>2, <1>7, <2>2 DEF DataInv, TakenRight, Procs
  <2> QED  BY <2>1, <2>2
<1> QED  BY <1>1, <1>3, <1>4, <1>5, <1>7 DEF DataInv

\* The other steps move nothing that the cells and the tables hold.
LEMMA DataOthers ==
    ASSUME ClaimInv, DataInv, ClaimInv', NEW p \in Procs,
           \/ p \in Producers /\ \/ \E t \in PutTables : EnqStart(p, t)
                                 \/ EnqLoadTail(p) \/ EnqCasFail(p)
           \/ p \in Consumers /\ \/ \E k \in 1..MaxTake : DeqStart(p, k)
                                 \/ DeqLoadTail(p) \/ DeqCasFail(p) \/ DeqRelease(p)
           \/ CountStart(p) \/ CountEnd(p) \/ Crash(p)
    PROVE  DataInv'
<1>1. UNCHANGED <<prod, ring, log, crossed>>
  BY DEF EnqStart, EnqLoadTail, EnqCasFail, DeqStart, DeqLoadTail, DeqCasFail, DeqRelease,
         CountStart, CountEnd, Crash
<1>2. cons.tail <= cons'.tail
  <2>0. cons.tail \in Nat /\ cons.tail <= cons.tail
    <3>1. cons.tail \in Nat
      BY Numbers, SMTT(20)
    <3> QED  BY <3>1
  <2>1. CASE DeqRelease(p)
    BY <2>1, Numbers DEF DeqRelease, ClaimInv, TypeOK, HeadTail
  <2>2. CASE cons' = cons
    BY ONLY <2>0, <2>2
  <2>3. DeqRelease(p) \/ cons' = cons
    BY DEF EnqStart, EnqLoadTail, EnqCasFail, DeqStart, DeqLoadTail, DeqCasFail,
           CountStart, CountEnd, Crash
  <2> QED  BY ONLY <2>1, <2>2, <2>3
<1>3. ASSUME NEW q \in Procs, Claimed(q)'
      PROVE  pc'[q] = pc[q] /\ old'[q] = old[q] /\ n'[q] = n[q] /\ tbl'[q] = tbl[q]
  <2>1. CASE Crash(p)
    BY <2>1 DEF Crash
  <2>2. CASE p \in Producers /\ \E t \in PutTables : EnqStart(p, t)
    BY <1>3, <2>2 DEF EnqStart, Goto, Claimed, ClaimInv, TypeOK
  <2>3. CASE EnqLoadTail(p)
    BY <1>3, <2>3 DEF EnqLoadTail, EndLocals, Goto, Claimed, ClaimInv, TypeOK
  <2>4. CASE EnqCasFail(p)
    BY <1>3, <2>4 DEF EnqCasFail, Goto, Claimed, ClaimInv, TypeOK
  <2>5. CASE \E k \in 1..MaxTake : DeqStart(p, k)
    BY <1>3, <2>5 DEF DeqStart, Goto, Claimed, ClaimInv, TypeOK
  <2>6. CASE DeqLoadTail(p)
    BY <1>3, <2>6 DEF DeqLoadTail, EndLocals, Goto, Claimed, ClaimInv, TypeOK
  <2>7. CASE DeqCasFail(p)
    BY <1>3, <2>7 DEF DeqCasFail, Goto, Claimed, ClaimInv, TypeOK
  <2>8. CASE DeqRelease(p)
    BY <1>3, <2>8 DEF DeqRelease, EndLocals, Goto, Claimed, ClaimInv, TypeOK
  <2>9. CASE CountStart(p)
    BY <1>3, <2>9 DEF CountStart, Goto, Claimed, ClaimInv, TypeOK
  <2>10. CASE CountEnd(p)
    BY <1>3, <2>10 DEF CountEnd, EndLocals, Goto, Claimed, ClaimInv, TypeOK
  <2> QED  BY <2>1, <2>2, <2>3, <2>4, <2>5, <2>6, <2>7, <2>8, <2>9, <2>10
<1> QED  BY <1>1, <1>2, <1>3, DataFrame

\* Every step preserves DataInv.
LEMMA DataStep == ClaimInv /\ DataInv /\ ClaimInv' /\ [Next]_vars => DataInv'
<1> SUFFICES ASSUME ClaimInv, DataInv, ClaimInv', [Next]_vars  PROVE DataInv'
  OBVIOUS
<1>1. ASSUME NEW p \in Producers, EnqStep(p) \/ \E t \in PutTables : EnqStart(p, t)
      PROVE  DataInv'
  <2>1. p \in Procs
    BY DEF Procs
  <2> QED
    BY <1>1, <2>1, DataEnqCasOk, DataEnqCopy, DataEnqPublish, DataOthers DEF EnqStep
<1>2. ASSUME NEW c \in Consumers, DeqStep(c) \/ \E k \in 1..MaxTake : DeqStart(c, k)
      PROVE  DataInv'
  <2>1. c \in Procs
    BY DEF Procs
  <2> QED
    BY <1>2, <2>1, DataDeqCasOk, DataDeqCopy, DataOthers DEF DeqStep
<1>3. ASSUME NEW p \in Procs, CountStart(p) \/ CountEnd(p) \/ Crash(p)  PROVE DataInv'
  BY <1>3, DataOthers
<1>4. CASE UNCHANGED vars
  BY <1>4, DataFrame, Numbers DEF vars
<1> QED  BY <1>1, <1>2, <1>3, <1>4 DEF Next

\* DataInv is an invariant of the ring.
THEOREM DataInvariant == Spec => []DataInv
<1>1. Init => DataInv
  <2> SUFFICES ASSUME Init  PROVE DataInv
    OBVIOUS
  <2>1. /\ prod.head = 0 /\ prod.tail = 0 /\ cons.tail = 0 /\ Len(log) = 0
        /\ \A p \in Procs : pc[p] = "idle"
    BY DEF Init
  <2>2. TablesLogged /\ ClaimsFit
    BY <2>1 DEF TablesLogged, ClaimsFit, EnqClaim, Claimed, Procs
  <2>3. CellsHold
    <3>1. cons.tail..(prod.head - 1) = {}
      BY <2>1
    <3> QED  BY <3>1 DEF CellsHold
  <2>4. TakenRight
    BY <2>1 DEF TakenRight, Procs
  <2> QED  BY <2>1, <2>2, <2>3, <2>4 DEF DataInv
<1>2. ClaimInv /\ DataInv /\ ClaimInv' /\ [Next]_vars => DataInv'
  BY DataStep
<1> QED  BY <1>1, <1>2, ClaimInvariant, PTL DEF Spec

\* Two processes in the copy loops touch different cells, until a burst runs
\* past the last cell: the plain copies do not race.
THEOREM CopiesExclusive == Spec => []ExclusiveCells
<1>1. ClaimInv /\ DataInv => ExclusiveCells
  <2> SUFFICES ASSUME ClaimInv, DataInv, ~crossed,
                      NEW p \in Copying, NEW q \in Copying, p # q,
                      NEW c \in CellsOf(old[p], n[p])
               PROVE  c \notin CellsOf(old[q], n[q])
    BY DEF ExclusiveCells
  <2>1. p \in Procs /\ q \in Procs /\ Claimed(p) /\ Claimed(q) /\ ClaimsFit
    BY DEF Copying, Claimed, DataInv
  <2>2. /\ old[p] \in Nat /\ n[p] \in Nat /\ old[q] \in Nat /\ n[q] \in Nat
        /\ cons.tail <= old[p] /\ old[p] + n[p] <= prod.head
    BY <2>1, ClaimSpan
  <2>3. PICK x \in old[p]..(old[p] + n[p] - 1) : Index(x) = c
    BY <2>1, <2>2, CellPosition DEF ClaimsFit
  <2>4. x \in cons.tail..(prod.head - 1)
    BY <2>2, Numbers
  <2>5. ~Covers(q, x)
    BY <2>1, <2>2, ClaimsApart DEF Apart, Covers
  <2> QED  BY <2>1, <2>3, <2>4, <2>5, ClaimCells
<1> QED  BY <1>1, ClaimInvariant, DataInvariant, PTL

\* What a dequeue burst returns is what was enqueued at the positions it
\* claimed, until a burst runs past the last cell.
THEOREM DeliveryCorrect == Spec => []DeliveredInOrder
<1>1. ClaimInv /\ DataInv => DeliveredInOrder
  <2> SUFFICES ASSUME ClaimInv, DataInv, ~crossed, NEW c \in Consumers, pc[c] = "consWait"
               PROVE  tbl[c] = SubSeq(log, old[c] + 1, old[c] + n[c])
    BY DEF DeliveredInOrder, InOrder
  <2>1. c \in Procs /\ Claimed(c)
    BY DEF Procs, Claimed
  <2>2. /\ old[c] \in Nat /\ n[c] \in Nat /\ old[c] + n[c] <= prod.head
        /\ Len(log) = prod.head /\ log \in Seq(Values)
    BY <2>1, ClaimSpan DEF DataInv, ClaimInv, TypeOK
  <2>3. /\ tbl[c] \in Seq(Content) /\ Len(tbl[c]) = n[c]
        /\ \A i \in 1..n[c] : tbl[c][i] = log[old[c] + i]
    BY <2>1 DEF DataInv, TakenRight, ClaimInv, TypeOK
  <2> DEFINE s == SubSeq(log, old[c] + 1, old[c] + n[c])
  <2>4. s \in Seq(Values) /\ Len(s) = n[c]
    BY <2>2
  <2>5. ASSUME NEW i \in 1..n[c]  PROVE s[i] = log[old[c] + i]
    BY <2>2
  <2> HIDE DEF s
  <2>6. tbl[c] = s
    BY <2>3, <2>4, <2>5
  <2> QED  BY <2>6 DEF s
<1> QED  BY <1>1, ClaimInvariant, DataInvariant, PTL

\* Only the copy loop of a producer writes cells, and not those of published
\* positions.
LEMMA CellsStable ==
    ASSUME ClaimInv, DataInv, ~crossed, [Next]_vars, NEW x \in cons.tail..(prod.tail - 1)
    PROVE  ring'[Index(x)] = ring[Index(x)]
<1>1. CASE \E p \in Producers : EnqCopy(p)
  <2>1. PICK p \in Producers : EnqCopy(p)
    BY <1>1
  <2>2. p \in Procs /\ EnqClaim(p) /\ Claimed(p)
    BY <2>1 DEF Procs, EnqCopy, At, EnqClaim, Claimed
  <2>3. x \in cons.tail..(prod.head - 1) /\ x \in Nat
    BY Numbers DEF ClaimInv, RingOrder
  <2>4. ~Covers(p, x)
    BY <2>2, <2>3, Numbers DEF Covers, ClaimInv, EnqClaims, EnqRange
  <2>5. Index(x) \notin CellsOf(old[p], n[p])
    BY <2>2, <2>3, <2>4, ClaimCells DEF DataInv
  <2>6. Index(x) \in 0..(Cells - 1)
    BY <2>3, IndexType, Constants, RingAssumption
  <2> QED  BY <2>1, <2>5, <2>6 DEF EnqCopy, EnqueueElems
<1>2. CASE ring' = ring
  BY <1>2
<1> QED
  BY <1>1, <1>2
  DEF Next, EnqStep, DeqStep, EnqStart, EnqLoadTail, EnqCasOk, EnqCasFail, EnqPublish,
      DeqStart, DeqLoadTail, DeqCasOk, DeqCasFail, DeqCopy, DeqRelease, CountStart,
      CountEnd, Crash, vars

\* No step changes the cell of a published entry before it is released, until
\* a burst runs past the last cell.
THEOREM PublishedCorrect == Spec => PublishedStable
<1>1. ClaimInv /\ DataInv /\ [Next]_vars =>
          [~crossed => \A q \in cons.tail..(prod.tail - 1) :
               ring'[Index(q)] = ring[Index(q)]]_vars
  BY CellsStable
<1> QED  BY <1>1, ClaimInvariant, DataInvariant, PTL DEF Spec, PublishedStable

-----------------------------------------------------------------------------
(***************************************************************************)
(* The ring implements the bounded FIFO queue of Fifo as long as no burst  *)
(* runs past the last cell; with single entries none does.                 *)
(***************************************************************************)
\* The entries of the queue are values in published cells.
LEMMA ItemsType ==
    ASSUME ClaimInv
    PROVE  /\ prod.tail - cons.head \in Nat
           /\ \A i \in 1..(prod.tail - cons.head) : cons.head + i - 1 \in cons.tail..(prod.tail - 1)
           /\ ItemsBar \in Seq(Content) /\ Len(ItemsBar) = prod.tail - cons.head
           /\ \A i \in 1..Len(ItemsBar) : ItemsBar[i] = ring[Index(cons.head + i - 1)]
<1>1. prod.tail - cons.head \in Nat
  BY Numbers DEF ClaimInv, RingOrder
<1>2. \A i \in 1..(prod.tail - cons.head) : cons.head + i - 1 \in cons.tail..(prod.tail - 1)
  BY Numbers DEF ClaimInv, RingOrder
<1>3. ItemsBar \in [1..(prod.tail - cons.head) -> Content]
  <2> SUFFICES ASSUME NEW i \in 1..(prod.tail - cons.head)
               PROVE  ring[Index(cons.head + i - 1)] \in Content
    BY DEF ItemsBar
  <2>1. cons.head + i - 1 \in Nat
    BY <1>2, Numbers
  <2>2. Index(cons.head + i - 1) \in 0..(Cells - 1)
    BY <2>1, IndexType, Constants, RingAssumption
  <2> QED  BY <2>2 DEF ClaimInv, TypeOK
<1>4. ItemsBar \in Seq(Content) /\ Len(ItemsBar) = prod.tail - cons.head
  BY <1>1, <1>3
<1> QED  BY <1>1, <1>2, <1>4 DEF ItemsBar

\* While nothing is published or claimed by a consumer the queue is the same.
LEMMA ItemsStable ==
    ASSUME ClaimInv, DataInv, ~crossed, [Next]_vars,
           prod'.tail = prod.tail, cons'.head = cons.head
    PROVE  ItemsBar' = ItemsBar
<1>1. \A i \in 1..(prod.tail - cons.head) :
          ring'[Index(cons.head + i - 1)] = ring[Index(cons.head + i - 1)]
  BY ItemsType, CellsStable
<1> QED  BY <1>1 DEF ItemsBar

\* A consumer in the copy loop looks at published cells only.
LEMMA TakingPublished ==
    ASSUME ClaimInv, NEW c \in Consumers, pc[c] = "consCopy", NEW i \in 1..n[c]
    PROVE  old[c] + i - 1 \in cons.tail..(prod.tail - 1)
<1>1. c \in Procs /\ DeqClaim(c)
  BY DEF Procs, DeqClaim
<1>2. cons.tail <= old[c] /\ old[c] + n[c] <= cons.head
  BY <1>1 DEF ClaimInv, DeqClaims, DeqRange
<1> QED  BY <1>1, <1>2, Numbers DEF ClaimInv, RingOrder

\* A step of others leaves a consumer what it was handed.
LEMMA GotStable ==
    ASSUME ClaimInv, DataInv, ~crossed, [Next]_vars, NEW c \in Consumers,
           pc'[c] = pc[c] \/ (pc[c] # "consCopy" /\ pc'[c] # "consCopy"),
           old'[c] = old[c] \/ pc[c] # "consCopy", n'[c] = n[c] \/ pc[c] # "consCopy",
           tbl'[c] = tbl[c]
    PROVE  GotBar'[c] = GotBar[c]
<1>1. CASE pc[c] = "consCopy"
  <2>1. pc'[c] = pc[c] /\ old'[c] = old[c] /\ n'[c] = n[c]
    BY <1>1
  <2>2. \A i \in 1..n[c] : ring'[Index(old[c] + i - 1)] = ring[Index(old[c] + i - 1)]
    BY <1>1, TakingPublished, CellsStable
  <2> QED  BY <1>1, <2>1, <2>2 DEF GotBar
<1>2. CASE pc[c] # "consCopy"
  BY <1>2 DEF GotBar
<1> QED  BY <1>1, <1>2

\* GotBar is a function on the consumers.
LEMMA GotBarEqual ==
    ASSUME \A c \in Consumers : GotBar'[c] = GotBar[c]
    PROVE  GotBar' = GotBar
BY DEF GotBar

\* A store of prod.tail appends the burst to the queue.
LEMMA PublishPuts ==
    ASSUME ClaimInv, DataInv, ~crossed, [Next]_vars, NEW p \in Producers, EnqPublish(p)
    PROVE  \E s \in Queue!Bursts : Queue!Put(s)
<1>0. /\ p \in Procs /\ p \notin Consumers /\ pc[p] = "prodWait" /\ EnqClaim(p) /\ Claimed(p)
  BY RingAssumption DEF Procs, EnqPublish, At, EnqClaim, Claimed
<1>1. old[p] = prod.tail
  <2>1. old[p] - prod.tail < Modulus /\ prod.tail <= old[p]
    <3>1. prod.tail \in Nat /\ prod.head \in Nat /\ cons.tail \in Nat
      BY Numbers
    <3>2. /\ old[p] \in Nat /\ n[p] \in Nat
          /\ old[p] + n[p] <= prod.head /\ prod.head < cons.tail + Size
      BY <1>0, ClaimSpan
    <3>3. prod.tail <= old[p]
      BY <1>0 DEF ClaimInv, EnqClaims, EnqRange
    <3>4. cons.tail <= prod.tail
      BY <3>1, Numbers DEF ClaimInv, RingOrder
    <3>5. Size \in Nat /\ Modulus \in Nat /\ Size <= Modulus
      BY Constants
    <3> QED  BY <3>1, <3>2, <3>3, <3>4, <3>5
  <2> QED  BY <1>0, <2>1, Numbers, U32Equal DEF EnqPublish
<1>2. /\ prod'.tail = prod.tail + n[p] /\ cons' = cons /\ ring' = ring
      /\ pc' = [pc EXCEPT ![p] = "idle"] /\ old' = [old EXCEPT ![p] = 0]
      /\ n' = [n EXCEPT ![p] = 0] /\ tbl' = [tbl EXCEPT ![p] = << >>]
  BY DEF EnqPublish, Goto, EndLocals, ClaimInv, TypeOK, HeadTail
<1>3. 1 <= n[p] /\ n[p] <= Len(tbl[p]) /\ Len(tbl[p]) <= MaxPut /\ tbl[p] \in Seq(Values)
  BY <1>0 DEF ClaimInv, EnqClaims, EnqRange, TypeOK
<1>4. n[p] \in 1..MaxPut
  BY <1>0, <1>3, Numbers, Constants
<1> DEFINE s == [i \in 1..n[p] |-> tbl[p][i]]
<1>5. s \in [1..n[p] -> Values] /\ s \in Seq(Values) /\ Len(s) = n[p]
  BY <1>0, <1>3, Numbers
<1>6. s \in Queue!Bursts
  BY <1>4, <1>5 DEF Queue!Bursts
<1>7. Len(ItemsBar) + Len(s) <= Capacity
  <2>1. old[p] + n[p] <= prod.head
    BY <1>0, ClaimSpan
  <2> QED  BY <1>0, <1>1, <1>5, <2>1, ItemsType, Numbers, Constants DEF ClaimInv, RingOrder
<1>8. \A i \in 1..n[p] : ring[Index(prod.tail + i - 1)] = s[i]
  <2> SUFFICES ASSUME NEW i \in 1..n[p]
               PROVE  ring[Index(prod.tail + i - 1)] = tbl[p][i]
    OBVIOUS
  <2>1. /\ prod.tail + i - 1 \in cons.tail..(prod.head - 1) /\ Covers(p, prod.tail + i - 1)
        /\ (prod.tail + i - 1) + 1 = old[p] + i
    BY <1>0, <1>1, ClaimSpan, Numbers DEF Covers, ClaimInv, RingOrder
  <2>2. ring[Index(prod.tail + i - 1)] = log[(prod.tail + i - 1) + 1]
    BY <1>0, <2>1 DEF DataInv, CellsHold, Written
  <2>3. tbl[p][i] = log[old[p] + i]
    BY <1>0 DEF DataInv, TablesLogged
  <2> QED  BY <2>1, <2>2, <2>3
<1>9. ItemsBar' = ItemsBar \o s
  <2> DEFINE m == prod.tail - cons.head
             new == [i \in 1..(m + n[p]) |-> ring[Index(cons.head + i - 1)]]
  <2>1. ItemsBar' = new
    <3>1. prod'.tail - cons'.head = m + n[p]
      BY <1>0, <1>2, Numbers
    <3> QED  BY <1>2, <3>1 DEF ItemsBar
  <2>2. /\ m \in Nat /\ n[p] \in Nat /\ ItemsBar \in Seq(Content) /\ Len(ItemsBar) = m
        /\ \A i \in 1..m : ItemsBar[i] = ring[Index(cons.head + i - 1)]
    BY <1>0, ItemsType, Numbers
  <2>3. s \in Seq(Content)
    BY <1>5 DEF Content
  <2>4. \A i \in 1..n[p] : ring[Index(cons.head + (m + i) - 1)] = s[i]
    <3>1. \A i \in 1..n[p] : cons.head + (m + i) - 1 = prod.tail + i - 1
      BY Numbers
    <3> QED  BY <1>8, <3>1
  <2> HIDE DEF m, s
  <2>5. ItemsBar \o s \in Seq(Content) /\ Len(ItemsBar \o s) = m + n[p]
    BY <1>5, <2>2, <2>3, ConcatProperties DEF s
  <2>6. ASSUME NEW i \in 1..(m + n[p])
        PROVE  (ItemsBar \o s)[i] = ring[Index(cons.head + i - 1)]
    <3>0. Len(s) = n[p]
      BY <1>5 DEF s
    <3>1. CASE i <= m
      BY <2>2, <2>3, <3>0, <3>1
    <3>2. CASE i > m
      <4>1. i - m \in 1..n[p] /\ m + (i - m) = i
        BY <2>2, <3>2
      <4>2. (ItemsBar \o s)[i] = s[i - m]
        BY <2>2, <2>3, <3>0, <3>2
      <4> QED  BY <2>4, <4>1, <4>2
    <3>3. i <= m \/ i > m
      BY <2>2
    <3> QED  BY <3>1, <3>2, <3>3
  <2>7. ItemsBar \o s = new
    <3> DEFINE t == ItemsBar \o s
    <3>1. t \in Seq(Content) /\ Len(t) = m + n[p]
      BY <2>5
    <3>2. \A i \in 1..(m + n[p]) : t[i] = ring[Index(cons.head + i - 1)]
      BY <2>6
    <3> HIDE DEF t
    <3>3. t = [i \in 1..Len(t) |-> t[i]]
      BY <3>1
    <3>4. t = new
      BY <3>1, <3>2, <3>3
    <3> QED  BY <3>4 DEF t
  <2> QED  BY <2>1, <2>7
<1>10. GotBar' = GotBar
  <2>1. \A c \in Consumers : /\ pc'[c] = pc[c] /\ old'[c] = old[c]
                             /\ n'[c] = n[c] /\ tbl'[c] = tbl[c]
    BY <1>0, <1>2 DEF ClaimInv, TypeOK, Procs
  <2> QED  BY <2>1, GotStable, GotBarEqual
<1> HIDE DEF s
<1> QED  BY <1>6, <1>7, <1>9, <1>10 DEF Queue!Put

\* A won claim of a consumer takes its entries off the front of the queue.
LEMMA ClaimTakes ==
    ASSUME ClaimInv, DataInv, ~crossed, [Next]_vars, NEW c \in Consumers, DeqCasOk(c)
    PROVE  \E k \in 1..MaxTake : Queue!Take(c, k)
<1>0. c \in Procs /\ c \notin Producers /\ pc[c] = "consCas"
  BY RingAssumption DEF Procs, DeqCasOk, At
<1>1. old[c] = cons.head
  BY <1>0, Numbers, U32Equal DEF DeqCasOk, At, ClaimInv, DeqClaims, DeqWindow, InDeqWindow
<1>2. 1 <= n[c] /\ n[c] <= MaxTake /\ cons.head + n[c] <= prod.tail
  BY <1>0, <1>1 DEF ClaimInv, DeqClaims, DeqWindow
<1>3. /\ cons'.head = cons.head + n[c] /\ pc' = [pc EXCEPT ![c] = "consCopy"]
      /\ UNCHANGED <<prod, ring, old, n, tbl>>
  BY DEF DeqCasOk, Goto, ClaimInv, TypeOK, HeadTail
<1> DEFINE k == n[c]
           m == prod.tail - cons.head
<1>4. k \in 1..MaxTake /\ m \in Nat /\ k <= m /\ Len(ItemsBar) = m
  <2>1. prod.tail \in Nat /\ cons.head \in Nat /\ n[c] \in Nat /\ MaxTake \in Nat
    BY <1>0, Numbers, Constants
  <2>2. k \in 1..MaxTake /\ m \in Nat /\ k <= m
    BY <1>2, <2>1
  <2> QED  BY <2>2, ItemsType
<1>5. ItemsBar \in Seq(Content) /\ \A i \in 1..m : ItemsBar[i] = ring[Index(cons.head + i - 1)]
  BY ItemsType
<1>6. GotBar'[c] = SubSeq(ItemsBar, 1, k)
  <2> DEFINE s == SubSeq(ItemsBar, 1, k)
  <2>1. GotBar'[c] = [i \in 1..k |-> ring[Index(cons.head + i - 1)]]
    <3>1. pc'[c] = "consCopy"
      BY <1>0, <1>3 DEF ClaimInv, TypeOK
    <3> QED  BY <1>1, <1>3, <3>1 DEF GotBar
  <2>2. s \in Seq(Content) /\ Len(s) = k
    BY <1>4, <1>5
  <2>3. ASSUME NEW i \in 1..k  PROVE s[i] = ring[Index(cons.head + i - 1)]
    BY <1>4, <1>5
  <2> HIDE DEF s
  <2>4. s = [i \in 1..Len(s) |-> s[i]]
    BY <2>2
  <2>5. GotBar'[c] = s
    BY <2>1, <2>2, <2>3, <2>4
  <2> QED  BY <2>5 DEF s
<1>7. ASSUME NEW d \in Consumers, d # c  PROVE GotBar'[d] = GotBar[d]
  <2>1. pc'[d] = pc[d]
    BY <1>3, <1>7 DEF ClaimInv, TypeOK, Procs
  <2> QED  BY <1>3, <2>1, GotStable
<1>8. GotBar' = [GotBar EXCEPT ![c] = SubSeq(ItemsBar, 1, k)]
  <2>1. GotBar' = [d \in Consumers |-> GotBar'[d]] /\ GotBar = [d \in Consumers |-> GotBar[d]]
    BY DEF GotBar
  <2> QED  BY <1>6, <1>7, <2>1
<1>9. ItemsBar' = SubSeq(ItemsBar, k + 1, Len(ItemsBar))
  <2> DEFINE s == SubSeq(ItemsBar, k + 1, m)
  <2>1. ItemsBar' = [i \in 1..(m - k) |-> ring[Index(cons.head + (k + i) - 1)]]
    <3>1. prod'.tail - cons'.head = m - k
      <4>1. prod'.tail = prod.tail /\ cons'.head = cons.head + k
        BY <1>3
      <4>2. prod.tail \in Nat /\ cons.head \in Nat
        BY Numbers
      <4>3. k \in Nat
        BY <1>4, Constants
      <4> QED  BY <4>1, <4>2, <4>3
    <3>2. \A i \in 1..(m - k) : cons'.head + i - 1 = cons.head + (k + i) - 1
      <4>1. cons'.head = cons.head + k /\ cons.head \in Nat
        BY <1>3, Numbers
      <4>2. k \in Nat /\ m \in Nat
        BY <1>4, Constants
      <4> HIDE DEF k, m
      <4> QED  BY <4>1, <4>2
    <3> QED  BY <1>3, <3>1, <3>2 DEF ItemsBar
  <2>2. s \in Seq(Content) /\ Len(s) = m - k
    BY <1>4, <1>5
  <2>3. ASSUME NEW i \in 1..(m - k)  PROVE s[i] = ring[Index(cons.head + (k + i) - 1)]
    <3>1. k + i \in 1..m
      BY <1>4
    <3>2. s[i] = ItemsBar[k + i]
      BY <1>4, <1>5
    <3> QED  BY <1>5, <3>1, <3>2
  <2> HIDE DEF s
  <2>4. s = [i \in 1..Len(s) |-> s[i]]
    BY <2>2
  <2>5. ItemsBar' = s
    BY <2>1, <2>2, <2>3, <2>4
  <2> QED  BY <1>4, <2>5 DEF s
<1>10. Queue!Take(c, k)
  BY <1>4, <1>8, <1>9 DEF Queue!Take
<1> QED  BY <1>4, <1>10

\* What a consumer copies is what it was handed when it claimed.
LEMMA CopyKeepsGot ==
    ASSUME ClaimInv, DataInv, ~crossed, [Next]_vars, NEW c \in Consumers, DeqCopy(c)
    PROVE  ItemsBar' = ItemsBar /\ GotBar' = GotBar
<1>0. c \in Procs /\ pc[c] = "consCopy" /\ Claimed(c)
  BY DEF Procs, DeqCopy, At, Claimed
<1>1. /\ pc' = [pc EXCEPT ![c] = "consWait"]
      /\ tbl' = [tbl EXCEPT ![c] = DequeueElems(old[c], n[c])]
      /\ UNCHANGED <<prod, cons, ring, old, n>>
  BY DEF DeqCopy, Goto
<1>2. ItemsBar' = ItemsBar
  BY <1>1 DEF ItemsBar
<1>3. \A i \in 1..n[c] : ring[Index(old[c] + i - 1)] = ring[Index(old[c]) + i - 1]
  <2> SUFFICES ASSUME NEW i \in 1..n[c]
               PROVE  Index(old[c] + i - 1) = Index(old[c]) + i - 1
    OBVIOUS
  <2>1. /\ old[c] \in Nat /\ n[c] \in Nat /\ Index(old[c]) \in Nat
        /\ Index(old[c]) + n[c] <= Size
    BY <1>0, Numbers, IndexType, Constants DEF DataInv, ClaimsFit
  <2> DEFINE j == i - 1
  <2>2. /\ j \in Nat /\ Index(old[c]) + j < Size /\ old[c] + j = old[c] + i - 1
        /\ Index(old[c]) + j = Index(old[c]) + i - 1
    BY <2>1, Constants
  <2> HIDE DEF j
  <2>3. Index(old[c] + j) = Index(old[c]) + j
    BY <2>1, <2>2, IndexStep
  <2> QED  BY <2>2, <2>3
<1>4. GotBar'[c] = GotBar[c]
  <2>1. pc'[c] = "consWait" /\ tbl'[c] = DequeueElems(old[c], n[c])
    BY <1>0, <1>1 DEF ClaimInv, TypeOK
  <2>2. GotBar[c] = [i \in 1..n[c] |-> ring[Index(old[c] + i - 1)]]
    BY <1>0 DEF GotBar
  <2>3. GotBar'[c] = DequeueElems(old[c], n[c])
    BY <2>1 DEF GotBar
  <2> QED  BY <1>3, <2>2, <2>3 DEF DequeueElems
<1>5. ASSUME NEW d \in Consumers, d # c  PROVE GotBar'[d] = GotBar[d]
  <2>1. pc'[d] = pc[d] /\ tbl'[d] = tbl[d]
    BY <1>1, <1>5 DEF ClaimInv, TypeOK, Procs
  <2> QED  BY <1>1, <2>1, GotStable
<1> QED  BY <1>2, <1>4, <1>5, GotBarEqual

\* The other steps are none of the queue's.
LEMMA OthersStutter ==
    ASSUME ClaimInv, DataInv, ~crossed, [Next]_vars, NEW p \in Procs,
           \/ p \in Producers /\ \/ \E t \in PutTables : EnqStart(p, t)
                                 \/ EnqLoadTail(p) \/ EnqCasOk(p) \/ EnqCasFail(p) \/ EnqCopy(p)
           \/ p \in Consumers /\ \/ \E k \in 1..MaxTake : DeqStart(p, k)
                                 \/ DeqLoadTail(p) \/ DeqCasFail(p) \/ DeqRelease(p)
           \/ CountStart(p) \/ CountEnd(p) \/ Crash(p)
    PROVE  ItemsBar' = ItemsBar /\ GotBar' = GotBar
<1>1. prod'.tail = prod.tail /\ cons'.head = cons.head
  BY DEF EnqStart, EnqLoadTail, EnqCasOk, EnqCasFail, EnqCopy, DeqStart, DeqLoadTail,
         DeqCasFail, DeqRelease, CountStart, CountEnd, Crash, ClaimInv, TypeOK, HeadTail
<1>2. ItemsBar' = ItemsBar
  BY <1>1, ItemsStable
<1>3. CASE p \in Producers
  <2>1. \A c \in Consumers : c # p /\ c \in Procs
    BY <1>3, RingAssumption DEF Procs
  <2>2. \A c \in Consumers : /\ pc'[c] = pc[c] /\ old'[c] = old[c]
                             /\ n'[c] = n[c] /\ tbl'[c] = tbl[c]
    BY <1>3, <2>1
    DEF EnqStart, EnqLoadTail, EnqCasOk, EnqCasFail, EnqCopy, CountStart, CountEnd, Crash,
        Goto, EndLocals, ClaimInv, TypeOK
  <2> QED  BY <1>2, <2>2, GotStable, GotBarEqual
<1>4. CASE p \in Consumers
  <2>1. tbl' = tbl
    BY <1>4, RingAssumption
    DEF DeqStart, DeqLoadTail, DeqCasFail, DeqRelease, CountStart, CountEnd, Crash
  <2>2. ASSUME NEW c \in Consumers
        PROVE  \/ pc'[c] = pc[c] /\ old'[c] = old[c] /\ n'[c] = n[c]
               \/ pc[c] # "consCopy" /\ pc'[c] # "consCopy"
    <3>1. CASE c # p
      BY <1>4, <3>1, RingAssumption
      DEF DeqStart, DeqLoadTail, DeqCasFail, DeqRelease, CountStart, CountEnd, Crash, Goto,
          EndLocals, ClaimInv, TypeOK, Procs
    <3>2. CASE c = p
      BY <1>4, <3>2, RingAssumption
      DEF DeqStart, DeqLoadTail, DeqCasFail, DeqRelease, CountStart, CountEnd, Crash, Goto,
          At, ClaimInv, TypeOK, Procs
    <3> QED  BY <3>1, <3>2
  <2>3. ASSUME NEW c \in Consumers  PROVE GotBar'[c] = GotBar[c]
    BY <2>1, <2>2, GotStable
  <2> QED  BY <1>2, <2>3, GotBarEqual
<1> QED  BY <1>3, <1>4 DEF Procs

\* Every step of the ring is a step of the queue or none.
LEMMA StepRefines ==
    ClaimInv /\ DataInv /\ ~crossed /\ [Next]_vars => [Queue!Next]_(Queue!vars)
<1> SUFFICES ASSUME ClaimInv, DataInv, ~crossed, [Next]_vars
             PROVE  Queue!Next \/ (ItemsBar' = ItemsBar /\ GotBar' = GotBar)
  BY DEF Queue!vars
<1>1. ASSUME NEW p \in Producers, EnqStep(p) \/ \E t \in PutTables : EnqStart(p, t)
      PROVE  Queue!Next \/ (ItemsBar' = ItemsBar /\ GotBar' = GotBar)
  <2>1. p \in Procs
    BY DEF Procs
  <2>2. CASE EnqPublish(p)
    BY <2>2, PublishPuts DEF Queue!Next
  <2>3. CASE ~EnqPublish(p)
    BY <1>1, <2>1, <2>3, OthersStutter DEF EnqStep
  <2> QED  BY <2>2, <2>3
<1>2. ASSUME NEW c \in Consumers, DeqStep(c) \/ \E k \in 1..MaxTake : DeqStart(c, k)
      PROVE  Queue!Next \/ (ItemsBar' = ItemsBar /\ GotBar' = GotBar)
  <2>1. c \in Procs
    BY DEF Procs
  <2>2. CASE DeqCasOk(c)
    BY <2>2, ClaimTakes DEF Queue!Next
  <2>3. CASE DeqCopy(c)
    BY <2>3, CopyKeepsGot
  <2>4. CASE ~DeqCasOk(c) /\ ~DeqCopy(c)
    BY <1>2, <2>1, <2>4, OthersStutter DEF DeqStep
  <2> QED  BY <2>2, <2>3, <2>4
<1>3. ASSUME NEW p \in Procs, CountStart(p) \/ CountEnd(p) \/ Crash(p)
      PROVE  ItemsBar' = ItemsBar /\ GotBar' = GotBar
  BY <1>3, OthersStutter
<1>4. CASE UNCHANGED vars
  BY <1>4 DEF vars, ItemsBar, GotBar
<1> QED  BY <1>1, <1>2, <1>3, <1>4 DEF Next

\* The empty ring is the empty queue.
LEMMA InitRefines == Init => Queue!Init
<1> SUFFICES ASSUME Init  PROVE Queue!Init
  OBVIOUS
<1>1. ItemsBar = << >>
  BY DEF Init, ItemsBar
<1>2. GotBar = [c \in Consumers |-> << >>]
  BY DEF Init, GotBar, Procs
<1> QED  BY <1>1, <1>2 DEF Queue!Init

\* For every ring size, number of processes, burst size and counter width:
\* until a burst runs past the last cell, every step of the ring is a step of
\* a bounded FIFO queue or none (FifoUntilCrossed).
THEOREM RefinesUntilCrossed == Spec => FifoUntilCrossed
<1>1. Init => Queue!Init
  BY InitRefines
<1>2. ClaimInv /\ DataInv /\ [Next]_vars => [~crossed => Queue!Next]_(Queue!vars)
  BY StepRefines
<1> QED
  BY <1>1, <1>2, ClaimInvariant, DataInvariant, PTL DEF Spec, FifoUntilCrossed

\* A ring on which entries are put and taken one by one, as the free_ring is
\* by applications, is a bounded FIFO queue.
THEOREM SingleEntriesRefine == MaxPut = 1 /\ MaxTake = 1 => (Spec => RefinesFifo)
<1> SUFFICES ASSUME MaxPut = 1, MaxTake = 1  PROVE Spec => RefinesFifo
  OBVIOUS
<1>1. Init => ~crossed
  BY DEF Init
<1>2. ClaimInv /\ ~crossed /\ [Next]_vars => ~crossed'
  <2> SUFFICES ASSUME ClaimInv, ~crossed, [Next]_vars  PROVE ~crossed'
    OBVIOUS
  <2>1. ASSUME NEW p \in Procs, n[p] <= 1  PROVE ~Crosses(old[p], n[p])
    <3>1. old[p] \in Nat /\ n[p] \in Nat
      BY Numbers
    <3>2. Index(old[p]) \in 0..(Size - 1)
      BY <3>1, IndexType
    <3> QED  BY <2>1, <3>1, <3>2, Constants DEF Crosses
  <2>2. ASSUME NEW p \in Producers, EnqCasOk(p)  PROVE ~crossed'
    <3>1. p \in Procs /\ n[p] <= Len(tbl[p]) /\ Len(tbl[p]) <= 1 /\ Len(tbl[p]) \in Nat
      BY <2>2 DEF EnqCasOk, At, Procs, ClaimInv, EnqClaims, EnqWindow, TypeOK
    <3>2. n[p] <= 1
      BY <3>1, Numbers
    <3> QED  BY <2>1, <2>2, <3>1, <3>2 DEF EnqCasOk
  <2>3. ASSUME NEW c \in Consumers, DeqCasOk(c)  PROVE ~crossed'
    <3>1. c \in Procs /\ n[c] <= 1
      BY <2>3 DEF DeqCasOk, At, Procs, ClaimInv, DeqClaims, DeqWindow
    <3> QED  BY <2>1, <2>3, <3>1 DEF DeqCasOk
  <2> QED
    BY <2>2, <2>3
    DEF Next, EnqStep, DeqStep, EnqStart, EnqLoadTail, EnqCasFail, EnqCopy, EnqPublish,
        DeqStart, DeqLoadTail, DeqCasFail, DeqCopy, DeqRelease, CountStart, CountEnd,
        Crash, vars
<1>3. Spec => []~crossed
  BY <1>1, <1>2, ClaimInvariant, PTL DEF Spec
<1>4. ~crossed /\ [~crossed => Queue!Next]_(Queue!vars) => [Queue!Next]_(Queue!vars)
  OBVIOUS
<1> QED  BY <1>3, <1>4, RefinesUntilCrossed, PTL DEF FifoUntilCrossed, RefinesFifo, Queue!Spec
=============================================================================
