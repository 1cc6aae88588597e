------------------------- MODULE PrioQueueOpsProofs -------------------------
(***************************************************************************)
(* What the operators on the heap's array do, for arrays of any length:    *)
(* the two loops run as long as their bounds let them, and every operation *)
(* rearranges its array and adds or drops the entry it should.             *)
(***************************************************************************)
EXTENDS PrioQueueOps, WellFoundedInduction, FiniteSetTheorems, TLAPS

-----------------------------------------------------------------------------
(***************************************************************************)
(* Induction on a bounded number, and loops as functions of their round    *)
(***************************************************************************)
\* A set of numbers has a least element.
LEMMA LeastNumber ==
    ASSUME NEW T \in SUBSET Nat, T # {}
    PROVE  \E x \in T : \A y \in T : x <= y
<1> DEFINE R == {ss \in Nat \X Nat : ss[1] < ss[2]}
<1>1. IsWellFoundedOn(R, Nat)
  BY NatLessThanWellFounded DEF OpToRel
<1>2. \A x, y \in Nat : ~(<<y, x>> \in R) => x <= y
  OBVIOUS
<1> HIDE DEF R
<1>3. \E x \in T : \A y \in T : ~(<<y, x>> \in R)
  BY <1>1, WFMin
<1> QED  BY <1>2, <1>3

\* Induction on the numbers up to n, with the property given as a set.
LEMMA InductionTo ==
    ASSUME NEW n \in Nat, NEW S, 0 \in S, \A k \in 1..n : k - 1 \in S => k \in S
    PROVE  \A k \in 0..n : k \in S
<1> DEFINE T == (0..n) \ S
<1> SUFFICES ASSUME T # {}  PROVE FALSE
  OBVIOUS
<1>1. PICK x \in T : \A y \in T : x <= y
  <2>1. T \in SUBSET Nat
    OBVIOUS
  <2> HIDE DEF T
  <2> QED  BY <2>1, LeastNumber
<1>2. x \in 1..n
  BY <1>1
<1>3. x - 1 \in S
  BY <1>1, <1>2
<1> QED  BY <1>1, <1>2, <1>3

\* g are the states of a loop of n rounds that starts in a; round k takes
\* the step F[k].
IsLoop(g, F, a, n) == g = [k \in 0..n |-> IF k = 0 THEN a ELSE F[k][g[k - 1]]]

\* A loop has its rounds: the recursive function is well defined.
LEMMA LoopExists ==
    ASSUME NEW S, NEW n \in Nat, NEW F \in [1..n -> [S -> S]], NEW a \in S
    PROVE  \E g \in [0..n -> S] : IsLoop(g, F, a, n)
<1> DEFINE Ok(m, g) == /\ g \in [0..m -> S]
                       /\ g[0] = a
                       /\ \A k \in 1..m : g[k] = F[k][g[k - 1]]
           D == {m \in Nat : \E g : Ok(m, g)}
<1>1. 0 \in D
  <2> DEFINE g == [k \in 0..0 |-> a]
  <2>1. Ok(0, g)
    OBVIOUS
  <2> QED  BY <2>1
<1>2. ASSUME NEW m \in 1..n, m - 1 \in D  PROVE m \in D
  <2>1. PICK g : Ok(m - 1, g)
    BY <1>2
  <2> DEFINE h == [k \in 0..m |-> IF k = m THEN F[m][g[m - 1]] ELSE g[k]]
  <2>2. Ok(m, h)
    BY <2>1
  <2>3. m \in Nat
    OBVIOUS
  <2> HIDE DEF Ok
  <2> QED  BY <2>2, <2>3
<1>3. n \in D
  <2> HIDE DEF D
  <2>1. \A k \in 0..n : k \in D
    BY <1>1, <1>2, InductionTo
  <2> QED  BY <2>1
<1>4. PICK g : Ok(n, g)
  BY <1>3
<1>5. IsLoop(g, F, a, n)
  <2>1. \A k \in 0..n : k # 0 => k \in 1..n
    OBVIOUS
  <2> QED  BY <1>4, <2>1 DEF IsLoop
<1> QED  BY <1>4, <1>5

\* What holds at the start of a loop and is kept by every round holds all along.
LEMMA LoopStays ==
    ASSUME NEW g, NEW S, NEW n \in Nat,
           g[0] \in S, \A k \in 1..n : g[k - 1] \in S => g[k] \in S
    PROVE  \A k \in 0..n : g[k] \in S
<1> DEFINE T == {k \in Nat : g[k] \in S}
<1>1. 0 \in T /\ \A k \in 1..n : k - 1 \in T => k \in T
  OBVIOUS
<1> HIDE DEF T
<1>2. \A k \in 0..n : k \in T
  BY <1>1, InductionTo
<1> QED  BY <1>2 DEF T

-----------------------------------------------------------------------------
(***************************************************************************)
(* The two loops of the heap                                               *)
(***************************************************************************)
\* What an array element can hold.
Nodes(D) == [prio : Int, data : D]

\* An array and the node of it that is being shifted.
Places(D) == {h \in [e : Seq(Nodes(D)), i : Nat] : h.i = 0 \/ h.i < Len(h.e)}

\* The parent of a node comes before it.
LEMMA ParentOf ==
    ASSUME NEW i \in Nat
    PROVE  /\ Parent(i) \in Nat /\ Parent(i) <= i
           /\ i > 0 => Parent(i) < i
  BY DEF Parent

\* swap exchanges two entries and leaves the others.
LEMMA SwapEntries ==
    ASSUME NEW D, NEW e \in Seq(Nodes(D)), NEW i \in Nat, NEW j \in Nat,
           i < Len(e), j < Len(e)
    PROVE  /\ Swap(e, i, j) \in Seq(Nodes(D))
           /\ Len(Swap(e, i, j)) = Len(e)
           /\ Swap(e, i, j)[i + 1] = e[j + 1]
           /\ Swap(e, i, j)[j + 1] = e[i + 1]
           /\ \A k \in 1..Len(e) : k # i + 1 /\ k # j + 1 => Swap(e, i, j)[k] = e[k]
  BY DEF Swap

\* A round of the shift up leaves h alone, or swaps the node with its parent.
LEMMA ShiftUpCases ==
    ASSUME NEW D, NEW h \in Places(D)
    PROVE  \/ /\ ~(h.i > 0 /\ Prio(h.e, h.i) < Prio(h.e, Parent(h.i)))
              /\ ShiftUp(h) = h
           \/ /\ h.i > 0 /\ Prio(h.e, h.i) < Prio(h.e, Parent(h.i))
              /\ h.i < Len(h.e) /\ Parent(h.i) \in Nat /\ Parent(h.i) < h.i
              /\ ShiftUp(h) = [e |-> Swap(h.e, h.i, Parent(h.i)), i |-> Parent(h.i)]
  BY ParentOf DEF Places, ShiftUp

\* A round of the shift up yields an array and a node of it.
LEMMA ShiftUpType ==
    ASSUME NEW D, NEW h \in Places(D)
    PROVE  ShiftUp(h) \in Places(D)
<1>1. h.e \in Seq(Nodes(D)) /\ h.i \in Nat
  BY DEF Places
<1>2. CASE ShiftUp(h) = h
  BY <1>2
<1>3. CASE /\ h.i < Len(h.e) /\ Parent(h.i) \in Nat /\ Parent(h.i) < h.i
           /\ ShiftUp(h) = [e |-> Swap(h.e, h.i, Parent(h.i)), i |-> Parent(h.i)]
  <2>1. /\ Swap(h.e, h.i, Parent(h.i)) \in Seq(Nodes(D))
        /\ Len(Swap(h.e, h.i, Parent(h.i))) = Len(h.e)
    BY <1>1, <1>3, SwapEntries
  <2> QED  BY <1>1, <1>3, <2>1 DEF Places
<1> QED  BY <1>2, <1>3, ShiftUpCases

\* g are the states of the shift up from node i.
UpRun(g, D, e, i) ==
    /\ g \in [0..Len(e) -> Places(D)]
    /\ g[0] = [e |-> e, i |-> i]
    /\ \A k \in 1..Len(e) : g[k] = ShiftUp(g[k - 1])
    /\ Reorder(e, i) = g[Len(e)].e

\* kt_prio_queue_reorder runs its loop to the end.
LEMMA ReorderLoop ==
    ASSUME NEW D, NEW e \in Seq(Nodes(D)), NEW i \in Nat, i < Len(e)
    PROVE  \E g : UpRun(g, D, e, i)
<1> DEFINE F == [k \in 1..Len(e) |-> [h \in Places(D) |-> ShiftUp(h)]]
           a == [e |-> e, i |-> i]
           n == Len(e)
           Up(g) == g = [k \in 0..n |-> IF k = 0 THEN a ELSE ShiftUp(g[k - 1])]
           r == CHOOSE g : Up(g)
<1>1. F \in [1..n -> [Places(D) -> Places(D)]] /\ a \in Places(D) /\ n \in Nat
  BY ShiftUpType DEF Places
<1>2. PICK g \in [0..n -> Places(D)] : IsLoop(g, F, a, n)
  <2> HIDE DEF F, a, n
  <2> QED  BY <1>1, LoopExists
<1>3. Up(g)
  <2>1. ASSUME NEW k \in 0..n, k # 0  PROVE F[k][g[k - 1]] = ShiftUp(g[k - 1])
    <3>1. k \in 1..n /\ k - 1 \in 0..n
      BY <1>1, <2>1
    <3>2. g[k - 1] \in Places(D)
      BY <3>1
    <3> QED  BY <3>1, <3>2
  <2> HIDE DEF F, a, n
  <2> QED  BY <1>2, <2>1 DEF IsLoop
<1>4. Up(r)
  <2> HIDE DEF Up
  <2> QED  BY <1>3
<1>5. Reorder(e, i) = r[n].e
  BY DEF Reorder
<1> HIDE DEF r
<1>6. r[0] = a /\ \A k \in 1..n : r[k] = ShiftUp(r[k - 1])
  <2> HIDE DEF a, n
  <2>1. 0 \in 0..n /\ \A k \in 1..n : k \in 0..n /\ k # 0
    BY <1>1
  <2>2. \A k \in 0..n : r[k] = IF k = 0 THEN a ELSE ShiftUp(r[k - 1])
    BY <1>4, Zenon
  <2> QED  BY <2>1, <2>2
<1>7. \A k \in 0..n : r[k] \in Places(D)
  <2> HIDE DEF a, n
  <2> QED  BY <1>1, <1>6, ShiftUpType, LoopStays
<1>8. r \in [0..n -> Places(D)]
  BY <1>4, <1>7
<1>9. UpRun(r, D, e, i)
  BY <1>5, <1>6, <1>8 DEF UpRun
<1> QED  BY <1>9

\* A call of the shift down leaves h alone, or swaps the node with its right
\* child.
LEMMA ShiftDownCases ==
    ASSUME NEW D, NEW h \in Places(D)
    PROVE  LET l == Left(h.i)
               r == Right(h.i)
               low == l < Len(h.e) /\ Prio(h.e, l) < Prio(h.e, h.i)
               go == /\ r < Len(h.e)
                     /\ Prio(h.e, r) < Prio(h.e, IF low THEN l ELSE h.i)
           IN  \/ ~go /\ ShiftDown(h) = h
               \/ go /\ ShiftDown(h) = [e |-> Swap(h.e, h.i, r), i |-> r]
<1>1. Right(h.i) # h.i
  BY DEF Places, Right
<1> QED  BY <1>1 DEF ShiftDown

\* A call of the shift down yields an array and a node of it.
LEMMA ShiftDownType ==
    ASSUME NEW D, NEW h \in Places(D)
    PROVE  ShiftDown(h) \in Places(D)
<1>1. h.e \in Seq(Nodes(D)) /\ h.i \in Nat /\ Right(h.i) \in Nat /\ h.i < Right(h.i)
  BY DEF Places, Right
<1>2. CASE ShiftDown(h) = h
  BY <1>2
<1>3. CASE /\ Right(h.i) < Len(h.e)
           /\ ShiftDown(h) = [e |-> Swap(h.e, h.i, Right(h.i)), i |-> Right(h.i)]
  <2>1. /\ Swap(h.e, h.i, Right(h.i)) \in Seq(Nodes(D))
        /\ Len(Swap(h.e, h.i, Right(h.i))) = Len(h.e)
    BY <1>1, <1>3, SwapEntries
  <2> QED  BY <1>1, <1>3, <2>1 DEF Places
<1> QED  BY <1>2, <1>3, ShiftDownCases

\* g are the states of the shift down from the root.
DownRun(g, D, e) ==
    /\ g \in [0..Len(e) -> Places(D)]
    /\ g[0] = [e |-> e, i |-> 0]
    /\ \A k \in 1..Len(e) : g[k] = ShiftDown(g[k - 1])
    /\ Heapify(e, 0) = g[Len(e)].e

\* kt_prio_queue_min_heapify runs its calls to the end.
LEMMA HeapifyLoop ==
    ASSUME NEW D, NEW e \in Seq(Nodes(D))
    PROVE  \E g : DownRun(g, D, e)
<1> DEFINE F == [k \in 1..Len(e) |-> [h \in Places(D) |-> ShiftDown(h)]]
           a == [e |-> e, i |-> 0]
           n == Len(e)
           Down(g) == g = [k \in 0..n |-> IF k = 0 THEN a ELSE ShiftDown(g[k - 1])]
           r == CHOOSE g : Down(g)
<1>1. F \in [1..n -> [Places(D) -> Places(D)]] /\ a \in Places(D) /\ n \in Nat
  BY ShiftDownType DEF Places
<1>2. PICK g \in [0..n -> Places(D)] : IsLoop(g, F, a, n)
  <2> HIDE DEF F, a, n
  <2> QED  BY <1>1, LoopExists
<1>3. Down(g)
  <2>1. ASSUME NEW k \in 0..n, k # 0  PROVE F[k][g[k - 1]] = ShiftDown(g[k - 1])
    <3>1. k \in 1..n /\ k - 1 \in 0..n
      BY <1>1, <2>1
    <3>2. g[k - 1] \in Places(D)
      BY <3>1
    <3> QED  BY <3>1, <3>2
  <2> HIDE DEF F, a, n
  <2> QED  BY <1>2, <2>1 DEF IsLoop
<1>4. Down(r)
  <2> HIDE DEF Down
  <2> QED  BY <1>3
<1>5. Heapify(e, 0) = r[n].e
  BY DEF Heapify
<1> HIDE DEF r
<1>6. r[0] = a /\ \A k \in 1..n : r[k] = ShiftDown(r[k - 1])
  BY <1>1, <1>4
<1>7. \A k \in 0..n : r[k] \in Places(D)
  <2> HIDE DEF a, n
  <2> QED  BY <1>1, <1>6, ShiftDownType, LoopStays
<1>8. r \in [0..n -> Places(D)]
  BY <1>4, <1>7
<1>9. DownRun(r, D, e)
  BY <1>5, <1>6, <1>8 DEF DownRun
<1> QED  BY <1>9

-----------------------------------------------------------------------------
(***************************************************************************)
(* No entry is lost, duplicated or altered                                 *)
(***************************************************************************)
\* p is a permutation of 1..n that arranges the first n entries of e as f.
Arranges(p, n, f, e) ==
    /\ p \in [1..n -> 1..n]
    /\ \A j, k \in 1..n : p[j] = p[k] => j = k
    /\ \A k \in 1..n : \E j \in 1..n : p[j] = k
    /\ \A k \in 1..n : f[k] = e[p[k]]

\* f has the entries of e, in some order.
Shuffle(f, e) == Len(f) = Len(e) /\ \E p : Arranges(p, Len(e), f, e)

\* An array is a rearrangement of itself.
LEMMA ShuffleSelf ==
    ASSUME NEW D, NEW e \in Seq(Nodes(D))
    PROVE  Shuffle(e, e)
<1> DEFINE p == [k \in 1..Len(e) |-> k]
<1>1. Arranges(p, Len(e), e, e)
  BY DEF Arranges
<1> QED  BY <1>1 DEF Shuffle

\* Shuffling twice is shuffling.
LEMMA ShuffleTrans ==
    ASSUME NEW a, NEW b, NEW c, Shuffle(a, b), Shuffle(b, c)
    PROVE  Shuffle(a, c)
<1> DEFINE n == Len(c)
<1>0. Len(a) = n /\ Len(b) = n
  BY DEF Shuffle
<1> HIDE DEF n
<1>1. PICK p : Arranges(p, n, a, b)
  BY <1>0 DEF Shuffle
<1>2. PICK q : Arranges(q, n, b, c)
  BY DEF Shuffle, n
<1> DEFINE r == [k \in 1..n |-> q[p[k]]]
<1>3. r \in [1..n -> 1..n] /\ \A k \in 1..n : p[k] \in 1..n /\ r[k] = q[p[k]]
  BY <1>1, <1>2 DEF Arranges
<1> HIDE DEF r
<1>4. ASSUME NEW j \in 1..n, NEW k \in 1..n, r[j] = r[k]  PROVE j = k
  <2>1. p[j] \in 1..n /\ p[k] \in 1..n /\ q[p[j]] = q[p[k]]
    BY <1>3, <1>4
  <2>2. p[j] = p[k]
    BY <1>2, <2>1 DEF Arranges
  <2> QED  BY <1>1, <2>2 DEF Arranges
<1>5. ASSUME NEW k \in 1..n  PROVE \E j \in 1..n : r[j] = k
  <2>1. PICK m \in 1..n : q[m] = k
    BY <1>2 DEF Arranges
  <2>2. PICK j \in 1..n : p[j] = m
    BY <1>1 DEF Arranges
  <2> QED  BY <1>3, <2>1, <2>2
<1>6. ASSUME NEW k \in 1..n  PROVE a[k] = c[r[k]]
  <2>1. p[k] \in 1..n /\ r[k] = q[p[k]] /\ a[k] = b[p[k]]
    BY <1>1, <1>3 DEF Arranges
  <2>2. b[p[k]] = c[q[p[k]]]
    BY <1>2, <2>1 DEF Arranges
  <2> QED  BY <2>1, <2>2
<1>7. Arranges(r, n, a, c)
  BY <1>3, <1>4, <1>5, <1>6 DEF Arranges
<1> QED  BY <1>0, <1>7 DEF Shuffle, n

\* A swap only rearranges.
LEMMA SwapShuffles ==
    ASSUME NEW D, NEW e \in Seq(Nodes(D)), NEW i \in Nat, NEW j \in Nat,
           i < Len(e), j < Len(e)
    PROVE  Shuffle(Swap(e, i, j), e)
<1> DEFINE x == i + 1
           y == j + 1
           n == Len(e)
           p == [k \in 1..n |-> IF k = x THEN y ELSE IF k = y THEN x ELSE k]
           w == Swap(e, i, j)
<1>1. /\ x \in 1..n /\ y \in 1..n
      /\ Len(w) = n
      /\ w[x] = e[y] /\ w[y] = e[x]
      /\ \A k \in 1..n : k # x /\ k # y => w[k] = e[k]
  BY SwapEntries
<1> HIDE DEF x, y, n, w
<1>2. \A k \in 1..n : p[k] \in 1..n /\ p[p[k]] = k /\ w[k] = e[p[k]]
  BY <1>1
<1>3. p \in [1..n -> 1..n]
  BY <1>1
<1> HIDE DEF p
<1>4. Arranges(p, n, w, e)
  BY <1>2, <1>3 DEF Arranges
<1> QED  BY <1>1, <1>4 DEF Shuffle, n, w

\* The shift up only rearranges.
LEMMA ReorderShuffles ==
    ASSUME NEW D, NEW e \in Seq(Nodes(D)), NEW i \in Nat, i < Len(e)
    PROVE  Reorder(e, i) \in Seq(Nodes(D)) /\ Shuffle(Reorder(e, i), e)
<1>0. PICK g : UpRun(g, D, e, i)
  BY ReorderLoop
<1>1. /\ g \in [0..Len(e) -> Places(D)]
      /\ g[0] = [e |-> e, i |-> i]
      /\ \A k \in 1..Len(e) : g[k] = ShiftUp(g[k - 1])
      /\ Reorder(e, i) = g[Len(e)].e
  BY <1>0 DEF UpRun
<1> DEFINE S == {h \in Places(D) : Shuffle(h.e, e)}
<1>2. g[0] \in S
  BY <1>1, ShuffleSelf
<1>3. ASSUME NEW k \in 1..Len(e), g[k - 1] \in S  PROVE g[k] \in S
  <2> DEFINE h == g[k - 1]
  <2>1. h \in Places(D) /\ Shuffle(h.e, e) /\ h.e \in Seq(Nodes(D)) /\ h.i \in Nat
    BY <1>3 DEF Places
  <2>2. g[k] = ShiftUp(h) /\ g[k] \in Places(D)
    BY <1>1
  <2> HIDE DEF h
  <2>3. CASE ShiftUp(h) = h
    BY <2>1, <2>2, <2>3
  <2>4. CASE /\ h.i < Len(h.e) /\ Parent(h.i) \in Nat /\ Parent(h.i) < h.i
             /\ ShiftUp(h) = [e |-> Swap(h.e, h.i, Parent(h.i)), i |-> Parent(h.i)]
    <3>1. Shuffle(Swap(h.e, h.i, Parent(h.i)), e)
      BY <2>1, <2>4, SwapShuffles, ShuffleTrans
    <3> QED  BY <2>2, <2>4, <3>1
  <2> QED  BY <2>1, <2>3, <2>4, ShiftUpCases
<1>4. g[Len(e)] \in S
  <2>1. Len(e) \in Nat
    OBVIOUS
  <2> HIDE DEF S
  <2>2. \A k \in 0..Len(e) : g[k] \in S
    BY <1>2, <1>3, <2>1, LoopStays
  <2> QED  BY <2>1, <2>2
<1> QED  BY <1>1, <1>4 DEF Places

\* The shift down only rearranges.
LEMMA HeapifyShuffles ==
    ASSUME NEW D, NEW e \in Seq(Nodes(D))
    PROVE  Heapify(e, 0) \in Seq(Nodes(D)) /\ Shuffle(Heapify(e, 0), e)
<1>0. PICK g : DownRun(g, D, e)
  BY HeapifyLoop
<1>1. /\ g \in [0..Len(e) -> Places(D)]
      /\ g[0] = [e |-> e, i |-> 0]
      /\ \A k \in 1..Len(e) : g[k] = ShiftDown(g[k - 1])
      /\ Heapify(e, 0) = g[Len(e)].e
  BY <1>0 DEF DownRun
<1> DEFINE S == {h \in Places(D) : Shuffle(h.e, e)}
<1>2. g[0] \in S
  BY <1>1, ShuffleSelf
<1>3. ASSUME NEW k \in 1..Len(e), g[k - 1] \in S  PROVE g[k] \in S
  <2> DEFINE h == g[k - 1]
  <2>1. h \in Places(D) /\ Shuffle(h.e, e) /\ h.e \in Seq(Nodes(D)) /\ h.i \in Nat
    BY <1>3 DEF Places
  <2>2. g[k] = ShiftDown(h) /\ g[k] \in Places(D)
    BY <1>1
  <2> HIDE DEF h
  <2>3. CASE ShiftDown(h) = h
    BY <2>1, <2>2, <2>3
  <2>0. Right(h.i) \in Nat /\ h.i < Right(h.i)
    BY <2>1 DEF Right
  <2>4. CASE /\ Right(h.i) < Len(h.e)
             /\ ShiftDown(h) = [e |-> Swap(h.e, h.i, Right(h.i)), i |-> Right(h.i)]
    <3>1. Shuffle(Swap(h.e, h.i, Right(h.i)), e)
      BY <2>0, <2>1, <2>4, SwapShuffles, ShuffleTrans
    <3> QED  BY <2>2, <2>4, <3>1
  <2> QED  BY <2>1, <2>3, <2>4, ShiftDownCases
<1>4. g[Len(e)] \in S
  <2>1. Len(e) \in Nat
    OBVIOUS
  <2> HIDE DEF S
  <2>2. \A k \in 0..Len(e) : g[k] \in S
    BY <1>2, <1>3, <2>1, LoopStays
  <2> QED  BY <2>1, <2>2
<1> QED  BY <1>1, <1>4 DEF Places

\* What a shuffle keeps: the set of the entries, and how often a slot is
\* among them.
Entries(e) == {e[k] : k \in 1..Len(e)}
\* How often the index s occurs.
Count(e, s) == Cardinality({k \in 1..Len(e) : e[k].data = s})

\* A rearrangement has the same entries.
LEMMA ShuffleEntries ==
    ASSUME NEW e, NEW f, Shuffle(f, e)
    PROVE  Entries(f) = Entries(e)
<1>0. Len(f) = Len(e)
  BY DEF Shuffle
<1>1. PICK p : Arranges(p, Len(e), f, e)
  BY DEF Shuffle
<1>2. ASSUME NEW k \in 1..Len(e)  PROVE f[k] \in Entries(e)
  BY <1>1 DEF Arranges, Entries
<1>3. ASSUME NEW k \in 1..Len(e)  PROVE e[k] \in Entries(f)
  <2>1. PICK j \in 1..Len(e) : p[j] = k
    BY <1>1 DEF Arranges
  <2>2. f[j] = e[k]
    BY <1>1, <2>1 DEF Arranges
  <2> QED  BY <1>0, <2>2 DEF Entries
<1> QED  BY <1>0, <1>2, <1>3 DEF Entries

\* A set has as many elements as a set it is in bijection with.
LEMMA SameSize ==
    ASSUME NEW S, NEW T, IsFiniteSet(S), NEW f \in [S -> T],
           \A x, y \in S : f[x] = f[y] => x = y,
           \A z \in T : \E x \in S : f[x] = z
    PROVE  Cardinality(T) = Cardinality(S)
<1>1. f \in Bijection(S, T)
  BY DEF Bijection, Injection, Surjection, IsInjective
<1>2. ExistsBijection(S, T)
  BY <1>1 DEF ExistsBijection
<1> QED  BY <1>2, FS_Bijection

\* A count is a number.
LEMMA CountType ==
    ASSUME NEW D, NEW e \in Seq(Nodes(D)), NEW s
    PROVE  /\ IsFiniteSet({k \in 1..Len(e) : e[k].data = s})
           /\ Count(e, s) \in Nat
<1>1. IsFiniteSet(1..Len(e))
  BY FS_Interval
<1>2. {k \in 1..Len(e) : e[k].data = s} \in SUBSET (1..Len(e))
  OBVIOUS
<1>3. IsFiniteSet({k \in 1..Len(e) : e[k].data = s})
  BY <1>1, <1>2, FS_Subset
<1> QED  BY <1>3, FS_CardinalityType DEF Count

\* A rearrangement has an index as often.
LEMMA ShuffleCount ==
    ASSUME NEW D, NEW e \in Seq(Nodes(D)), NEW f \in Seq(Nodes(D)), Shuffle(f, e), NEW s
    PROVE  Count(f, s) = Count(e, s)
<1> DEFINE n == Len(e)
           S == {k \in 1..n : f[k].data = s}
           T == {k \in 1..n : e[k].data = s}
<1>0. Len(f) = n
  BY DEF Shuffle
<1>1. PICK p : Arranges(p, n, f, e)
  BY DEF Shuffle
<1> HIDE DEF n
<1> DEFINE g == [k \in S |-> p[k]]
<1>2. g \in [S -> T]
  BY <1>1 DEF Arranges
<1>3. \A x, y \in S : g[x] = g[y] => x = y
  <2> SUFFICES ASSUME NEW x \in S, NEW y \in S, p[x] = p[y]  PROVE x = y
    OBVIOUS
  <2>1. x \in 1..n /\ y \in 1..n
    OBVIOUS
  <2> QED  BY <1>1, <2>1 DEF Arranges
<1>4. \A z \in T : \E x \in S : g[x] = z
  <2> SUFFICES ASSUME NEW z \in T  PROVE \E x \in S : g[x] = z
    OBVIOUS
  <2>1. PICK x \in 1..n : p[x] = z
    BY <1>1 DEF Arranges
  <2> QED  BY <1>1, <2>1 DEF Arranges
<1>5. IsFiniteSet(S)
  BY <1>0, CountType DEF n
<1>6. Cardinality(S) = Cardinality(T)
  <2> HIDE DEF S, T, g
  <2> QED  BY <1>2, <1>3, <1>4, <1>5, SameSize
<1> QED  BY <1>0, <1>6 DEF Count, n

-----------------------------------------------------------------------------
(***************************************************************************)
(* The calls                                                               *)
(***************************************************************************)
\* Setting the key of a node and shifting it up.
LEMMA DecreaseShuffles ==
    ASSUME NEW D, NEW e \in Seq(Nodes(D)), NEW i \in Nat, i < Len(e), NEW v \in Int,
           v <= Prio(e, i)
    PROVE  /\ [e EXCEPT ![i + 1].prio = v] \in Seq(Nodes(D))
           /\ DecreaseKey(e, i, v) = Reorder([e EXCEPT ![i + 1].prio = v], i)
           /\ DecreaseKey(e, i, v) \in Seq(Nodes(D))
           /\ Shuffle(DecreaseKey(e, i, v), [e EXCEPT ![i + 1].prio = v])
<1> DEFINE f == [e EXCEPT ![i + 1].prio = v]
<1>0. i + 1 \in 1..Len(e) /\ e[i + 1] \in Nodes(D)
  OBVIOUS
<1>2. e[i + 1].prio \in Int /\ [e[i + 1] EXCEPT !.prio = v] \in Nodes(D)
  BY <1>0 DEF Nodes
<1>1. f \in Seq(Nodes(D)) /\ Len(f) = Len(e)
  BY <1>0, <1>2
<1>3. DecreaseKey(e, i, v) = Reorder(f, i)
  BY <1>2 DEF DecreaseKey, Prio
<1> HIDE DEF f
<1>4. Reorder(f, i) \in Seq(Nodes(D)) /\ Shuffle(Reorder(f, i), f)
  BY <1>1, ReorderShuffles
<1> QED  BY <1>1, <1>3, <1>4 DEF f

\* An insert into a queue with room adds the entry.
LEMMA InsertShuffles ==
    ASSUME NEW D, NEW e \in Seq(Nodes(D)), NEW cap, Len(e) # cap, NEW v \in Int, NEW d \in D
    PROVE  /\ Insert(e, cap, v, d) = Reorder(Append(e, [prio |-> v, data |-> d]), Len(e))
           /\ Insert(e, cap, v, d) \in Seq(Nodes(D))
           /\ Shuffle(Insert(e, cap, v, d), Append(e, [prio |-> v, data |-> d]))
<1> DEFINE x == [prio |-> v, data |-> d]
           f == Append(e, x)
<1>1. x \in Nodes(D)
  BY DEF Nodes
<1>2. f \in Seq(Nodes(D)) /\ Len(f) = Len(e) + 1 /\ Len(e) \in Nat /\ f[Len(e) + 1] = x
  BY <1>1
<1>3. Prio(f, Len(e)) = v
  BY <1>2 DEF Prio
<1>4. Insert(e, cap, v, d) = DecreaseKey(f, Len(e), v)
  BY DEF Insert
<1>0. v <= Prio(f, Len(e)) /\ Len(e) < Len(f)
  BY <1>2, <1>3
<1> HIDE DEF f
<1>5. [f EXCEPT ![Len(e) + 1].prio = v] = f
  <2>1. [x EXCEPT !.prio = v] = x
    BY DEF Nodes
  <2> HIDE DEF x
  <2> QED  BY <1>1, <1>2, <2>1
<1> DEFINE m == Len(e)
<1>7. f \in Seq(Nodes(D)) /\ m \in Nat /\ m < Len(f) /\ v <= Prio(f, m)
  BY <1>0, <1>2
<1> HIDE DEF m
<1>6. /\ DecreaseKey(f, m, v) = Reorder([f EXCEPT ![m + 1].prio = v], m)
      /\ DecreaseKey(f, m, v) \in Seq(Nodes(D))
      /\ Shuffle(DecreaseKey(f, m, v), [f EXCEPT ![m + 1].prio = v])
  BY <1>7, DecreaseShuffles
<1> QED  BY <1>4, <1>5, <1>6 DEF f, m

\* The array in which the last entry has taken the root's place.
Rooted(e) == SubSeq([e EXCEPT ![1] = e[Len(e)]], 1, Len(e) - 1)

\* The last entry in the root's place: the array without its root, rearranged.
LEMMA RootedEntries ==
    ASSUME NEW D, NEW e \in Seq(Nodes(D)), Len(e) # 0
    PROVE  /\ Rooted(e) \in Seq(Nodes(D)) /\ Len(Rooted(e)) = Len(e) - 1
           /\ \A k \in 1..(Len(e) - 1) : Rooted(e)[k] = IF k = 1 THEN e[Len(e)] ELSE e[k]
           /\ Tail(e) \in Seq(Nodes(D)) /\ Len(Tail(e)) = Len(e) - 1
           /\ \A k \in 1..(Len(e) - 1) : Tail(e)[k] = e[k + 1]
           /\ Shuffle(Rooted(e), Tail(e))
<1> DEFINE n == Len(e) - 1
           f == [e EXCEPT ![1] = e[Len(e)]]
           p == [k \in 1..n |-> IF k = 1 THEN n ELSE k - 1]
<1>1. Len(e) \in Nat /\ n \in Nat /\ Len(e) = n + 1 /\ e[Len(e)] \in Nodes(D)
  OBVIOUS
<1>2. /\ f \in Seq(Nodes(D)) /\ Len(f) = Len(e)
      /\ \A k \in 1..Len(e) : f[k] = IF k = 1 THEN e[Len(e)] ELSE e[k]
  BY <1>1
<1>3. /\ Tail(e) \in Seq(Nodes(D)) /\ Len(Tail(e)) = n
      /\ \A k \in 1..n : Tail(e)[k] = e[k + 1]
  BY <1>1
<1> DEFINE r == SubSeq(f, 1, n)
<1> HIDE DEF f
<1>4. r \in Seq(Nodes(D)) /\ Len(r) = n /\ \A k \in 1..n : r[k] = f[k]
  BY <1>1, <1>2
<1>5. \A k \in 1..n : r[k] = IF k = 1 THEN e[Len(e)] ELSE e[k]
  BY <1>1, <1>2, <1>4
<1>6. r = Rooted(e)
  BY DEF Rooted, f
<1> HIDE DEF r, n
<1>7. Arranges(p, n, r, Tail(e))
  <2>1. p \in [1..n -> 1..n]
    BY <1>1
  <2>2. \A j, k \in 1..n : p[j] = p[k] => j = k
    BY <1>1
  <2>3. ASSUME NEW k \in 1..n  PROVE \E j \in 1..n : p[j] = k
    <3>1. CASE k = n
      <4>1. 1 \in 1..n /\ p[1] = k
        BY <1>1, <3>1
      <4> QED  BY <4>1
    <3>2. CASE k # n
      <4>1. k + 1 \in 1..n /\ k + 1 # 1 /\ (k + 1) - 1 = k
        BY <1>1, <3>2
      <4>2. p[k + 1] = k
        BY <4>1
      <4> QED  BY <4>1, <4>2
    <3> QED  BY <3>1, <3>2
  <2>4. ASSUME NEW k \in 1..n  PROVE r[k] = Tail(e)[p[k]]
    <3>1. p[k] \in 1..n /\ p[k] + 1 = IF k = 1 THEN Len(e) ELSE k
      BY <1>1
    <3>2. Tail(e)[p[k]] = e[p[k] + 1]
      BY <1>3, <3>1
    <3> HIDE DEF p
    <3> QED  BY <1>5, <3>1, <3>2
  <2> HIDE DEF p
  <2> QED  BY <2>1, <2>2, <2>3, <2>4 DEF Arranges
<1> QED  BY <1>3, <1>4, <1>5, <1>6, <1>7 DEF Shuffle, n

\* An extraction takes out the first entry of the array, and no other.
LEMMA ExtractShuffles ==
    ASSUME NEW D, NEW e \in Seq(Nodes(D)), Len(e) # 0
    PROVE  /\ ExtractMin(e) = Heapify(Rooted(e), 0)
           /\ ExtractMin(e) \in Seq(Nodes(D))
           /\ Shuffle(ExtractMin(e), Tail(e))
<1>1. ExtractMin(e) = Heapify(Rooted(e), 0)
  BY DEF ExtractMin, IsEmpty, Rooted
<1>2. Rooted(e) \in Seq(Nodes(D)) /\ Shuffle(Rooted(e), Tail(e))
  BY RootedEntries
<1>3. Heapify(Rooted(e), 0) \in Seq(Nodes(D)) /\ Shuffle(Heapify(Rooted(e), 0), Rooted(e))
  BY <1>2, HeapifyShuffles
<1> QED  BY <1>1, <1>2, <1>3, ShuffleTrans

-----------------------------------------------------------------------------
(***************************************************************************)
(* How often an index is in the array                                      *)
(***************************************************************************)
\* The numbers of A up to n + 1.
LEMMA NextNumber ==
    ASSUME NEW A, NEW n \in Nat, NEW S, NEW T,
           S = {k \in 1..n : k \in A}, T = {k \in 1..(n + 1) : k \in A}
    PROVE  /\ Cardinality(S) \in Nat
           /\ Cardinality(T) = Cardinality(S) + IF n + 1 \in A THEN 1 ELSE 0
<1>1. IsFiniteSet(S)
  <2>1. IsFiniteSet(1..n)
    BY FS_Interval
  <2>2. S \in SUBSET (1..n)
    OBVIOUS
  <2> QED  BY <2>1, <2>2, FS_Subset
<1>2. Cardinality(S) \in Nat
  BY <1>1, FS_CardinalityType
<1>3. CASE n + 1 \in A
  <2>1. T = S \cup {n + 1} /\ n + 1 \notin S
    BY <1>3
  <2>2. Cardinality(T) = Cardinality(S) + 1
    BY <1>1, <2>1, FS_AddElement
  <2> QED  BY <1>2, <1>3, <2>2
<1>4. CASE n + 1 \notin A
  <2>1. T = S
    BY <1>4
  <2>2. Cardinality(S) = Cardinality(S) + 0
    BY <1>2
  <2> QED  BY <1>2, <1>4, <2>1, <2>2
<1> QED  BY <1>3, <1>4

\* One more entry at the end.
LEMMA AppendCount ==
    ASSUME NEW D, NEW e \in Seq(Nodes(D)), NEW x \in Nodes(D), NEW s
    PROVE  Count(Append(e, x), s) = Count(e, s) + IF x.data = s THEN 1 ELSE 0
<1> DEFINE f == Append(e, x)
           n == Len(e)
           A == {k \in 1..(n + 1) : f[k].data = s}
<1>1. n \in Nat /\ Len(f) = n + 1 /\ f[n + 1] = x /\ \A k \in 1..n : f[k] = e[k]
  OBVIOUS
<1> HIDE DEF f, n
<1> DEFINE S == {k \in 1..n : e[k].data = s}
           T == {k \in 1..Len(f) : f[k].data = s}
<1>2. T = {k \in 1..(n + 1) : k \in A}
  BY <1>1
<1>3. S = {k \in 1..n : k \in A}
  BY <1>1
<1>4. n + 1 \in A <=> x.data = s
  BY <1>1
<1>5. Cardinality(T) = Cardinality(S) + IF n + 1 \in A THEN 1 ELSE 0
  <2> HIDE DEF A, S, T
  <2> QED  BY <1>1, <1>2, <1>3, NextNumber
<1> QED  BY <1>4, <1>5 DEF Count, f, n

\* The array without its root.
LEMMA TailCount ==
    ASSUME NEW D, NEW e \in Seq(Nodes(D)), Len(e) # 0, NEW s
    PROVE  Count(Tail(e), s) = Count(e, s) - IF e[1].data = s THEN 1 ELSE 0
<1> DEFINE n == Len(e) - 1
           S == {k \in 1..Len(e) : e[k].data = s}
           T == {k \in 1..n : e[k + 1].data = s}
           f == [k \in T |-> k + 1]
<1>0. n \in Nat /\ Len(e) = n + 1 /\ 1 \in 1..Len(e)
  OBVIOUS
<1>1. IsFiniteSet(S) /\ Cardinality(S) \in Nat
  BY CountType DEF Count
<1>2. Count(Tail(e), s) = Cardinality(T)
  <2>1. Len(Tail(e)) = n /\ \A k \in 1..n : Tail(e)[k] = e[k + 1]
    BY RootedEntries
  <2>2. {k \in 1..Len(Tail(e)) : Tail(e)[k].data = s} = T
    BY <2>1
  <2> QED  BY <2>2 DEF Count
<1>3. f \in [T -> S \ {1}] /\ \A j, k \in T : f[j] = f[k] => j = k
  BY <1>0
<1>4. ASSUME NEW z \in S \ {1}  PROVE \E k \in T : f[k] = z
  <2>1. z - 1 \in T /\ f[z - 1] = z
    BY <1>0
  <2> QED  BY <2>1
<1>5. IsFiniteSet(T)
  <2>1. IsFiniteSet(1..n) /\ T \in SUBSET (1..n)
    BY <1>0, FS_Interval
  <2> HIDE DEF T
  <2> QED  BY <2>1, FS_Subset
<1>6. Cardinality(S \ {1}) = Cardinality(T)
  <2> HIDE DEF S, T, f
  <2> QED  BY <1>3, <1>4, <1>5, SameSize
<1>7. Cardinality(S \ {1}) = IF 1 \in S THEN Cardinality(S) - 1 ELSE Cardinality(S)
  <2> HIDE DEF S
  <2> QED  BY <1>1, FS_RemoveElement
<1>8. 1 \in S <=> e[1].data = s
  BY <1>0
<1>9. Count(e, s) = Cardinality(S)
  BY DEF Count
<1> HIDE DEF S, T
<1>10. CASE e[1].data = s
  BY <1>1, <1>2, <1>6, <1>7, <1>8, <1>9, <1>10
<1>11. CASE e[1].data # s
  BY <1>1, <1>2, <1>6, <1>7, <1>8, <1>9, <1>11
<1> QED  BY <1>10, <1>11
=============================================================================
