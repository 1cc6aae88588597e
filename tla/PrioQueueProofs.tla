-------------------------- MODULE PrioQueueProofs ---------------------------
(***************************************************************************)
(* The priority queue keeps its entries, the shift up keeps the heap in    *)
(* order, and what the shift down leaves out of order, for every capacity  *)
(* and every set of keys and indices.                                      *)
(***************************************************************************)
EXTENDS PrioQueue, PrioQueueOpsProofs

-----------------------------------------------------------------------------
(***************************************************************************)
(* Order                                                                   *)
(***************************************************************************)
\* Node c is not below its parent.
Ordered(e, c) == Prio(e, Parent(c)) <= Prio(e, c)

\* An array with no pair out of order is a heap.
LEMMA DisorderEmpty ==
    ASSUME NEW D, NEW e \in Seq(Nodes(D))
    PROVE  Disorder(e) = {} <=> \A c \in 1..(Len(e) - 1) : Ordered(e, c)
<1>1. ASSUME NEW c \in 1..(Len(e) - 1)
      PROVE  Ordered(e, c) <=> ~(Prio(e, c) < Prio(e, Parent(c)))
  <2>1. c \in Nat /\ Parent(c) \in Nat /\ c < Len(e) /\ Parent(c) < Len(e)
    BY ParentOf
  <2>2. e[c + 1] \in Nodes(D) /\ e[Parent(c) + 1] \in Nodes(D)
    BY <2>1
  <2> QED  BY <2>2 DEF Ordered, Prio, Nodes
<1> QED  BY <1>1 DEF Disorder

\* The nodes of a place, as numbers.
LEMMA PrioType ==
    ASSUME NEW D, NEW e \in Seq(Nodes(D)), NEW i \in Nat, i < Len(e)
    PROVE  Prio(e, i) \in Int
<1>1. e[i + 1] \in Nodes(D)
  OBVIOUS
<1> QED  BY <1>1 DEF Prio, Nodes

\* The keys after a swap.
LEMMA SwapPrio ==
    ASSUME NEW D, NEW e \in Seq(Nodes(D)), NEW i \in Nat, NEW j \in Nat,
           i < Len(e), j < Len(e)
    PROVE  /\ Prio(Swap(e, i, j), i) = Prio(e, j)
           /\ Prio(Swap(e, i, j), j) = Prio(e, i)
           /\ \A c \in Nat : c < Len(e) /\ c # i /\ c # j =>
                  Prio(Swap(e, i, j), c) = Prio(e, c)
<1>1. \A c \in Nat : c < Len(e) /\ c # i /\ c # j =>
          c + 1 \in 1..Len(e) /\ c + 1 # i + 1 /\ c + 1 # j + 1
  OBVIOUS
<1> QED  BY <1>1, SwapEntries DEF Prio

\* On the way up everything is in order but the node that moves, and its
\* children are in order with its parent.
UpOrder(h) ==
    /\ \A c \in 1..(Len(h.e) - 1) : c # h.i => Ordered(h.e, c)
    /\ h.i > 0 => \A c \in 1..(Len(h.e) - 1) :
                      Parent(c) = h.i => Prio(h.e, Parent(h.i)) <= Prio(h.e, c)

\* A round of the shift up keeps everything but the moving node in order.
LEMMA ShiftUpOrder ==
    ASSUME NEW D, NEW h \in Places(D), UpOrder(h)
    PROVE  UpOrder(ShiftUp(h))
<1>0. h.e \in Seq(Nodes(D)) /\ h.i \in Nat /\ Len(h.e) \in Nat
  BY DEF Places
<1>1. CASE ShiftUp(h) = h
  BY <1>1
<1>2. CASE /\ h.i > 0 /\ Prio(h.e, h.i) < Prio(h.e, Parent(h.i))
           /\ h.i < Len(h.e) /\ Parent(h.i) \in Nat /\ Parent(h.i) < h.i
           /\ ShiftUp(h) = [e |-> Swap(h.e, h.i, Parent(h.i)), i |-> Parent(h.i)]
  <2> DEFINE e == h.e
             i == h.i
             q == Parent(i)
  <2>1. /\ e \in Seq(Nodes(D)) /\ i \in Nat /\ q \in Nat /\ q < i /\ i < Len(e)
        /\ Prio(e, i) < Prio(e, q)
        /\ \A c \in 1..(Len(e) - 1) : c # i => Ordered(e, c)
        /\ \A c \in 1..(Len(e) - 1) : Parent(c) = i => Prio(e, q) <= Prio(e, c)
    BY <1>0, <1>2 DEF UpOrder
  <2>3. q = Parent(i)
    OBVIOUS
  <2> HIDE DEF e, i, q
  <2> DEFINE f == Swap(e, i, q)
  <2>2. /\ Prio(f, i) = Prio(e, q) /\ Prio(f, q) = Prio(e, i)
        /\ \A c \in Nat : c < Len(e) /\ c # i /\ c # q => Prio(f, c) = Prio(e, c)
        /\ Len(f) = Len(e)
    <3>1. q < Len(e)
      BY <2>1
    <3> QED  BY <2>1, <3>1, SwapPrio, SwapEntries
  <2> HIDE DEF f
  <2>4. \A c \in 1..(Len(e) - 1) :
            c \in Nat /\ c < Len(e) /\ Parent(c) \in Nat /\ Parent(c) < c
    BY <1>0, ParentOf DEF e
  <2>5. \A c \in 0..(Len(e) - 1) : Prio(e, c) \in Int
    BY <2>1, PrioType
  <2>6. ASSUME NEW c \in 1..(Len(e) - 1), c # q  PROVE Prio(f, Parent(c)) <= Prio(f, c)
    <3>1. c \in 0..(Len(e) - 1) /\ Parent(c) \in 0..(Len(e) - 1) /\ Parent(c) < c
          /\ i \in 0..(Len(e) - 1) /\ q \in 0..(Len(e) - 1)
      BY <1>0, <2>1, <2>4 DEF e
    <3>2. Prio(e, c) \in Int /\ Prio(e, Parent(c)) \in Int /\ Prio(e, i) \in Int /\ Prio(e, q) \in Int
      BY <2>5, <3>1
    <3>3. CASE c = i
      BY <2>1, <2>2, <2>3, <3>2, <3>3
    <3>4. CASE c # i /\ Parent(c) = q
      <4>1. Prio(e, q) <= Prio(e, c)
        BY <2>1, <3>4 DEF Ordered
      <4> QED  BY <2>1, <2>2, <2>4, <2>6, <3>2, <3>4, <4>1
    <3>5. CASE c # i /\ Parent(c) = i
      <4>1. Prio(e, q) <= Prio(e, c)
        BY <2>1, <3>5
      <4> QED  BY <2>2, <2>4, <2>6, <3>5, <4>1
    <3>6. CASE c # i /\ Parent(c) # i /\ Parent(c) # q
      <4>1. Prio(e, Parent(c)) <= Prio(e, c)
        BY <2>1, <3>6 DEF Ordered
      <4>2. Prio(f, c) = Prio(e, c) /\ Prio(f, Parent(c)) = Prio(e, Parent(c))
        BY <2>2, <2>4, <2>6, <3>1, <3>6
      <4> QED  BY <4>1, <4>2
    <3> QED  BY <3>3, <3>4, <3>5, <3>6
  <2>7. ASSUME q > 0, NEW c \in 1..(Len(e) - 1), Parent(c) = q
        PROVE  Prio(f, Parent(q)) <= Prio(f, c)
    <3>1. q \in 1..(Len(e) - 1) /\ q # i
      BY <1>0, <2>1, <2>7 DEF e
    <3>2. Prio(e, Parent(q)) <= Prio(e, q) /\ Parent(q) \in Nat /\ Parent(q) < q
      BY <2>1, <2>4, <3>1 DEF Ordered
    <3>3. Prio(f, Parent(q)) = Prio(e, Parent(q))
      BY <2>1, <2>2, <3>2
    <3>4. CASE c = i
      BY <2>2, <3>2, <3>3, <3>4
    <3>5. CASE c # i
      <4>1. Prio(e, q) <= Prio(e, c) /\ Prio(f, c) = Prio(e, c)
        BY <2>1, <2>2, <2>4, <2>7, <3>5 DEF Ordered
      <4>2. Prio(e, c) \in Int /\ Prio(e, q) \in Int /\ Prio(e, Parent(q)) \in Int
        <5>1. c \in 0..(Len(e) - 1) /\ q \in 0..(Len(e) - 1) /\ Parent(q) \in 0..(Len(e) - 1)
          BY <1>0, <2>1, <2>4, <3>1, <3>2 DEF e
        <5> QED  BY <2>5, <5>1
      <4> QED  BY <3>2, <3>3, <4>1, <4>2
    <3> QED  BY <3>4, <3>5
  <2>8. ShiftUp(h) = [e |-> f, i |-> q]
    BY <1>2 DEF e, i, q, f
  <2> QED  BY <2>2, <2>6, <2>7, <2>8 DEF UpOrder, Ordered
<1> QED  BY <1>1, <1>2, ShiftUpCases

\* When the loop stops, nothing is out of order.
LEMMA ReorderOrders ==
    ASSUME NEW D, NEW e \in Seq(Nodes(D)), NEW i \in Nat, i < Len(e),
           UpOrder([e |-> e, i |-> i])
    PROVE  Disorder(Reorder(e, i)) = {}
<1>0. PICK g : UpRun(g, D, e, i)
  BY ReorderLoop
<1>1. /\ g \in [0..Len(e) -> Places(D)]
      /\ g[0] = [e |-> e, i |-> i]
      /\ \A k \in 1..Len(e) : g[k] = ShiftUp(g[k - 1])
      /\ Reorder(e, i) = g[Len(e)].e
  BY <1>0 DEF UpRun
<1> DEFINE Stopped(h) == h.i > 0 => Ordered(h.e, h.i)
           S == {k \in 0..Len(e) : UpOrder(g[k]) /\ (g[k].i + k <= i \/ Stopped(g[k]))}
<1>2. 0 \in S
  BY <1>1
<1>3. ASSUME NEW k \in 1..Len(e), k - 1 \in S  PROVE k \in S
  <2> DEFINE h == g[k - 1]
  <2>1. h \in Places(D) /\ UpOrder(h) /\ (h.i + (k - 1) <= i \/ Stopped(h))
    BY <1>1, <1>3
  <2>2. g[k] = ShiftUp(h)
    BY <1>1
  <2> HIDE DEF h
  <2>3. UpOrder(g[k])
    BY <2>1, <2>2, ShiftUpOrder
  <2>4. h.e \in Seq(Nodes(D)) /\ h.i \in Nat /\ (h.i = 0 \/ h.i < Len(h.e))
    BY <2>1 DEF Places
  <2>5. CASE /\ ~(h.i > 0 /\ Prio(h.e, h.i) < Prio(h.e, Parent(h.i)))
             /\ ShiftUp(h) = h
    <3>1. h.i > 0 => /\ Prio(h.e, h.i) \in Int /\ Prio(h.e, Parent(h.i)) \in Int
      <4>1. Parent(h.i) \in Nat /\ Parent(h.i) <= h.i
        BY <2>4, ParentOf
      <4>2. h.i > 0 => Parent(h.i) < Len(h.e) /\ h.i < Len(h.e)
        BY <2>4, <4>1
      <4> QED  BY <2>4, <4>1, <4>2, PrioType
    <3>2. Stopped(h)
      BY <2>5, <3>1 DEF Ordered
    <3> QED  BY <2>2, <2>3, <2>5, <3>2
  <2>6. CASE /\ h.i > 0 /\ Prio(h.e, h.i) < Prio(h.e, Parent(h.i))
             /\ h.i < Len(h.e) /\ Parent(h.i) \in Nat /\ Parent(h.i) < h.i
             /\ ShiftUp(h) = [e |-> Swap(h.e, h.i, Parent(h.i)), i |-> Parent(h.i)]
    <3>1. ~Stopped(h)
      <4>1. Prio(h.e, h.i) \in Int /\ Prio(h.e, Parent(h.i)) \in Int
        BY <2>4, <2>6, PrioType
      <4> QED  BY <2>6, <4>1 DEF Ordered
    <3>2. g[k].i = Parent(h.i)
      BY <2>2, <2>6
    <3>3. g[k].i + k <= i
      BY <2>1, <2>4, <2>6, <3>1, <3>2
    <3> QED  BY <2>3, <3>3
  <2> QED  BY <2>1, <2>5, <2>6, ShiftUpCases
<1>4. Len(e) \in S
  <2>1. Len(e) \in Nat
    OBVIOUS
  <2> HIDE DEF S
  <2>2. \A k \in 0..Len(e) : k \in S
    BY <1>2, <1>3, <2>1, InductionTo
  <2> QED  BY <2>1, <2>2
<1> DEFINE h == g[Len(e)]
<1>5. h.e \in Seq(Nodes(D)) /\ h.i \in Nat /\ UpOrder(h) /\ (h.i + Len(e) <= i \/ Stopped(h))
  BY <1>1, <1>4 DEF Places
<1> HIDE DEF h
<1>6. Stopped(h)
  BY <1>5
<1>7. \A c \in 1..(Len(h.e) - 1) : Ordered(h.e, c)
  BY <1>5, <1>6 DEF UpOrder
<1>8. Disorder(h.e) = {}
  BY <1>5, <1>7, DisorderEmpty
<1> QED  BY <1>1, <1>8 DEF h

\* A key below all others rises to the root, in order or not.
LEMMA MinRises ==
    ASSUME NEW D, NEW e \in Seq(Nodes(D)), NEW i \in Nat, i < Len(e),
           \A k \in 1..Len(e) : k # i + 1 => e[i + 1].prio < e[k].prio
    PROVE  Reorder(e, i)[1] = e[i + 1]
<1>0. PICK g : UpRun(g, D, e, i)
  BY ReorderLoop
<1>1. /\ g \in [0..Len(e) -> Places(D)]
      /\ g[0] = [e |-> e, i |-> i]
      /\ \A k \in 1..Len(e) : g[k] = ShiftUp(g[k - 1])
      /\ Reorder(e, i) = g[Len(e)].e
  BY <1>0 DEF UpRun
<1> DEFINE x == e[i + 1]
           Least(h) == /\ h.e[h.i + 1] = x
                       /\ \A k \in 1..Len(h.e) : k # h.i + 1 => x.prio < h.e[k].prio
           S == {k \in 0..Len(e) : Least(g[k]) /\ (g[k].i = 0 \/ g[k].i + k <= i)}
<1>2. 0 \in S
  BY <1>1
<1> HIDE DEF x
<1>3. ASSUME NEW k \in 1..Len(e), k - 1 \in S  PROVE k \in S
  <2> DEFINE h == g[k - 1]
  <2>1. h \in Places(D) /\ Least(h) /\ (h.i = 0 \/ h.i + (k - 1) <= i)
    BY <1>1, <1>3
  <2>2. g[k] = ShiftUp(h)
    BY <1>1
  <2> HIDE DEF h
  <2>4. h.e \in Seq(Nodes(D)) /\ h.i \in Nat /\ (h.i = 0 \/ h.i < Len(h.e))
    BY <2>1 DEF Places
  <2>5. CASE /\ ~(h.i > 0 /\ Prio(h.e, h.i) < Prio(h.e, Parent(h.i)))
             /\ ShiftUp(h) = h
    <3>1. h.i = 0
      <4> SUFFICES ASSUME h.i > 0  PROVE Prio(h.e, h.i) < Prio(h.e, Parent(h.i))
        BY <2>4, <2>5
      <4>0. Parent(h.i) \in Nat /\ Parent(h.i) < h.i
        BY <2>4, ParentOf
      <4>1. Parent(h.i) + 1 \in 1..Len(h.e) /\ Parent(h.i) + 1 # h.i + 1
        BY <2>4, <4>0
      <4> QED  BY <2>1, <4>1 DEF Prio
    <3> QED  BY <2>1, <2>2, <2>5, <3>1
  <2>6. CASE /\ h.i > 0
             /\ h.i < Len(h.e) /\ Parent(h.i) \in Nat /\ Parent(h.i) < h.i
             /\ ShiftUp(h) = [e |-> Swap(h.e, h.i, Parent(h.i)), i |-> Parent(h.i)]
    <3> DEFINE q == Parent(h.i)
               f == Swap(h.e, h.i, q)
    <3>1. q \in Nat /\ q < h.i /\ q < Len(h.e) /\ g[k] = [e |-> f, i |-> q]
      BY <2>2, <2>4, <2>6
    <3> HIDE DEF q
    <3>2. /\ Len(f) = Len(h.e) /\ f[q + 1] = h.e[h.i + 1] /\ f[h.i + 1] = h.e[q + 1]
          /\ \A m \in 1..Len(h.e) : m # h.i + 1 /\ m # q + 1 => f[m] = h.e[m]
      <4>1. /\ h.e \in Seq(Nodes(D)) /\ h.i \in Nat /\ h.i < Len(h.e)
            /\ q \in Nat /\ q < Len(h.e)
        BY <2>4, <3>1
      <4> DEFINE a == h.e
                 m == h.i
      <4> HIDE DEF a, m
      <4>2. a \in Seq(Nodes(D)) /\ m \in Nat /\ q \in Nat /\ m < Len(a) /\ q < Len(a)
        BY <4>1 DEF a, m
      <4>3. /\ Len(Swap(a, m, q)) = Len(a)
            /\ Swap(a, m, q)[q + 1] = a[m + 1] /\ Swap(a, m, q)[m + 1] = a[q + 1]
            /\ \A c \in 1..Len(a) : c # m + 1 /\ c # q + 1 => Swap(a, m, q)[c] = a[c]
        BY <4>2, SwapEntries
      <4> QED  BY <4>3 DEF a, m
    <3> HIDE DEF f
    <3>3. f[q + 1] = x
      BY <2>1, <3>2
    <3>4. ASSUME NEW m \in 1..Len(f), m # q + 1  PROVE x.prio < f[m].prio
      <4>1. CASE m = h.i + 1
        <5>1. q + 1 \in 1..Len(h.e) /\ q + 1 # h.i + 1
          BY <2>4, <3>1
        <5> QED  BY <2>1, <3>2, <4>1, <5>1
      <4>2. CASE m # h.i + 1
        BY <2>1, <3>2, <3>4, <4>2
      <4> QED  BY <4>1, <4>2
    <3>5. q + k <= i
      BY <2>1, <2>4, <2>6, <3>1
    <3> QED  BY <3>1, <3>3, <3>4, <3>5
  <2> QED  BY <2>1, <2>5, <2>6, ShiftUpCases
<1>4. Len(e) \in S
  <2>1. Len(e) \in Nat
    OBVIOUS
  <2> HIDE DEF S
  <2>2. \A k \in 0..Len(e) : k \in S
    BY <1>2, <1>3, <2>1, InductionTo
  <2> QED  BY <2>1, <2>2
<1> DEFINE h == g[Len(e)]
<1>5. h.i \in Nat /\ Least(h) /\ (h.i = 0 \/ h.i + Len(e) <= i)
  BY <1>1, <1>4 DEF Places
<1> HIDE DEF h
<1>6. h.i = 0
  BY <1>5
<1> QED  BY <1>1, <1>5, <1>6 DEF h, x

\* The nodes whose parent is i are its left and its right child.
LEMMA Children ==
    ASSUME NEW i \in Nat
    PROVE  /\ Left(i) \in Nat /\ Right(i) \in Nat
           /\ i < Left(i) /\ Left(i) < Right(i) /\ i < Right(i) /\ Left(i) > 0
           /\ Parent(Left(i)) = i /\ Parent(Right(i)) = i
           /\ \A c \in Nat : c > 0 /\ Parent(c) = i => c = Left(i) \/ c = Right(i)
  BY DEF Left, Right, Parent

\* On the way down everything is in order but the children of the node that
\* moves, and they are in order with its parent.
DownOrder(h) ==
    /\ \A c \in 1..(Len(h.e) - 1) : Parent(c) # h.i => Ordered(h.e, c)
    /\ h.i > 0 => \A c \in 1..(Len(h.e) - 1) :
                      Parent(c) = h.i => Prio(h.e, Parent(h.i)) <= Prio(h.e, c)

\* The code's test for going on.
Low(h) == Left(h.i) < Len(h.e) /\ Prio(h.e, Left(h.i)) < Prio(h.e, h.i)
GoesOn(h) == /\ Right(h.i) < Len(h.e)
             /\ Prio(h.e, Right(h.i)) < Prio(h.e, IF Low(h) THEN Left(h.i) ELSE h.i)

\* A call of the shift down that goes on goes right, and keeps everything
\* but the children of the moving node in order.
LEMMA ShiftDownOrder ==
    ASSUME NEW D, NEW h \in Places(D), DownOrder(h), GoesOn(h)
    PROVE  /\ ShiftDown(h) = [e |-> Swap(h.e, h.i, Right(h.i)), i |-> Right(h.i)]
           /\ DownOrder(ShiftDown(h))
<1>1. ShiftDown(h) = [e |-> Swap(h.e, h.i, Right(h.i)), i |-> Right(h.i)]
  BY ShiftDownCases DEF GoesOn, Low
<1> DEFINE e == h.e
           i == h.i
           l == Left(i)
           r == Right(i)
<1>2. /\ e \in Seq(Nodes(D)) /\ Len(e) \in Nat
      /\ i \in Nat /\ r < Len(e)
      /\ Prio(e, r) < Prio(e, IF l < Len(e) /\ Prio(e, l) < Prio(e, i) THEN l ELSE i)
      /\ \A c \in 1..(Len(e) - 1) : Parent(c) # i => Ordered(e, c)
      /\ i > 0 => \A c \in 1..(Len(e) - 1) : Parent(c) = i => Prio(e, Parent(i)) <= Prio(e, c)
  BY DEF Places, GoesOn, Low, DownOrder
<1>3. ShiftDown(h) = [e |-> Swap(e, i, r), i |-> r]
  BY <1>1
<1> HIDE DEF e, i
<1>4. /\ l \in Nat /\ r \in Nat /\ i < l /\ l < r /\ l < Len(e) /\ i < Len(e)
      /\ Parent(l) = i /\ Parent(r) = i
      /\ \A c \in Nat : c > 0 /\ Parent(c) = i => c = l \/ c = r
  <2>1. /\ l \in Nat /\ r \in Nat /\ i < l /\ l < r
        /\ Parent(l) = i /\ Parent(r) = i
        /\ \A c \in Nat : c > 0 /\ Parent(c) = i => c = l \/ c = r
    BY <1>2, Children
  <2> HIDE DEF l, r
  <2> QED  BY <1>2, <2>1
<1> HIDE DEF l, r
<1>5. \A c \in 1..(Len(e) - 1) : c \in Nat /\ c < Len(e) /\ Parent(c) \in Nat /\ Parent(c) < c
  BY <1>2, ParentOf
<1>6. \A c \in 0..(Len(e) - 1) : Prio(e, c) \in Int
  BY <1>2, PrioType
<1>7. Prio(e, r) < Prio(e, i) /\ Prio(e, r) <= Prio(e, l)
  <2>1. Prio(e, r) \in Int /\ Prio(e, i) \in Int /\ Prio(e, l) \in Int
    <3>1. r \in 0..(Len(e) - 1) /\ i \in 0..(Len(e) - 1) /\ l \in 0..(Len(e) - 1)
      BY <1>2, <1>4
    <3> QED  BY <1>6, <3>1
  <2> QED  BY <1>2, <1>4, <2>1
<1> DEFINE f == Swap(e, i, r)
<1>8. /\ Prio(f, i) = Prio(e, r) /\ Prio(f, r) = Prio(e, i)
      /\ \A c \in Nat : c < Len(e) /\ c # i /\ c # r => Prio(f, c) = Prio(e, c)
      /\ Len(f) = Len(e)
  BY <1>2, <1>4, SwapPrio, SwapEntries
<1> HIDE DEF f
<1>9. ASSUME NEW c \in 1..(Len(e) - 1), Parent(c) # r
      PROVE  Prio(f, Parent(c)) <= Prio(f, c)
  <2>0. c \in Nat /\ c < Len(e) /\ Parent(c) \in Nat /\ Parent(c) < c
    BY <1>5
  <2>1. CASE c = r
    <3>1. Prio(f, Parent(c)) = Prio(e, r) /\ Prio(f, c) = Prio(e, i)
      BY <1>4, <1>8, <2>1
    <3>2. Prio(e, r) \in Int /\ Prio(e, i) \in Int
      <4>1. r \in 0..(Len(e) - 1) /\ i \in 0..(Len(e) - 1)
        BY <1>2, <1>4
      <4> QED  BY <1>6, <4>1
    <3> QED  BY <1>7, <3>1, <3>2
  <2>2. CASE c = l
    <3>1. Prio(f, Parent(c)) = Prio(e, r) /\ Prio(f, c) = Prio(e, l)
      BY <1>4, <1>8, <2>2
    <3> QED  BY <1>7, <3>1
  <2>3. CASE c = i
    <3>1. Prio(f, c) = Prio(e, r) /\ Prio(f, Parent(c)) = Prio(e, Parent(i))
      BY <1>4, <1>8, <2>0, <2>3
    <3>2. i > 0 /\ r \in 1..(Len(e) - 1)
      BY <1>2, <1>4, <2>3
    <3> QED  BY <1>2, <1>4, <3>1, <3>2
  <2>4. CASE c # r /\ c # l /\ c # i
    <3>1. Parent(c) # i
      BY <1>4, <2>0, <2>4
    <3>2. Prio(e, Parent(c)) <= Prio(e, c)
      BY <1>2, <3>1 DEF Ordered
    <3>3. Prio(f, Parent(c)) = Prio(e, Parent(c)) /\ Prio(f, c) = Prio(e, c)
      BY <1>8, <1>9, <2>0, <2>4, <3>1
    <3> QED  BY <3>2, <3>3
  <2> QED  BY <2>1, <2>2, <2>3, <2>4
<1>10. ASSUME NEW c \in 1..(Len(e) - 1), Parent(c) = r
       PROVE  Prio(f, Parent(r)) <= Prio(f, c)
  <2>0. c \in Nat /\ c < Len(e) /\ Parent(c) < c
    BY <1>5
  <2>1. Prio(e, r) <= Prio(e, c)
    BY <1>2, <1>4, <1>10 DEF Ordered
  <2>2. Prio(f, c) = Prio(e, c)
    BY <1>4, <1>8, <1>10, <2>0
  <2> QED  BY <1>4, <1>8, <2>1, <2>2
<1> QED  BY <1>1, <1>3, <1>8, <1>9, <1>10 DEF DownOrder, Ordered, f

\* The spine goes right one step at a time.
LEMMA SpineSteps ==
    /\ Spine[0] = 0
    /\ \A d \in 1..Cap : Spine[d] = Right(Spine[d - 1])
<1> DEFINE F == [k \in 1..Cap |-> [i \in Nat |-> Right(i)]]
           Down(g) == g = [d \in 0..Cap |-> IF d = 0 THEN 0 ELSE Right(g[d - 1])]
<1>1. F \in [1..Cap -> [Nat -> Nat]] /\ Cap \in Nat
  <2>1. [i \in Nat |-> Right(i)] \in [Nat -> Nat]
    BY DEF Right
  <2> QED  BY <2>1, QueueAssumption
<1>2. PICK g \in [0..Cap -> Nat] : IsLoop(g, F, 0, Cap)
  <2> HIDE DEF F
  <2> QED  BY <1>1, LoopExists
<1>3. Down(g)
  <2>1. \A d \in 0..Cap : d # 0 => F[d][g[d - 1]] = Right(g[d - 1])
    <3>1. ASSUME NEW d \in 0..Cap, d # 0  PROVE  F[d][g[d - 1]] = Right(g[d - 1])
      <4>1. d \in 1..Cap /\ d - 1 \in 0..Cap
        BY <3>1, <1>1
      <4> QED  BY <4>1, <1>2
    <3> QED  BY <3>1
  <2> HIDE DEF F
  <2> QED  BY <1>2, <2>1 DEF IsLoop
<1>4. Down(Spine)
  <2>1. Spine = CHOOSE x : Down(x)
    BY DEF Spine
  <2> HIDE DEF Down
  <2> QED  BY <1>3, <2>1
<1>5. ASSUME NEW x, Down(x)
      PROVE  x[0] = 0 /\ \A d \in 1..Cap : x[d] = Right(x[d - 1])
  <2>1. 0 \in 0..Cap /\ \A d \in 1..Cap : d \in 0..Cap /\ d # 0
    BY <1>1
  <2>2. \A d \in 0..Cap : x[d] = IF d = 0 THEN 0 ELSE Right(x[d - 1])
    BY <1>5, Zenon
  <2> QED  BY <2>1, <2>2, Zenon
<1> HIDE DEF Down
<1> QED  BY <1>4, <1>5

\* Where the shift down stops, at most the children of the node at which it
\* stopped are out of order.
LEMMA HeapifyDamage ==
    ASSUME NEW D, NEW e \in Seq(Nodes(D)), Len(e) <= Cap, DownOrder([e |-> e, i |-> 0])
    PROVE  \/ Disorder(Heapify(e, 0)) = {}
           \/ \E i \in RightSpine :
                  /\ Left(i) \in Disorder(Heapify(e, 0))
                  /\ Disorder(Heapify(e, 0)) \subseteq {Left(i), Right(i)}
<1>0. PICK g : DownRun(g, D, e)
  BY HeapifyLoop
<1>1. /\ g \in [0..Len(e) -> Places(D)]
      /\ g[0] = [e |-> e, i |-> 0]
      /\ \A k \in 1..Len(e) : g[k] = ShiftDown(g[k - 1])
      /\ Heapify(e, 0) = g[Len(e)].e
  BY <1>0 DEF DownRun
<1> DEFINE OnSpine(h, k) == \E d \in 0..k : h.i = Spine[d]
           S == {k \in 0..Len(e) : /\ DownOrder(g[k]) /\ OnSpine(g[k], k)
                                   /\ k <= g[k].i \/ ~GoesOn(g[k])}
<1>2. 0 \in S
  BY <1>1, SpineSteps
<1>3. ASSUME NEW k \in 1..Len(e), k - 1 \in S  PROVE k \in S
  <2> DEFINE h == g[k - 1]
  <2>1. /\ h \in Places(D) /\ DownOrder(h) /\ OnSpine(h, k - 1)
        /\ (k - 1 <= h.i \/ ~GoesOn(h)) /\ h.i \in Nat
    BY <1>1, <1>3 DEF Places
  <2>2. g[k] = ShiftDown(h)
    BY <1>1
  <2> HIDE DEF h
  <2>3. CASE ~GoesOn(h)
    <3>1. ShiftDown(h) = h
      BY <2>1, <2>3, ShiftDownCases DEF GoesOn, Low
    <3>2. OnSpine(h, k)
      BY <2>1
    <3> QED  BY <2>1, <2>2, <2>3, <3>1, <3>2
  <2>4. CASE GoesOn(h)
    <3>1. DownOrder(g[k]) /\ g[k].i = Right(h.i)
      BY <2>1, <2>2, <2>4, ShiftDownOrder
    <3>2. h.i < Right(h.i) /\ Right(h.i) \in Nat
      BY <2>1, Children
    <3>3. k <= g[k].i
      BY <2>1, <2>4, <3>1, <3>2
    <3>4. OnSpine(g[k], k)
      <4>1. PICK d \in 0..(k - 1) : h.i = Spine[d]
        BY <2>1
      <4>2. d + 1 \in 1..Cap /\ d + 1 \in 0..k /\ (d + 1) - 1 = d
        BY QueueAssumption
      <4>3. Spine[d + 1] = Right(Spine[d])
        BY <4>2, SpineSteps
      <4> QED  BY <3>1, <4>1, <4>2, <4>3
    <3> QED  BY <3>1, <3>3, <3>4
  <2> QED  BY <2>3, <2>4
<1>4. Len(e) \in S
  <2>1. Len(e) \in Nat
    OBVIOUS
  <2> HIDE DEF S
  <2>2. \A k \in 0..Len(e) : k \in S
    BY <1>2, <1>3, <2>1, InductionTo
  <2> QED  BY <2>1, <2>2
<1> DEFINE h == g[Len(e)]
           i == h.i
           f == h.e
<1>5. /\ h \in Places(D) /\ f \in Seq(Nodes(D)) /\ i \in Nat /\ (i = 0 \/ i < Len(f))
      /\ DownOrder(h) /\ OnSpine(h, Len(e)) /\ (Len(e) <= i \/ ~GoesOn(h))
  BY <1>1, <1>4 DEF Places
<1>6. Len(f) = Len(e)
  <2>1. Shuffle(Heapify(e, 0), e)
    BY HeapifyShuffles
  <2> QED  BY <1>1, <2>1 DEF Shuffle
<1>7. f = Heapify(e, 0)
  BY <1>1
<1>8. i \in RightSpine
  <2>1. \A d \in 0..Len(e) : d \in 0..Cap
    BY QueueAssumption
  <2> QED  BY <1>5, <2>1 DEF RightSpine
<1> HIDE DEF h
<1>9. ASSUME Len(f) # 0  PROVE ~GoesOn(h)
  BY <1>5, <1>6, <1>9
<1>10. Disorder(f) \subseteq {Left(i), Right(i)}
  <2> SUFFICES ASSUME NEW c \in 1..(Len(f) - 1), Prio(f, c) < Prio(f, Parent(c)), Parent(c) # i
               PROVE  FALSE
    <3>1. \A c \in 1..(Len(f) - 1) : c \in Nat /\ c > 0
      BY <1>5
    <3>2. \A c \in 1..(Len(f) - 1) : Parent(c) = i => c \in {Left(i), Right(i)}
      BY <1>5, <3>1, Children
    <3> QED  BY <3>2 DEF Disorder
  <2>1. c \in Nat /\ c < Len(f) /\ Parent(c) \in Nat /\ Parent(c) < c
    BY <1>5, ParentOf
  <2>2. Prio(f, c) \in Int /\ Prio(f, Parent(c)) \in Int
    BY <1>5, <2>1, PrioType
  <2> QED  BY <1>5, <2>2 DEF DownOrder, Ordered
<1>11. CASE Low(h) /\ Len(f) # 0
  <2>1. Left(i) \in Disorder(f)
    <3>1. Left(i) \in Nat /\ Left(i) > 0 /\ Left(i) < Len(f) /\ Parent(Left(i)) = i
      BY <1>5, <1>11, Children DEF Low
    <3>2. Left(i) \in 1..(Len(f) - 1)
      BY <1>5, <3>1
    <3> QED  BY <1>11, <3>1, <3>2 DEF Disorder, Low
  <2> QED  BY <1>7, <1>8, <1>10, <2>1
<1>12. CASE ~Low(h) \/ Len(f) = 0
  <2>1. ASSUME NEW c \in Disorder(f)  PROVE FALSE
    <3>1. c \in 1..(Len(f) - 1) /\ Prio(f, c) < Prio(f, Parent(c)) /\ c < Len(f) /\ Len(f) # 0
      BY <1>5 DEF Disorder
    <3>2. c = Left(i) \/ c = Right(i)
      BY <1>10
    <3>3. Parent(c) = i
      BY <1>5, <3>2, Children
    <3>4. ~GoesOn(h) /\ ~Low(h)
      BY <1>9, <1>12, <3>1
    <3> QED  BY <3>1, <3>2, <3>3, <3>4 DEF GoesOn, Low
  <2> QED  BY <1>7, <2>1
<1> QED  BY <1>11, <1>12

-----------------------------------------------------------------------------
(***************************************************************************)
(* The entries                                                             *)
(***************************************************************************)
\* No two nodes carry the same index.
DataApart(e) == \A j, k \in 1..Len(e) : e[j].data = e[k].data => j = k

\* The entries a caller can make; delete_key may leave one with its own key.
Keyed == Prios \cup {Int32Min}
Used == [prio : Keyed, data : Data]

\* The inductive invariant: the array holds the entries it should, each once,
\* with keys and indices the caller uses.
QueueInv ==
    /\ elems \in Seq(Used)
    /\ Len(elems) <= Cap
    /\ DataApart(elems)
    /\ held = Entries(elems)

\* The array, as the lemmas about the operators see it.
LEMMA ElemsType ==
    ASSUME QueueInv
    PROVE  /\ elems \in Seq(Nodes(Data)) /\ Len(elems) \in Nat /\ Cap \in Nat
           /\ Entries(elems) \subseteq Used
<1>1. Used \subseteq Nodes(Data)
  BY QueueAssumption DEF Nodes, Used, Keyed
<1>2. elems \in Seq(Used) /\ Cap \in Nat
  BY QueueAssumption DEF QueueInv
<1>3. \A k \in 1..Len(elems) : elems[k] \in Used
  BY <1>2
<1>4. \A k \in 1..Len(elems) : elems[k] \in Nodes(Data)
  BY <1>1, <1>3
<1> QED  BY <1>2, <1>3, <1>4 DEF Entries

\* An array is typed by its entries.
LEMMA EntriesTyped ==
    ASSUME NEW D, NEW e \in Seq(Nodes(D)), NEW N, Entries(e) \subseteq N
    PROVE  e \in Seq(N)
  BY DEF Entries

\* A rearrangement stores no index twice if the array does not.
LEMMA ShuffleApart ==
    ASSUME NEW f, NEW e, Shuffle(f, e), DataApart(e)
    PROVE  DataApart(f)
<1>1. PICK p : Arranges(p, Len(e), f, e)
  BY DEF Shuffle
<1>2. Len(f) = Len(e)
  BY DEF Shuffle
<1> SUFFICES ASSUME NEW j \in 1..Len(e), NEW k \in 1..Len(e), f[j].data = f[k].data
             PROVE  j = k
  BY <1>2 DEF DataApart
<1>3. p[j] \in 1..Len(e) /\ p[k] \in 1..Len(e) /\ e[p[j]].data = e[p[k]].data
  BY <1>1 DEF Arranges
<1>4. p[j] = p[k]
  BY <1>3 DEF DataApart
<1> QED  BY <1>1, <1>4 DEF Arranges

\* The entries with a new one at the end.
LEMMA AppendEntries ==
    ASSUME NEW D, NEW e \in Seq(Nodes(D)), DataApart(e), NEW x \in Nodes(D),
           \A y \in Entries(e) : y.data # x.data
    PROVE  /\ Entries(Append(e, x)) = Entries(e) \cup {x}
           /\ DataApart(Append(e, x))
<1> DEFINE f == Append(e, x)
<1>1. /\ Len(f) = Len(e) + 1 /\ Len(e) \in Nat /\ f[Len(e) + 1] = x
      /\ \A k \in 1..Len(e) : f[k] = e[k]
  OBVIOUS
<1> HIDE DEF f
<1>2. \A k \in 1..Len(f) : k \in 1..Len(e) \/ k = Len(e) + 1
  BY <1>1
<1>3. \A k \in 1..Len(e) : k \in 1..Len(f) /\ e[k] \in Entries(e)
  BY <1>1 DEF Entries
<1>4. Len(e) + 1 \in 1..Len(f)
  BY <1>1
<1>5. Entries(f) = Entries(e) \cup {x}
  BY <1>1, <1>2, <1>3, <1>4 DEF Entries
<1>6. DataApart(f)
  <2> SUFFICES ASSUME NEW j \in 1..Len(f), NEW k \in 1..Len(f), f[j].data = f[k].data
               PROVE  j = k
    BY DEF DataApart
  <2>1. CASE j \in 1..Len(e) /\ k \in 1..Len(e)
    BY <1>1, <2>1 DEF DataApart
  <2>2. CASE j \in 1..Len(e) /\ k = Len(e) + 1
    BY <1>1, <1>3, <2>2
  <2>3. CASE j = Len(e) + 1 /\ k \in 1..Len(e)
    BY <1>1, <1>3, <2>3
  <2> QED  BY <1>2, <2>1, <2>2, <2>3
<1> QED  BY <1>5, <1>6 DEF f

\* The entries without the root's.
LEMMA TailEntries ==
    ASSUME NEW D, NEW e \in Seq(Nodes(D)), DataApart(e), Len(e) # 0
    PROVE  /\ Entries(Tail(e)) = Entries(e) \ {e[1]}
           /\ DataApart(Tail(e))
           /\ Head(e) = e[1]
<1> DEFINE t == Tail(e)
<1>1. /\ Len(e) \in Nat /\ Len(t) = Len(e) - 1 /\ Head(e) = e[1]
      /\ \A k \in 1..(Len(e) - 1) : t[k] = e[k + 1]
  BY RootedEntries
<1> HIDE DEF t
<1>2. ASSUME NEW k \in 1..Len(t)  PROVE t[k] \in Entries(e) /\ t[k] # e[1]
  <2>1. k + 1 \in 1..Len(e) /\ k + 1 # 1 /\ 1 \in 1..Len(e) /\ t[k] = e[k + 1]
    BY <1>1
  <2> QED  BY <2>1 DEF Entries, DataApart
<1>3. ASSUME NEW k \in 1..Len(e), e[k] # e[1]  PROVE e[k] \in Entries(t)
  <2>1. k # 1
    BY <1>3
  <2>2. k - 1 \in 1..Len(t) /\ (k - 1) + 1 = k /\ k - 1 \in 1..(Len(e) - 1)
    BY <1>1, <2>1
  <2>3. t[k - 1] = e[k]
    BY <1>1, <2>2
  <2> QED  BY <2>2, <2>3 DEF Entries
<1>4. Entries(t) = Entries(e) \ {e[1]}
  BY <1>2, <1>3 DEF Entries
<1>5. DataApart(t)
  <2> SUFFICES ASSUME NEW j \in 1..Len(t), NEW k \in 1..Len(t), t[j].data = t[k].data
               PROVE  j = k
    BY DEF DataApart
  <2>1. /\ j + 1 \in 1..Len(e) /\ k + 1 \in 1..Len(e)
        /\ t[j] = e[j + 1] /\ t[k] = e[k + 1]
    BY <1>1
  <2>2. j + 1 = k + 1
    BY <2>1 DEF DataApart
  <2> QED  BY <2>2
<1> QED  BY <1>1, <1>4, <1>5 DEF t

\* The array after a key is overwritten.
LEMMA Rekeyed ==
    ASSUME NEW D, NEW e \in Seq(Nodes(D)), NEW i \in Nat, i < Len(e), NEW v \in Int,
           NEW f, f = [e EXCEPT ![i + 1].prio = v]
    PROVE  /\ f \in Seq(Nodes(D)) /\ Len(f) = Len(e)
           /\ f[i + 1] = Node(v, e[i + 1].data) /\ f[i + 1].prio = v
           /\ \A k \in 1..Len(e) : k # i + 1 => f[k] = e[k]
<1> DEFINE n == i + 1
           x == Node(v, e[n].data)
<1>1. n \in 1..Len(e) /\ Len(e) \in Nat /\ e[n] \in Nodes(D)
  OBVIOUS
<1>2. [e[n] EXCEPT !.prio = v] = x /\ x \in Nodes(D) /\ x.prio = v
  BY <1>1 DEF Nodes, Node
<1>3. f = [e EXCEPT ![n] = [e[n] EXCEPT !.prio = v]]
  OBVIOUS
<1> HIDE DEF n, x
<1>4. f = [e EXCEPT ![n] = x]
  BY <1>2, <1>3
<1>5. /\ f \in Seq(Nodes(D)) /\ Len(f) = Len(e) /\ f[n] = x
      /\ \A k \in 1..Len(e) : k # n => f[k] = e[k]
  BY <1>1, <1>2, <1>4
<1> QED  BY <1>2, <1>5 DEF n, x

\* The entries after a key is overwritten.
LEMMA RekeyEntries ==
    ASSUME NEW D, NEW e \in Seq(Nodes(D)), DataApart(e), NEW i \in Nat, i < Len(e), NEW v \in Int
    PROVE  LET f == [e EXCEPT ![i + 1].prio = v]
           IN  /\ Entries(f) = (Entries(e) \ {e[i + 1]}) \cup {Node(v, e[i + 1].data)}
               /\ DataApart(f)
               /\ f \in Seq(Nodes(D)) /\ Len(f) = Len(e)
               /\ f[i + 1] = Node(v, e[i + 1].data)
               /\ \A k \in 1..Len(e) : k # i + 1 => f[k] = e[k]
<1> DEFINE n == i + 1
           x == Node(v, e[n].data)
           f == [e EXCEPT ![n].prio = v]
<1>1. n \in 1..Len(e) /\ Len(e) \in Nat /\ e[n] \in Nodes(D)
  OBVIOUS
<1>2. [e[n] EXCEPT !.prio = v] = x /\ x \in Nodes(D) /\ x.data = e[n].data
  BY <1>1 DEF Nodes, Node
<1> HIDE DEF n, x
<1>3. f = [e EXCEPT ![n] = x]
  BY <1>2
<1>4. /\ f \in Seq(Nodes(D)) /\ Len(f) = Len(e) /\ f[n] = x
      /\ \A k \in 1..Len(e) : k # n => f[k] = e[k]
  BY <1>1, <1>2, <1>3
<1> HIDE DEF f
<1>5. ASSUME NEW k \in 1..Len(e), k # n  PROVE f[k] = e[k] /\ e[k] # e[n]
  BY <1>1, <1>4, <1>5 DEF DataApart
<1>6. Entries(f) = (Entries(e) \ {e[n]}) \cup {x}
  <2>1. ASSUME NEW k \in 1..Len(f)  PROVE f[k] \in (Entries(e) \ {e[n]}) \cup {x}
    BY <1>4, <1>5, <2>1 DEF Entries
  <2>2. x \in Entries(f)
    BY <1>1, <1>4 DEF Entries
  <2>3. ASSUME NEW k \in 1..Len(e), e[k] # e[n]  PROVE e[k] \in Entries(f)
    BY <1>4, <2>3 DEF Entries
  <2> QED  BY <2>1, <2>2, <2>3 DEF Entries
<1>7. \A k \in 1..Len(e) : f[k].data = e[k].data
  BY <1>2, <1>4
<1>8. DataApart(f)
  BY <1>4, <1>7 DEF DataApart
<1> QED  BY <1>4, <1>6, <1>8 DEF f, n, x

\* An array with its entries' types and no index twice, after a call that
\* shuffles it.
LEMMA ShuffleKeeps ==
    ASSUME NEW D, NEW f \in Seq(Nodes(D)), NEW e \in Seq(Nodes(D)), Shuffle(f, e),
           DataApart(e), NEW N, Entries(e) \subseteq N
    PROVE  /\ f \in Seq(N) /\ DataApart(f) /\ Entries(f) = Entries(e)
           /\ Len(f) = Len(e)
<1>1. Entries(f) = Entries(e) /\ DataApart(f)
  BY ShuffleEntries, ShuffleApart
<1>2. f \in Seq(N)
  BY <1>1, EntriesTyped
<1> QED  BY <1>1, <1>2 DEF Shuffle

\* kt_prio_queue_insert preserves the invariant.
LEMMA InsertKeeps ==
    ASSUME QueueInv, NEW v \in Prios, NEW d \in Data, DoInsert(v, d)
    PROVE  QueueInv'
<1> DEFINE x == Node(v, d)
<1>0. elems \in Seq(Nodes(Data)) /\ v \in Int /\ Cap \in Nat /\ Len(elems) \in Nat
  BY ElemsType, QueueAssumption
<1>1. CASE Len(elems) = Cap
  <2>1. elems' = elems /\ held' = held
    BY <1>1 DEF DoInsert, Insert
  <2> QED  BY <2>1 DEF QueueInv
<1>2. CASE Len(elems) # Cap
  <2>1. elems' = Insert(elems, Cap, v, d) /\ held' = held \cup {x}
    BY <1>2 DEF DoInsert
  <2>2. x \in Nodes(Data) /\ x = [prio |-> v, data |-> d] /\ x.data = d /\ x \in Used
    BY <1>0 DEF Nodes, Node, Used, Keyed
  <2>3. \A y \in Entries(elems) : y.data # x.data
    BY <2>2 DEF DoInsert, InUse, QueueInv
  <2>4. elems' \in Seq(Nodes(Data)) /\ Shuffle(elems', Append(elems, x))
    BY <1>0, <1>2, <2>1, <2>2, InsertShuffles
  <2> HIDE DEF x
  <2>5. /\ Entries(Append(elems, x)) = Entries(elems) \cup {x}
        /\ DataApart(Append(elems, x))
    BY <1>0, <2>2, <2>3, AppendEntries DEF QueueInv
  <2>6. Entries(elems) \subseteq Used
    BY ElemsType
  <2>7. Append(elems, x) \in Seq(Nodes(Data)) /\ Len(Append(elems, x)) = Len(elems) + 1
    BY <1>0, <2>2
  <2>8. Entries(Append(elems, x)) \subseteq Used
    BY <2>2, <2>5, <2>6
  <2>9. /\ elems' \in Seq(Used) /\ DataApart(elems')
        /\ Entries(elems') = Entries(Append(elems, x))
        /\ Len(elems') = Len(Append(elems, x))
    BY <2>4, <2>5, <2>7, <2>8, ShuffleKeeps
  <2>10. Len(elems') <= Cap
    BY <1>0, <1>2, <2>7, <2>9 DEF QueueInv
  <2> QED  BY <2>1, <2>5, <2>9, <2>10 DEF QueueInv
<1> QED  BY <1>1, <1>2

\* kt_prio_queue_extract_min preserves the invariant.
LEMMA ExtractKeeps ==
    ASSUME QueueInv, DoExtract
    PROVE  QueueInv'
<1>0. elems \in Seq(Nodes(Data)) /\ Cap \in Nat /\ Len(elems) \in Nat
  BY ElemsType, QueueAssumption
<1>1. CASE Len(elems) = 0
  <2>1. elems' = elems /\ held' = held
    BY <1>1 DEF DoExtract, ExtractMin, IsEmpty
  <2> QED  BY <2>1 DEF QueueInv
<1>2. CASE Len(elems) # 0
  <2>1. elems' = ExtractMin(elems) /\ held' = held \ {Head(elems)}
    BY <1>2 DEF DoExtract, IsEmpty
  <2>2. elems' \in Seq(Nodes(Data)) /\ Shuffle(elems', Tail(elems))
    BY <1>0, <1>2, <2>1, ExtractShuffles
  <2>3. /\ Entries(Tail(elems)) = Entries(elems) \ {Head(elems)}
        /\ DataApart(Tail(elems))
    BY <1>0, <1>2, TailEntries DEF QueueInv
  <2>4. Tail(elems) \in Seq(Nodes(Data)) /\ Len(Tail(elems)) = Len(elems) - 1
    BY <1>0, <1>2, RootedEntries
  <2>5. Entries(elems) \subseteq Used
    BY ElemsType
  <2>6. Entries(Tail(elems)) \subseteq Used
    BY <2>3, <2>5
  <2>7. /\ elems' \in Seq(Used) /\ DataApart(elems')
        /\ Entries(elems') = Entries(Tail(elems))
        /\ Len(elems') = Len(Tail(elems))
    BY <2>2, <2>3, <2>4, <2>6, ShuffleKeeps
  <2>8. Len(elems') <= Cap
    BY <1>0, <2>4, <2>7 DEF QueueInv
  <2> QED  BY <2>1, <2>3, <2>7, <2>8 DEF QueueInv
<1> QED  BY <1>1, <1>2

\* The array after kt_prio_queue_decrease_key, as the first half of
\* kt_prio_queue_delete_key as well.
LEMMA LowerKeeps ==
    ASSUME QueueInv, NEW i \in Nat, i < Len(elems), NEW v \in Keyed
    PROVE  LET g == DecreaseKey(elems, i, v)
           IN  /\ g \in Seq(Nodes(Data)) /\ g \in Seq(Used) /\ Len(g) = Len(elems)
               /\ DataApart(g) /\ Entries(g) = Lowered(i, v)
<1> DEFINE g == DecreaseKey(elems, i, v)
           f == [elems EXCEPT ![i + 1].prio = v]
<1>0. /\ elems \in Seq(Nodes(Data)) /\ Len(elems) \in Nat /\ v \in Int
      /\ Entries(elems) \subseteq Used
  BY ElemsType, QueueAssumption DEF Keyed
<1>1. CASE v > Prio(elems, i)
  <2>1. g = elems /\ Lowered(i, v) = held
    BY <1>1 DEF DecreaseKey, Lowered
  <2> QED  BY <1>0, <2>1 DEF QueueInv
<1>2. CASE ~(v > Prio(elems, i))
  <2>1. Lowered(i, v) = (held \ {elems[i + 1]}) \cup {Node(v, elems[i + 1].data)}
    BY <1>2 DEF Lowered
  <2>2. v <= Prio(elems, i)
    <3>1. Prio(elems, i) \in Int
      BY <1>0, PrioType
    <3> QED  BY <1>0, <1>2, <3>1
  <2>3. f \in Seq(Nodes(Data)) /\ g \in Seq(Nodes(Data)) /\ Shuffle(g, f)
    BY <1>0, <2>2, DecreaseShuffles
  <2>4. /\ Entries(f) = (Entries(elems) \ {elems[i + 1]}) \cup {Node(v, elems[i + 1].data)}
        /\ DataApart(f) /\ Len(f) = Len(elems)
    BY <1>0, RekeyEntries DEF QueueInv
  <2>5. Node(v, elems[i + 1].data) \in Used
    <3>1. elems[i + 1] \in Used
      BY <1>0 DEF Entries
    <3> QED  BY <3>1 DEF Node, Used
  <2> HIDE DEF f, g
  <2>6. Entries(f) \subseteq Used
    BY <1>0, <2>4, <2>5
  <2>7. /\ g \in Seq(Used) /\ DataApart(g)
        /\ Entries(g) = Entries(f) /\ Len(g) = Len(f)
    BY <2>3, <2>4, <2>6, ShuffleKeeps
  <2>8. Entries(g) = Lowered(i, v)
    BY <2>1, <2>4, <2>7 DEF QueueInv
  <2> QED  BY <2>3, <2>4, <2>7, <2>8 DEF g
<1> QED  BY <1>1, <1>2

\* kt_prio_queue_decrease_key preserves the invariant.
LEMMA DecreaseKeeps ==
    ASSUME QueueInv, NEW i \in 0..(Cap - 1), NEW v \in Prios, DoDecrease(i, v)
    PROVE  QueueInv'
<1>1. i \in Nat /\ i < Len(elems) /\ v \in Keyed /\ Cap \in Nat
  BY QueueAssumption DEF DoDecrease, Keyed
<1>2. elems' = DecreaseKey(elems, i, v) /\ held' = Lowered(i, v)
  BY DEF DoDecrease
<1>3. /\ elems' \in Seq(Used) /\ Len(elems') = Len(elems)
      /\ DataApart(elems') /\ held' = Entries(elems')
  BY <1>1, <1>2, LowerKeeps
<1> QED  BY <1>3 DEF QueueInv

\* kt_prio_queue_delete_key: if all keys are above INT32_MIN, the key that was
\* lowered is at the root when the root is extracted.
LEMMA DeleteFacts ==
    ASSUME QueueInv, AllAbove, NEW i \in Nat, i < Len(elems)
    PROVE  LET g == DecreaseKey(elems, i, Int32Min)
           IN  Lowered(i, Int32Min) \ {g[1]} = held \ {elems[i + 1]}
<1> DEFINE x == elems[i + 1]
           y == Node(Int32Min, x.data)
           f == [elems EXCEPT ![i + 1].prio = Int32Min]
           g == DecreaseKey(elems, i, Int32Min)
<1>0. elems \in Seq(Nodes(Data)) /\ Len(elems) \in Nat /\ Int32Min \in Int
  BY ElemsType, QueueAssumption
<1>1. \A k \in 1..Len(elems) : Int32Min < elems[k].prio /\ elems[k].prio \in Int
  <2>1. \A k \in 1..Len(elems) : elems[k] \in Nodes(Data)
    BY <1>0
  <2> QED  BY <2>1 DEF AllAbove, Nodes
<1>2. Int32Min <= Prio(elems, i) /\ ~(Int32Min > Prio(elems, i))
  <2>1. i + 1 \in 1..Len(elems) /\ Prio(elems, i) \in Int
    BY <1>0, PrioType
  <2> QED  BY <1>0, <1>1, <2>1 DEF Prio
<1>3. g = Reorder(f, i)
  BY <1>0, <1>2, DecreaseShuffles
<1>4. /\ f \in Seq(Nodes(Data)) /\ Len(f) = Len(elems) /\ f[i + 1] = y
      /\ \A k \in 1..Len(elems) : k # i + 1 => f[k] = elems[k]
  <2>1. f = [elems EXCEPT ![i + 1].prio = Int32Min]
    OBVIOUS
  <2> HIDE DEF f
  <2> QED  BY <1>0, <2>1, Rekeyed
<1>5. y.prio = Int32Min
  BY DEF Node
<1>6. Lowered(i, Int32Min) = (held \ {x}) \cup {y}
  BY <1>2 DEF Lowered
<1> HIDE DEF f, g, x, y
<1>7. g[1] = y
  <2>1. \A k \in 1..Len(f) : k # i + 1 => f[i + 1].prio < f[k].prio
    BY <1>1, <1>4, <1>5
  <2>2. Reorder(f, i)[1] = f[i + 1]
    BY <1>4, <2>1, MinRises
  <2> QED  BY <1>3, <1>4, <2>2
<1>8. y \notin held
  <2> SUFFICES ASSUME NEW k \in 1..Len(elems)  PROVE elems[k] # y
    BY DEF Entries, QueueInv
  <2> QED  BY <1>0, <1>1, <1>5
<1>9. Lowered(i, Int32Min) \ {g[1]} = held \ {x}
  BY <1>6, <1>7, <1>8
<1> QED  BY <1>9 DEF g, x

\* kt_prio_queue_delete_key preserves the invariant.
LEMMA DeleteKeeps ==
    ASSUME QueueInv, NEW i \in 0..(Cap - 1), DoDelete(i)
    PROVE  QueueInv'
<1> DEFINE g == DecreaseKey(elems, i, Int32Min)
<1>0. /\ Len(elems) \in Nat /\ Cap \in Nat /\ i \in Nat /\ i < Len(elems)
      /\ Int32Min \in Keyed
  BY ElemsType, QueueAssumption DEF DoDelete, Keyed
<1>1. /\ g \in Seq(Nodes(Data)) /\ g \in Seq(Used) /\ Len(g) = Len(elems)
      /\ DataApart(g) /\ Entries(g) = Lowered(i, Int32Min)
  BY <1>0, LowerKeeps
<1>2. elems' = ExtractMin(g)
  BY DEF DoDelete, DeleteKey
<1>3. held' = Lowered(i, Int32Min) \ {g[1]}
  <2>1. CASE AllAbove
    BY <1>0, <2>1, DeleteFacts DEF DoDelete
  <2>2. CASE ~AllAbove
    BY <1>1, <2>2 DEF DoDelete
  <2> QED  BY <2>1, <2>2
<1> HIDE DEF g
<1>4. Len(g) # 0
  BY <1>0, <1>1
<1>5. elems' \in Seq(Nodes(Data)) /\ Shuffle(elems', Tail(g))
  BY <1>1, <1>2, <1>4, ExtractShuffles
<1>6. Entries(Tail(g)) = Entries(g) \ {g[1]} /\ DataApart(Tail(g))
  BY <1>1, <1>4, TailEntries
<1>7. Tail(g) \in Seq(Nodes(Data)) /\ Len(Tail(g)) = Len(elems) - 1
  BY <1>1, <1>4, RootedEntries
<1>8. /\ elems' \in Seq(Used) /\ DataApart(elems')
      /\ Entries(elems') = Entries(Tail(g)) /\ Len(elems') = Len(Tail(g))
  <2>1. Entries(g) \subseteq Used
    BY <1>1 DEF Entries
  <2>2. Entries(Tail(g)) \subseteq Used
    BY <1>6, <2>1
  <2> QED  BY <1>5, <1>6, <1>7, <2>2, ShuffleKeeps
<1>9. Len(elems') <= Cap
  BY <1>0, <1>7, <1>8 DEF QueueInv
<1> QED  BY <1>1, <1>3, <1>6, <1>8, <1>9 DEF QueueInv

\* Every step preserves the invariant.
LEMMA QueueStep == QueueInv /\ [Next]_vars => QueueInv'
<1> SUFFICES ASSUME QueueInv, [Next]_vars  PROVE QueueInv'
  OBVIOUS
<1>1. CASE UNCHANGED vars
  BY <1>1 DEF vars, QueueInv
<1>2. CASE Next
  BY <1>2, InsertKeeps, ExtractKeeps, DecreaseKeeps, DeleteKeeps DEF Next
<1> QED  BY <1>1, <1>2

\* It holds at first.
LEMMA QueueInit == Init => QueueInv
<1> SUFFICES ASSUME Init  PROVE QueueInv
  OBVIOUS
<1>1. elems = << >> /\ held = {} /\ Len(elems) = 0
  BY DEF Init
<1>2. Entries(elems) = {} /\ DataApart(elems) /\ elems \in Seq(Used)
  BY <1>1 DEF Entries, DataApart
<1> QED  BY <1>1, <1>2, QueueAssumption DEF QueueInv

\* Under every sequence of calls the array holds exactly the entries put in
\* and not taken out, each once, and no more than cap of them.
THEOREM QueueInvariant == Spec => []QueueInv
  BY QueueInit, QueueStep, PTL DEF Spec

\* No call loses, duplicates or alters an entry, whatever the capacity, the
\* keys and the order of the array (KeepsEntries).
THEOREM EntriesKept == Spec => []KeepsEntries
<1>1. QueueInv => KeepsEntries
  <2> SUFFICES ASSUME QueueInv  PROVE KeepsEntries
    OBVIOUS
  <2> DEFINE n == Len(elems)
             f == [k \in 1..n |-> elems[k]]
  <2>1. n \in Nat
    BY ElemsType
  <2>2. f \in [1..n -> held] /\ \A z \in held : \E k \in 1..n : f[k] = z
    BY DEF QueueInv, Entries
  <2>3. \A j, k \in 1..n : f[j] = f[k] => j = k
    BY DEF QueueInv, DataApart
  <2> HIDE DEF n, f
  <2>4. IsFiniteSet(1..n) /\ Cardinality(1..n) = n
    <3>1. 1 \in Int /\ n \in Int /\ ~(1 > n /\ n # 0)
      BY <2>1
    <3> QED  BY <2>1, <3>1, FS_Interval
  <2>5. Cardinality(held) = n
    BY <2>2, <2>3, <2>4, SameSize
  <2> QED  BY <2>5 DEF QueueInv, KeepsEntries, Entries, n
<1> QED  BY <1>1, QueueInvariant, PTL

\* An array with no pair out of order has its minimum at the root, which is
\* where kt_prio_queue_getmin reads it.
THEOREM HeapRoot ==
    ASSUME NEW D, NEW e \in Seq(Nodes(D)), Disorder(e) = {}
    PROVE  \A c \in 0..(Len(e) - 1) : GetMin(e) <= Prio(e, c)
<1> DEFINE T == {c \in 0..(Len(e) - 1) : ~(Prio(e, 0) <= Prio(e, c))}
<1> SUFFICES ASSUME T # {}  PROVE FALSE
  BY DEF GetMin
<1>0. Len(e) \in Nat
  OBVIOUS
<1>1. PICK x \in T : \A y \in T : x <= y
  <2>1. T \in SUBSET Nat
    OBVIOUS
  <2> HIDE DEF T
  <2> QED  BY <2>1, LeastNumber
<1>2. \A c \in 0..(Len(e) - 1) : Prio(e, c) \in Int
  BY PrioType
<1>3. x \in 1..(Len(e) - 1)
  <2>1. 0 \in 0..(Len(e) - 1)
    BY <1>0, <1>1
  <2>2. 0 \notin T
    BY <1>2, <2>1
  <2> QED  BY <1>0, <1>1, <2>2
<1>4. Parent(x) \in 0..(Len(e) - 1) /\ Parent(x) < x /\ 0 \in 0..(Len(e) - 1)
  <2>1. x \in Nat /\ x > 0
    BY <1>0, <1>3
  <2>2. Parent(x) \in Nat /\ Parent(x) < x
    BY <2>1, ParentOf
  <2> QED  BY <1>0, <1>3, <2>2
<1>5. Prio(e, 0) <= Prio(e, Parent(x))
  <2>1. Parent(x) \notin T
    BY <1>1, <1>3, <1>4
  <2> QED  BY <1>4, <2>1
<1>6. Prio(e, Parent(x)) <= Prio(e, x)
  BY <1>3, DisorderEmpty DEF Ordered
<1>7. Prio(e, 0) <= Prio(e, x)
  BY <1>2, <1>3, <1>4, <1>5, <1>6
<1> QED  BY <1>1, <1>7

-----------------------------------------------------------------------------
(***************************************************************************)
(* Order, call by call                                                     *)
(***************************************************************************)
\* Lowering a key of a heap puts at most that node out of order.
LEMMA RekeyOrder ==
    ASSUME NEW D, NEW e \in Seq(Nodes(D)), Disorder(e) = {},
           NEW i \in Nat, i < Len(e), NEW v \in Int, v <= Prio(e, i),
           NEW f \in Seq(Nodes(D)), Len(f) = Len(e), f[i + 1].prio = v,
           \A k \in 1..Len(e) : k # i + 1 => f[k] = e[k]
    PROVE  UpOrder([e |-> f, i |-> i])
<1>0. Len(e) \in Nat
  OBVIOUS
<1>1. \A c \in 1..(Len(e) - 1) : Prio(e, Parent(c)) <= Prio(e, c)
  BY DisorderEmpty DEF Ordered
<1>2. /\ Prio(f, i) = v
      /\ \A c \in 0..(Len(e) - 1) : c # i => Prio(f, c) = Prio(e, c)
  <2>1. ASSUME NEW c \in 0..(Len(e) - 1), c # i
        PROVE  c + 1 \in 1..Len(e) /\ c + 1 # i + 1
    BY <1>0, <2>1
  <2> QED  BY <2>1 DEF Prio
<1>3. \A c \in 1..(Len(e) - 1) :
          /\ c \in 0..(Len(e) - 1) /\ Parent(c) \in 0..(Len(e) - 1) /\ Parent(c) < c
  <2> SUFFICES ASSUME NEW c \in 1..(Len(e) - 1)
               PROVE  /\ c \in 0..(Len(e) - 1) /\ Parent(c) \in 0..(Len(e) - 1)
                      /\ Parent(c) < c
    OBVIOUS
  <2>1. c \in Nat /\ c > 0 /\ c <= Len(e) - 1
    BY <1>0
  <2>2. Parent(c) \in Nat /\ Parent(c) < c
    BY <2>1, ParentOf
  <2> QED  BY <1>0, <2>1, <2>2
<1>4. \A c \in 0..(Len(e) - 1) : Prio(e, c) \in Int
  BY PrioType
<1>5. i \in 0..(Len(e) - 1) /\ (i > 0 => i \in 1..(Len(e) - 1))
  BY <1>0
<1>6. ASSUME NEW c \in 1..(Len(e) - 1), c # i  PROVE Prio(f, Parent(c)) <= Prio(f, c)
  <2>1. /\ Prio(f, c) = Prio(e, c) /\ Prio(e, Parent(c)) <= Prio(e, c)
        /\ Prio(e, c) \in Int /\ Prio(e, Parent(c)) \in Int /\ Prio(e, i) \in Int
    BY <1>1, <1>2, <1>3, <1>4, <1>5, <1>6
  <2>2. Prio(f, Parent(c)) <= Prio(e, Parent(c))
    <3>1. CASE Parent(c) = i
      BY <1>2, <3>1
    <3>2. CASE Parent(c) # i
      <4>1. Prio(f, Parent(c)) = Prio(e, Parent(c))
        BY <1>2, <1>3, <3>2
      <4> QED  BY <2>1, <4>1
    <3> QED  BY <3>1, <3>2
  <2>3. Prio(f, Parent(c)) \in Int
    <3>1. CASE Parent(c) = i
      BY <1>2, <3>1
    <3>2. CASE Parent(c) # i
      BY <1>2, <1>3, <2>1, <3>2
    <3> QED  BY <3>1, <3>2
  <2> QED  BY <2>1, <2>2, <2>3
<1>7. ASSUME i > 0, NEW c \in 1..(Len(e) - 1), Parent(c) = i
      PROVE  Prio(f, Parent(i)) <= Prio(f, c)
  <2>1. c # i /\ Parent(i) # i /\ Parent(i) \in 0..(Len(e) - 1) /\ c \in 0..(Len(e) - 1)
    BY <1>3, <1>5, <1>7
  <2>2. Prio(f, c) = Prio(e, c) /\ Prio(f, Parent(i)) = Prio(e, Parent(i))
    BY <1>2, <2>1
  <2>3. Prio(e, Parent(i)) <= Prio(e, i) /\ Prio(e, i) <= Prio(e, c)
    BY <1>1, <1>5, <1>7
  <2>4. Prio(e, Parent(i)) \in Int /\ Prio(e, i) \in Int /\ Prio(e, c) \in Int
    BY <1>4, <1>5, <2>1
  <2> QED  BY <2>2, <2>3, <2>4
<1> QED  BY <1>6, <1>7 DEF UpOrder, Ordered

\* A new last node is at most itself out of order.
LEMMA AppendOrder ==
    ASSUME NEW D, NEW e \in Seq(Nodes(D)), Disorder(e) = {}, NEW x \in Nodes(D)
    PROVE  UpOrder([e |-> Append(e, x), i |-> Len(e)])
<1> DEFINE f == Append(e, x)
           n == Len(e)
<1>0. n \in Nat /\ Len(f) = n + 1 /\ \A k \in 1..n : f[k] = e[k]
  OBVIOUS
<1>1. \A c \in 1..(n - 1) : Prio(e, Parent(c)) <= Prio(e, c)
  BY DisorderEmpty DEF Ordered
<1> HIDE DEF f, n
<1>2. \A c \in 0..(n - 1) : Prio(f, c) = Prio(e, c)
  <2>1. \A c \in 0..(n - 1) : c + 1 \in 1..n
    BY <1>0
  <2> QED  BY <1>0, <2>1 DEF Prio
<1>3. \A c \in 1..n : Parent(c) \in 0..(n - 1) /\ Parent(c) # n
  BY <1>0, ParentOf
<1>4. ASSUME NEW c \in 1..n, c # n  PROVE Prio(f, Parent(c)) <= Prio(f, c)
  <2>1. c \in 1..(n - 1) /\ c \in 0..(n - 1)
    BY <1>0, <1>4
  <2> QED  BY <1>1, <1>2, <1>3, <2>1
<1>5. Len(f) - 1 = n
  BY <1>0
<1>6. UpOrder([e |-> f, i |-> n])
  BY <1>3, <1>4, <1>5 DEF UpOrder, Ordered
<1> QED  BY <1>6 DEF f, n

\* With the last node in the root's place at most the root's children are out
\* of order.
LEMMA RootedOrder ==
    ASSUME NEW D, NEW e \in Seq(Nodes(D)), Disorder(e) = {}, Len(e) # 0
    PROVE  DownOrder([e |-> Rooted(e), i |-> 0])
<1> DEFINE f == Rooted(e)
           n == Len(e)
<1>0. n \in Nat /\ Len(f) = n - 1 /\ \A k \in 1..(n - 1) : k # 1 => f[k] = e[k]
  BY RootedEntries
<1>1. \A c \in 1..(n - 1) : Prio(e, Parent(c)) <= Prio(e, c)
  BY DisorderEmpty DEF Ordered
<1> HIDE DEF f, n
<1>2. \A c \in 1..(n - 2) : Prio(f, c) = Prio(e, c)
  <2>1. \A c \in 1..(n - 2) : c + 1 \in 1..(n - 1) /\ c + 1 # 1
    BY <1>0
  <2> QED  BY <1>0, <2>1 DEF Prio
<1>3. ASSUME NEW c \in 1..(n - 2), Parent(c) # 0  PROVE Prio(f, Parent(c)) <= Prio(f, c)
  <2>1. Parent(c) \in 1..(n - 2) /\ c \in 1..(n - 1)
    BY <1>0, <1>3, ParentOf
  <2> QED  BY <1>1, <1>2, <2>1
<1>4. Len(f) - 1 = n - 2
  BY <1>0
<1>5. DownOrder([e |-> f, i |-> 0])
  BY <1>3, <1>4 DEF DownOrder, Ordered
<1> QED  BY <1>5 DEF f

\* What taking the root out of a heap leaves behind.
Damage(e) ==
    \/ Disorder(e) = {}
    \/ \E i \in RightSpine : /\ Left(i) \in Disorder(e)
                             /\ Disorder(e) \subseteq {Left(i), Right(i)}

\* kt_prio_queue_extract_min on a heap.
LEMMA ExtractDamage ==
    ASSUME NEW D, NEW e \in Seq(Nodes(D)), Disorder(e) = {}, Len(e) # 0, Len(e) <= Cap
    PROVE  Damage(ExtractMin(e)) /\ Len(ExtractMin(e)) = Len(e) - 1
<1> DEFINE f == Rooted(e)
<1>1. ExtractMin(e) = Heapify(f, 0) /\ Shuffle(ExtractMin(e), Tail(e))
  BY ExtractShuffles
<1>2. /\ f \in Seq(Nodes(D)) /\ Len(f) = Len(e) - 1 /\ Len(Tail(e)) = Len(e) - 1
      /\ DownOrder([e |-> f, i |-> 0])
  BY RootedEntries, RootedOrder
<1> HIDE DEF f
<1>3. Len(f) <= Cap
  BY <1>2, QueueAssumption
<1>4. Len(ExtractMin(e)) = Len(e) - 1
  BY <1>1, <1>2 DEF Shuffle
<1> QED  BY <1>1, <1>2, <1>3, <1>4, HeapifyDamage DEF Damage

\* kt_prio_queue_insert turns a heap into a heap, no shorter.
LEMMA InsertOrder ==
    ASSUME QueueInv, NEW v \in Prios, NEW d \in Data, DoInsert(v, d)
    PROVE  /\ Len(elems') >= Len(elems)
           /\ Disorder(elems) = {} => Disorder(elems') = {}
<1> DEFINE x == Node(v, d)
<1>0. elems \in Seq(Nodes(Data)) /\ v \in Int /\ Len(elems) \in Nat
  BY ElemsType, QueueAssumption
<1>1. CASE Len(elems) = Cap
  BY <1>0, <1>1 DEF DoInsert, Insert
<1>2. CASE Len(elems) # Cap
  <2>1. x \in Nodes(Data) /\ x = [prio |-> v, data |-> d]
    BY <1>0 DEF Nodes, Node
  <2>2. elems' = Reorder(Append(elems, x), Len(elems)) /\ Shuffle(elems', Append(elems, x))
    BY <1>0, <1>2, <2>1, InsertShuffles DEF DoInsert
  <2> HIDE DEF x
  <2>3. Append(elems, x) \in Seq(Nodes(Data)) /\ Len(Append(elems, x)) = Len(elems) + 1
    BY <1>0, <2>1
  <2>4. Len(elems') >= Len(elems)
    BY <1>0, <2>2, <2>3 DEF Shuffle
  <2>5. ASSUME Disorder(elems) = {}  PROVE Disorder(elems') = {}
    <3>1. UpOrder([e |-> Append(elems, x), i |-> Len(elems)])
      BY <1>0, <2>1, <2>5, AppendOrder
    <3>2. Len(elems) < Len(Append(elems, x))
      BY <1>0, <2>3
    <3> QED  BY <1>0, <2>2, <2>3, <3>1, <3>2, ReorderOrders
  <2> QED  BY <2>4, <2>5
<1> QED  BY <1>1, <1>2

\* Lowering a key of a heap and shifting its node up leaves a heap.
LEMMA LowerOrder ==
    ASSUME QueueInv, Disorder(elems) = {}, NEW i \in Nat, i < Len(elems), NEW v \in Keyed
    PROVE  Disorder(DecreaseKey(elems, i, v)) = {}
<1> DEFINE f == [elems EXCEPT ![i + 1].prio = v]
<1>0. elems \in Seq(Nodes(Data)) /\ Len(elems) \in Nat /\ v \in Int
  BY ElemsType, QueueAssumption DEF Keyed
<1>1. CASE v > Prio(elems, i)
  BY <1>1 DEF DecreaseKey
<1>2. CASE ~(v > Prio(elems, i))
  <2>1. v <= Prio(elems, i)
    <3>1. Prio(elems, i) \in Int
      BY <1>0, PrioType
    <3> QED  BY <1>0, <1>2, <3>1
  <2>2. DecreaseKey(elems, i, v) = Reorder(f, i)
    BY <1>0, <2>1, DecreaseShuffles
  <2>3. /\ f \in Seq(Nodes(Data)) /\ Len(f) = Len(elems) /\ f[i + 1].prio = v
        /\ \A k \in 1..Len(elems) : k # i + 1 => f[k] = elems[k]
    <3>1. f = [elems EXCEPT ![i + 1].prio = v]
      OBVIOUS
    <3> HIDE DEF f
    <3> QED  BY <1>0, <3>1, Rekeyed
  <2> HIDE DEF f
  <2>4. UpOrder([e |-> f, i |-> i])
    BY <1>0, <2>1, <2>3, RekeyOrder
  <2>5. i < Len(f)
    BY <1>0, <2>3
  <2> QED  BY <2>2, <2>3, <2>4, <2>5, ReorderOrders
<1> QED  BY <1>1, <1>2

\* kt_prio_queue_decrease_key turns a heap into a heap, no shorter.
LEMMA DecreaseOrder ==
    ASSUME QueueInv, NEW i \in 0..(Cap - 1), NEW v \in Prios, DoDecrease(i, v)
    PROVE  /\ Len(elems') >= Len(elems)
           /\ Disorder(elems) = {} => Disorder(elems') = {}
<1>1. i \in Nat /\ i < Len(elems) /\ v \in Keyed /\ Len(elems) \in Nat
  BY ElemsType, QueueAssumption DEF DoDecrease, Keyed
<1>2. elems' = DecreaseKey(elems, i, v)
  BY DEF DoDecrease
<1>3. Len(elems') = Len(elems)
  BY <1>1, <1>2, LowerKeeps
<1>4. Disorder(elems) = {} => Disorder(elems') = {}
  BY <1>1, <1>2, LowerOrder
<1> QED  BY <1>1, <1>3, <1>4

\* DoExtract: an empty queue stays as it is, another loses its root.
LEMMA ExtractOrder ==
    ASSUME QueueInv, DoExtract
    PROVE  \/ elems' = elems
           \/ Len(elems') < Len(elems) /\ (Disorder(elems) = {} => Damage(elems'))
<1>0. elems \in Seq(Nodes(Data)) /\ Len(elems) \in Nat /\ Len(elems) <= Cap
  BY ElemsType DEF QueueInv
<1>1. CASE Len(elems) = 0
  BY <1>1 DEF DoExtract, ExtractMin, IsEmpty
<1>2. CASE Len(elems) # 0
  <2>1. elems' = ExtractMin(elems)
    BY DEF DoExtract
  <2>2. Len(elems') = Len(elems) - 1
    <3>1. Shuffle(elems', Tail(elems)) /\ Len(Tail(elems)) = Len(elems) - 1
      BY <1>0, <1>2, <2>1, ExtractShuffles, RootedEntries
    <3> QED  BY <3>1 DEF Shuffle
  <2>3. Len(elems') < Len(elems)
    BY <1>0, <2>2
  <2>4. Disorder(elems) = {} => Damage(elems')
    BY <1>0, <1>2, <2>1, ExtractDamage
  <2> QED  BY <2>3, <2>4
<1> QED  BY <1>1, <1>2

\* DoDelete: a heap is still one when its root is extracted.
LEMMA DeleteOrder ==
    ASSUME QueueInv, NEW i \in 0..(Cap - 1), DoDelete(i)
    PROVE  Len(elems') < Len(elems) /\ (Disorder(elems) = {} => Damage(elems'))
<1> DEFINE g == DecreaseKey(elems, i, Int32Min)
<1>0. /\ Len(elems) \in Nat /\ Len(elems) <= Cap
      /\ i \in Nat /\ i < Len(elems) /\ Int32Min \in Keyed
  BY ElemsType DEF DoDelete, Keyed, QueueInv
<1>1. g \in Seq(Nodes(Data)) /\ Len(g) = Len(elems)
  BY <1>0, LowerKeeps
<1>2. Disorder(elems) = {} => Disorder(g) = {}
  BY <1>0, LowerOrder
<1>3. elems' = ExtractMin(g)
  BY DEF DoDelete, DeleteKey
<1> HIDE DEF g
<1>4. Len(g) # 0 /\ Len(g) <= Cap
  BY <1>0, <1>1
<1>5. Len(elems') = Len(g) - 1
  <2>1. Shuffle(elems', Tail(g)) /\ Len(Tail(g)) = Len(g) - 1
    BY <1>1, <1>3, <1>4, ExtractShuffles, RootedEntries
  <2> QED  BY <2>1 DEF Shuffle
<1>6. Len(elems') < Len(elems)
  BY <1>0, <1>1, <1>5
<1>7. Disorder(elems) = {} => Damage(elems')
  BY <1>1, <1>2, <1>3, <1>4, ExtractDamage
<1> QED  BY <1>6, <1>7

\* The step formulas of the two order properties.
ShiftUpStep == Disorder(elems) = {} /\ Len(elems') >= Len(elems) => Disorder(elems') = {}
ShiftDownStep == Disorder(elems) = {} /\ Len(elems') < Len(elems) => Damage(elems')

\* Every step satisfies both.
LEMMA OrderStep == QueueInv /\ [Next]_vars => ShiftUpStep /\ ShiftDownStep
<1> SUFFICES ASSUME QueueInv, [Next]_vars  PROVE ShiftUpStep /\ ShiftDownStep
  OBVIOUS
<1>0. Len(elems) \in Nat /\ Len(elems') \in Nat
  BY ElemsType, QueueStep DEF QueueInv
<1>1. CASE elems' = elems
  BY <1>0, <1>1 DEF ShiftUpStep, ShiftDownStep
<1>2. CASE Len(elems') >= Len(elems) /\ (Disorder(elems) = {} => Disorder(elems') = {})
  BY <1>0, <1>2 DEF ShiftUpStep, ShiftDownStep
<1>3. CASE Len(elems') < Len(elems) /\ (Disorder(elems) = {} => Damage(elems'))
  BY <1>0, <1>3 DEF ShiftUpStep, ShiftDownStep
<1>4. CASE UNCHANGED vars
  BY <1>1, <1>4 DEF vars
<1>5. CASE Next
  BY <1>1, <1>2, <1>3, <1>5, InsertOrder, ExtractOrder, DecreaseOrder, DeleteOrder
     DEF Next
<1> QED  BY <1>4, <1>5

\* kt_prio_queue_insert and kt_prio_queue_decrease_key turn a heap into a heap
\* (ShiftUpKeepsHeap), for every size of the array.
THEOREM ShiftUpCorrect == Spec => ShiftUpKeepsHeap
<1>1. QueueInv /\ [Next]_vars =>
          [Disorder(elems) = {} /\ Len(elems') >= Len(elems) => Disorder(elems') = {}]_vars
  BY OrderStep DEF ShiftUpStep
<1> QED  BY <1>1, QueueInvariant, PTL DEF Spec, ShiftUpKeepsHeap

\* kt_prio_queue_extract_min and kt_prio_queue_delete_key put at most the
\* children of one node of the right spine out of order, and its left child
\* is one of them (ShiftDownDamage), for every size of the array.
THEOREM ShiftDownBounded == Spec => ShiftDownDamage
<1>1. QueueInv /\ [Next]_vars =>
          [Disorder(elems) = {} /\ Len(elems') < Len(elems) =>
              \/ Disorder(elems') = {}
              \/ \E i \in RightSpine : /\ Left(i) \in Disorder(elems')
                                       /\ Disorder(elems') \subseteq {Left(i), Right(i)}]_vars
  BY OrderStep DEF ShiftDownStep, Damage
<1> QED  BY <1>1, QueueInvariant, PTL DEF Spec, ShiftDownDamage
=============================================================================
