------------------------------ MODULE RingBuf -------------------------------
(***************************************************************************)
(* src/kt_ringbuf.c: the lock-free ring that carries mbuf indices between  *)
(* application processes and the ktsnd daemon through shared memory.  Any  *)
(* number of processes enqueue and dequeue at once; every load, CAS, copy  *)
(* and store that another process can observe is a step of its own.        *)
(*                                                                         *)
(* Counters.  prod and cons hold u32 counters that are never reset.  Here  *)
(* a counter is the number of entries counted since kt_ringbuf_create, and *)
(* the u32 the program stores and compares is that number mod Modulus      *)
(* (2^32): every comparison and subtraction below goes through U32.        *)
(*                                                                         *)
(* Memory.  The ring sits at the start of a page of zeroed shared memory:  *)
(* cells 0..Size-1 are the ring, the cells after them the rest of the      *)
(* page.  The copy loops index them without wrapping, so they are here.    *)
(***************************************************************************)
EXTENDS Integers, Sequences, FiniteSets

CONSTANTS Size,        \* count given to kt_ringbuf_create, a power of two
          Modulus,     \* 2^32
          Cells,       \* u64 cells from the ring's start to its page's end
          Producers,   \* processes that call kt_ringbuf_enqueue_burst
          Consumers,   \* processes that call kt_ringbuf_dequeue_burst
          Observers,   \* those of them that also call kt_ringbuf_count
          Values,      \* what they enqueue
          MaxPut,      \* largest n passed to an enqueue
          MaxTake,     \* largest n passed to a dequeue
          MaxPos,      \* bound: no enqueue starts once prod.head reaches it
          MaxCrashes   \* bound: how many processes may be killed

Zero == 0              \* what ftruncate leaves in shared memory

ASSUME RingAssumption ==
    /\ Size \in Nat \ {0}
    /\ Modulus \in Nat
    /\ \E k \in 1..Modulus : Modulus = k * Size
    /\ Cells \in Nat
    /\ MaxPut \in Nat \ {0}
    /\ MaxTake \in Nat \ {0}
    /\ Size + MaxPut <= Cells
    /\ Size + MaxTake <= Cells
    /\ MaxPos \in Nat
    /\ MaxCrashes \in Nat
    /\ Producers \cap Consumers = {}
    /\ Observers \subseteq Producers \cup Consumers

Procs == Producers \cup Consumers
Capacity == Size - 1
Content == Values \cup {Zero}

VARIABLES
    prod, cons,        \* struct kt_headtail: [head, tail]
    ring,              \* the cells of the ring's page
    pc,                \* where each process is inside its burst call
    old,               \* its old_head, then prod_head / cons_head; in
                       \* kt_ringbuf_count its prod_tail
    n,                 \* its n
    max,               \* a consumer's max: the n it asked for
    tbl,               \* its obj_table
    crashed,           \* the processes that were killed
    log,               \* history: every value, in the order of the claims
    crossed            \* history: some burst ran past the ring's last cell

vars == <<prod, cons, ring, pc, old, n, max, tbl, crashed, log, crossed>>

-----------------------------------------------------------------------------
(***************************************************************************)
(* u32 arithmetic and the cells a burst touches.                           *)
(***************************************************************************)
U32(x) == x % Modulus
Index(h) == U32(h) % Size

\* Mutant: the ring is never full.
FreeEntriesUnchecked(h, t) == Capacity

FreeEntries(h, t) == U32(Capacity - (U32(h) - U32(t)))
Entries(t, h) == U32(U32(t) - U32(h))

Least(a, b) == IF a <= b THEN a ELSE b

\* Both branches of the copy loops walk idx upwards n times and never wrap.
CellsOf(h, k) == Index(h)..(Index(h) + k - 1)
EnqueueElems(h, t, k) ==
    [c \in 0..(Cells - 1) |->
        IF c \in CellsOf(h, k) THEN t[c - Index(h) + 1] ELSE ring[c]]
\* Mutant: off by one.
DequeueElemsShifted(h, k) == [i \in 1..k |-> ring[Index(h) + i]]

DequeueElems(h, k) == [i \in 1..k |-> ring[Index(h) + i - 1]]

Crosses(h, k) == Index(h) + k > Size

-----------------------------------------------------------------------------
Init ==
    /\ prod = [head |-> 0, tail |-> 0]
    /\ cons = [head |-> 0, tail |-> 0]
    /\ ring = [c \in 0..(Cells - 1) |-> Zero]
    /\ pc = [p \in Procs |-> "idle"]
    /\ old = [p \in Procs |-> 0]
    /\ n = [p \in Procs |-> 0]
    /\ max = [c \in Consumers |-> 0]
    /\ tbl = [p \in Procs |-> << >>]
    /\ crashed = {}
    /\ log = << >>
    /\ crossed = FALSE

At(p, l) == p \notin crashed /\ pc[p] = l
Goto(p, l) == pc' = [pc EXCEPT ![p] = l]
EndLocals(p) == /\ old' = [old EXCEPT ![p] = 0]      \* the call's locals end
                /\ n' = [n EXCEPT ![p] = 0]

\* Timing assumption: between loading a head and the CAS on it, a process
\* that lives is not overtaken by Modulus (2^32) entries.
NoLap(newHead, S, window) ==
    \A q \in S \ crashed : pc[q] \in window => newHead - old[q] < Modulus

(***************************************************************************)
(* kt_ringbuf_enqueue_burst                                                *)
(***************************************************************************)
\* The call, and the first load of prod.head.
EnqStart(p, t) ==
    /\ At(p, "idle")
    /\ prod.head < MaxPos
    /\ tbl' = [tbl EXCEPT ![p] = t]
    /\ old' = [old EXCEPT ![p] = prod.head]
    /\ Goto(p, "prodTail")
    /\ UNCHANGED <<prod, cons, ring, n, max, crashed, log, crossed>>

\* Load cons.tail and decide how many entries fit; with none, return 0.
EnqLoadTail(p) ==
    /\ At(p, "prodTail")
    /\ LET k == Least(Len(tbl[p]), FreeEntries(old[p], cons.tail)) IN
           \/ /\ k = 0
              /\ EndLocals(p)
              /\ tbl' = [tbl EXCEPT ![p] = << >>]
              /\ Goto(p, "idle")
           \/ /\ k > 0
              /\ n' = [n EXCEPT ![p] = k]
              /\ Goto(p, "prodCas")
              /\ UNCHANGED <<old, tbl>>
    /\ UNCHANGED <<prod, cons, ring, max, crashed, log, crossed>>

\* Mutant: prod.head is stored without comparing.
EnqStoreHead(p) ==
    /\ At(p, "prodCas")
    /\ prod' = [prod EXCEPT !.head = @ + n[p]]
    /\ log' = log \o SubSeq(tbl[p], 1, n[p])
    /\ crossed' = (crossed \/ Crosses(old[p], n[p]))
    /\ Goto(p, "prodCopy")
    /\ UNCHANGED <<cons, ring, old, n, max, tbl, crashed>>

\* The CAS on prod.head succeeds: the entries old_head.. are this process's.
EnqCasOk(p) ==
    /\ At(p, "prodCas")
    /\ U32(prod.head) = U32(old[p])
    /\ NoLap(prod.head + n[p], Producers \ {p}, {"prodTail", "prodCas"})
    /\ prod' = [prod EXCEPT !.head = @ + n[p]]
    /\ log' = log \o SubSeq(tbl[p], 1, n[p])
    /\ crossed' = (crossed \/ Crosses(old[p], n[p]))
    /\ Goto(p, "prodCopy")
    /\ UNCHANGED <<cons, ring, old, n, max, tbl, crashed>>

\* Mutant: the retry does not look at cons.tail again.
EnqCasRetryStale(p) ==
    /\ At(p, "prodCas")
    /\ U32(prod.head) # U32(old[p])
    /\ old' = [old EXCEPT ![p] = prod.head]
    /\ UNCHANGED <<prod, cons, ring, pc, n, max, tbl, crashed, log, crossed>>

\* It fails: old_head becomes the head found, and the loop starts over.
EnqCasFail(p) ==
    /\ At(p, "prodCas")
    /\ U32(prod.head) # U32(old[p])
    /\ old' = [old EXCEPT ![p] = prod.head]
    /\ Goto(p, "prodTail")
    /\ UNCHANGED <<prod, cons, ring, n, max, tbl, crashed, log, crossed>>

EnqCopy(p) ==
    /\ At(p, "prodCopy")
    /\ ring' = EnqueueElems(old[p], tbl[p], n[p])
    /\ Goto(p, "prodWait")
    /\ UNCHANGED <<prod, cons, old, n, max, tbl, crashed, log, crossed>>

\* Mutant: the tail is stored without waiting for earlier claims.
EnqPublishNoSpin(p) ==
    /\ At(p, "prodWait")
    /\ prod' = [prod EXCEPT !.tail = @ + n[p]]
    /\ EndLocals(p)
    /\ tbl' = [tbl EXCEPT ![p] = << >>]
    /\ Goto(p, "idle")
    /\ UNCHANGED <<cons, ring, max, crashed, log, crossed>>

\* The spin on prod.tail ends, and the store publishes the entries.
EnqPublish(p) ==
    /\ At(p, "prodWait")
    /\ U32(prod.tail) = U32(old[p])
    /\ prod' = [prod EXCEPT !.tail = @ + n[p]]
    /\ EndLocals(p)
    /\ tbl' = [tbl EXCEPT ![p] = << >>]
    /\ Goto(p, "idle")
    /\ UNCHANGED <<cons, ring, max, crashed, log, crossed>>

(***************************************************************************)
(* kt_ringbuf_dequeue_burst                                                *)
(***************************************************************************)
\* Mutant: off by one.
DeqStartOneMore(c, k) ==
    /\ At(c, "idle")
    /\ max' = [max EXCEPT ![c] = k + 1]
    /\ old' = [old EXCEPT ![c] = cons.head]
    /\ Goto(c, "consTail")
    /\ UNCHANGED <<prod, cons, ring, n, tbl, crashed, log, crossed>>

\* The call with its n, and the first load of cons.head.
DeqStart(c, k) ==
    /\ At(c, "idle")
    /\ max' = [max EXCEPT ![c] = k]
    /\ old' = [old EXCEPT ![c] = cons.head]
    /\ Goto(c, "consTail")
    /\ UNCHANGED <<prod, cons, ring, n, tbl, crashed, log, crossed>>

\* Load prod.tail and decide how many entries there are; with none, return 0.
DeqLoadTail(c) ==
    /\ At(c, "consTail")
    /\ LET k == Least(max[c], Entries(prod.tail, old[c])) IN
           \/ /\ k = 0
              /\ EndLocals(c)
              /\ max' = [max EXCEPT ![c] = 0]
              /\ Goto(c, "idle")
           \/ /\ k > 0
              /\ n' = [n EXCEPT ![c] = k]
              /\ Goto(c, "consCas")
              /\ UNCHANGED <<old, max>>
    /\ UNCHANGED <<prod, cons, ring, tbl, crashed, log, crossed>>

DeqCasOk(c) ==
    /\ At(c, "consCas")
    /\ U32(cons.head) = U32(old[c])
    /\ NoLap(cons.head + n[c], Consumers \ {c}, {"consTail", "consCas"})
    /\ cons' = [cons EXCEPT !.head = @ + n[c]]
    /\ crossed' = (crossed \/ Crosses(old[c], n[c]))
    /\ Goto(c, "consCopy")
    /\ UNCHANGED <<prod, ring, old, n, max, tbl, crashed, log>>

DeqCasFail(c) ==
    /\ At(c, "consCas")
    /\ U32(cons.head) # U32(old[c])
    /\ old' = [old EXCEPT ![c] = cons.head]
    /\ Goto(c, "consTail")
    /\ UNCHANGED <<prod, cons, ring, n, max, tbl, crashed, log, crossed>>

DeqCopy(c) ==
    /\ At(c, "consCopy")
    /\ tbl' = [tbl EXCEPT ![c] = DequeueElems(old[c], n[c])]
    /\ Goto(c, "consWait")
    /\ UNCHANGED <<prod, cons, ring, old, n, max, crashed, log, crossed>>

\* Mutant: cons.tail is not stored.
DeqReleaseNoStore(c) ==
    /\ At(c, "consWait")
    /\ U32(cons.tail) = U32(old[c])
    /\ EndLocals(c)
    /\ max' = [max EXCEPT ![c] = 0]
    /\ Goto(c, "idle")
    /\ UNCHANGED <<prod, cons, ring, tbl, crashed, log, crossed>>

\* The spin on cons.tail ends, and the store gives the cells back.
DeqRelease(c) ==
    /\ At(c, "consWait")
    /\ U32(cons.tail) = U32(old[c])
    /\ cons' = [cons EXCEPT !.tail = @ + n[c]]
    /\ EndLocals(c)
    /\ max' = [max EXCEPT ![c] = 0]
    /\ Goto(c, "idle")
    /\ UNCHANGED <<prod, ring, tbl, crashed, log, crossed>>

(***************************************************************************)
(* kt_ringbuf_count: two loads, and the number computed from them.         *)
(***************************************************************************)
CountStart(p) ==
    /\ p \in Observers /\ At(p, "idle")
    /\ old' = [old EXCEPT ![p] = prod.tail]
    /\ Goto(p, "count")
    /\ UNCHANGED <<prod, cons, ring, n, max, tbl, crashed, log, crossed>>

\* Mutant: the difference is not masked.
CountUnmasked(p) == Least(U32(old[p]) - U32(cons.tail), Capacity)

\* What the call returns when its second load, of cons.tail, comes now.
kt_ringbuf_count(p) == Least((U32(old[p]) - U32(cons.tail)) % Size, Capacity)

CountEnd(p) ==
    /\ At(p, "count")
    /\ EndLocals(p)
    /\ Goto(p, "idle")
    /\ UNCHANGED <<prod, cons, ring, max, tbl, crashed, log, crossed>>

(***************************************************************************)
(* A process is killed: it keeps its pc and its claim and never moves      *)
(* again.  Nothing in the code takes over what it left unfinished.         *)
(***************************************************************************)
Crash(p) ==
    /\ p \notin crashed
    /\ Cardinality(crashed) < MaxCrashes
    /\ crashed' = crashed \cup {p}
    /\ UNCHANGED <<prod, cons, ring, pc, old, n, max, tbl, log, crossed>>

-----------------------------------------------------------------------------
PutTables == UNION {[1..k -> Values] : k \in 1..MaxPut}

EnqStep(p) == \/ EnqLoadTail(p) \/ EnqCasOk(p) \/ EnqCasFail(p)
              \/ EnqCopy(p) \/ EnqPublish(p)
DeqStep(c) == \/ DeqLoadTail(c) \/ DeqCasOk(c) \/ DeqCasFail(c)
              \/ DeqCopy(c) \/ DeqRelease(c)

Next == \/ \E p \in Producers : EnqStep(p) \/ \E t \in PutTables : EnqStart(p, t)
        \/ \E c \in Consumers : DeqStep(c) \/ \E k \in 1..MaxTake : DeqStart(c, k)
        \/ \E p \in Procs : CountStart(p) \/ CountEnd(p) \/ Crash(p)

Spec == Init /\ [][Next]_vars

\* A process inside a call keeps running it; nothing makes it call again.
Fairness == /\ \A p \in Producers : WF_vars(EnqStep(p))
            /\ \A c \in Consumers : WF_vars(DeqStep(c))
            /\ \A p \in Procs : WF_vars(CountEnd(p))
FairSpec == Spec /\ Fairness

-----------------------------------------------------------------------------
(***************************************************************************)
(* Properties                                                              *)
(***************************************************************************)
EnqLabels == {"prodTail", "prodCas", "prodCopy", "prodWait"}
DeqLabels == {"consTail", "consCas", "consCopy", "consWait"}
HeadTail == [head : Nat, tail : Nat]

\* Every variable has its type, and a process is inside the call its role
\* makes: producers in kt_ringbuf_enqueue_burst, consumers in dequeue.
TypeOK ==
    /\ prod \in HeadTail /\ cons \in HeadTail
    /\ ring \in [0..(Cells - 1) -> Content]
    /\ pc \in [Procs -> {"idle", "count"} \cup EnqLabels \cup DeqLabels]
    /\ \A p \in Producers : pc[p] \in {"idle", "count"} \cup EnqLabels
    /\ \A c \in Consumers : pc[c] \in {"idle", "count"} \cup DeqLabels
    /\ old \in [Procs -> Nat] /\ n \in [Procs -> Nat]
    /\ max \in [Consumers -> 0..MaxTake]
    /\ tbl \in [Procs -> Seq(Content)]
    /\ \A p \in Producers : tbl[p] \in Seq(Values) /\ Len(tbl[p]) <= MaxPut
    /\ crashed \in SUBSET Procs
    /\ log \in Seq(Values)
    /\ crossed \in BOOLEAN

\* The four counters stay in the order cons.tail, cons.head, prod.tail,
\* prod.head and within one capacity: u32 wrap-around and heads that went
\* stale between the load and the CAS never let the ring over- or underfill.
RingOrder ==
    /\ cons.tail <= cons.head
    /\ cons.head <= prod.tail
    /\ prod.tail <= prod.head
    /\ prod.head <= cons.tail + Capacity

Claimed(p) == pc[p] \in {"prodCopy", "prodWait", "consCopy", "consWait"}
Copying == {p \in Procs : pc[p] \in {"prodCopy", "consCopy"}}

\* As long as no burst ran past the last cell, two processes that are in the
\* copy loops at the same time touch different cells: a claim won by the CAS
\* is exclusive, so the plain (non-atomic) copies never race.
ExclusiveCells ==
    ~crossed => \A p, q \in Copying :
        p # q => CellsOf(old[p], n[p]) \cap CellsOf(old[q], n[q]) = {}

InOrder(c) == tbl[c] = SubSeq(log, old[c] + 1, old[c] + n[c])

\* As long as no burst ran past the last cell, what a dequeue burst copied is
\* exactly what was enqueued at the positions it claimed: with disjoint
\* claims, every entry is delivered once and in the order of the enqueues.
DeliveredInOrder ==
    ~crossed => \A c \in Consumers : pc[c] = "consWait" => InOrder(c)

\* The same without the proviso, as kt_ringbuf.c:272 puts it: "now we can
\* dequeue entries from the ring".  The wrap-around branch of
\* kt_ringbuf_dequeue_elems reads on past the last cell instead.
EntriesComeFromTheRing ==
    \A c \in Consumers : pc[c] = "consWait" => InOrder(c)

\* A process that spins on prod.tail or cons.tail waits for another process
\* whose unfinished claim starts exactly at that tail: never for nobody, and
\* never in a circle.
SpinHasHolder ==
    /\ \A p \in Producers : pc[p] = "prodWait" /\ prod.tail # old[p] =>
           \E q \in Producers : /\ Claimed(q)
                                /\ old[q] = prod.tail
                                /\ old[q] + n[q] <= old[p]
    /\ \A c \in Consumers : pc[c] = "consWait" /\ cons.tail # old[c] =>
           \E d \in Consumers : /\ Claimed(d)
                                /\ old[d] = cons.tail
                                /\ old[d] + n[d] <= old[c]

\* kt_ringbuf_count loads prod.tail and then cons.tail, while others go on.
\* As long as consumers have not released entries published after the first
\* load, it returns the entries published at the first and not released at
\* the second, however the u32 counters have wrapped, and so never more than
\* the ring holds when it returns.  Once they have, it masks the difference
\* of a smaller and a larger counter, and the result means nothing.
CountSound ==
    \A p \in Procs : pc[p] = "count" =>
        /\ old[p] <= prod.tail
        /\ cons.tail <= old[p] => kt_ringbuf_count(p) = old[p] - cons.tail

\* Until a burst runs past the last cell, no step changes the cell of an entry
\* that is published and not yet released by its consumer.
PublishedStable ==
    [][~crossed => \A q \in cons.tail..(prod.tail - 1) :
           ring'[Index(q)] = ring[Index(q)]]_vars

\* Every call returns, unless its process is killed or another on the same
\* side of the ring was killed between its CAS and its store of the tail: a
\* death anywhere else holds nobody up, and neither side holds up the other.
Peers(p) == IF p \in Producers THEN Producers ELSE Consumers
CallsReturn ==
    \A p \in Procs : (pc[p] # "idle") ~>
        \/ pc[p] = "idle"
        \/ p \in crashed
        \/ \E q \in Peers(p) \cap crashed : Claimed(q)

-----------------------------------------------------------------------------
(***************************************************************************)
(* Why RingOrder holds: an inductive invariant on the processes' claims.   *)
(* A producer that won its CAS owns the positions old..old+n-1; the claims *)
(* tile prod.tail..prod.head-1.  Consumers likewise on cons.               *)
(***************************************************************************)
InEnqWindow(p) == pc[p] \in {"prodTail", "prodCas"}
InDeqWindow(c) == pc[c] \in {"consTail", "consCas"}
EnqClaim(p) == pc[p] \in {"prodCopy", "prodWait"}
DeqClaim(c) == pc[c] \in {"consCopy", "consWait"}

\* The old_head of a live process is at most one lap behind; if it is still the head when the
\* CAS comes, the n computed from an earlier cons.tail still fits.
EnqWindow ==
    \A p \in Producers :
        /\ InEnqWindow(p) => old[p] <= prod.head
        /\ InEnqWindow(p) /\ p \notin crashed => prod.head - old[p] < Modulus
        /\ pc[p] = "prodCas" =>
               /\ 1 <= n[p] /\ n[p] <= Len(tbl[p])
               /\ old[p] = prod.head => prod.head + n[p] <= cons.tail + Capacity

DeqWindow ==
    \A c \in Consumers :
        /\ InDeqWindow(c) => old[c] <= cons.head
        /\ InDeqWindow(c) /\ c \notin crashed => cons.head - old[c] < Modulus
        /\ pc[c] = "consCas" =>
               /\ 1 <= n[c] /\ n[c] <= MaxTake
               /\ old[c] = cons.head => cons.head + n[c] <= prod.tail

EnqRange ==
    \A p \in Producers : EnqClaim(p) =>
        /\ 1 <= n[p] /\ n[p] <= Len(tbl[p])
        /\ prod.tail <= old[p] /\ old[p] + n[p] <= prod.head

DeqRange ==
    \A c \in Consumers : DeqClaim(c) =>
        /\ 1 <= n[c] /\ n[c] <= MaxTake
        /\ cons.tail <= old[c] /\ old[c] + n[c] <= cons.head

Apart(p, q) == old[p] + n[p] <= old[q] \/ old[q] + n[q] <= old[p]

EnqDisjoint ==
    \A p, q \in Producers : EnqClaim(p) /\ EnqClaim(q) /\ p # q => Apart(p, q)
DeqDisjoint ==
    \A c, d \in Consumers : DeqClaim(c) /\ DeqClaim(d) /\ c # d => Apart(c, d)

Covers(p, x) == old[p] <= x /\ x < old[p] + n[p]

EnqCover ==
    \A x \in prod.tail..(prod.head - 1) :
        \E p \in Producers : EnqClaim(p) /\ Covers(p, x)
DeqCover ==
    \A x \in cons.tail..(cons.head - 1) :
        \E c \in Consumers : DeqClaim(c) /\ Covers(c, x)

EnqClaims == EnqWindow /\ EnqRange /\ EnqDisjoint /\ EnqCover
DeqClaims == DeqWindow /\ DeqRange /\ DeqDisjoint /\ DeqCover
ClaimInv == TypeOK /\ RingOrder /\ EnqClaims /\ DeqClaims

(***************************************************************************)
(* Why DeliveredInOrder holds: what is in the cells.  Position x of log is *)
(* written once it is published or its producer has left the copy loop.    *)
(***************************************************************************)
Written(x) ==
    x < prod.tail \/ \E p \in Producers : pc[p] = "prodWait" /\ Covers(p, x)

\* A producer holds the values it logged when it claimed.
TablesLogged ==
    \A p \in Producers : EnqClaim(p) => \A i \in 1..n[p] : tbl[p][i] = log[old[p] + i]

\* Every claim ends within the ring; the cell of a written position holds its
\* value until it is released; and a consumer that left the copy loop has the
\* values of the positions it claimed.
ClaimsFit == \A p \in Procs : Claimed(p) => Index(old[p]) + n[p] <= Size
CellsHold ==
    \A x \in cons.tail..(prod.head - 1) : Written(x) => ring[Index(x)] = log[x + 1]
TakenRight ==
    \A c \in Consumers : pc[c] = "consWait" =>
        /\ Len(tbl[c]) = n[c]
        /\ \A i \in 1..n[c] : tbl[c][i] = log[old[c] + i]

\* The log is as long as what was claimed, and until a burst runs past the
\* last cell the cells and the tables agree with it.
DataInv ==
    /\ Len(log) = prod.head
    /\ TablesLogged
    /\ ~crossed => ClaimsFit /\ CellsHold /\ TakenRight

-----------------------------------------------------------------------------
(***************************************************************************)
(* The ring implements the abstract queue.  Its entries are the cells from *)
(* cons.head to prod.tail; an enqueue takes effect at its store of         *)
(* prod.tail, a dequeue at its CAS of cons.head: from there on the burst   *)
(* it is about to copy counts as handed over.                              *)
(***************************************************************************)
ItemsBar == [i \in 1..(prod.tail - cons.head) |-> ring[Index(cons.head + i - 1)]]
GotBar == [c \in Consumers |->
              IF pc[c] = "consCopy"
              THEN [i \in 1..n[c] |-> ring[Index(old[c] + i - 1)]]
              ELSE tbl[c]]

Queue == INSTANCE Fifo WITH items <- ItemsBar, got <- GotBar

\* Until a burst has run past the last cell, every step of the ring is a step
\* of the bounded FIFO or changes nothing a caller can observe.
FifoUntilCrossed == Queue!Init /\ [][~crossed => Queue!Next]_(Queue!vars)

\* The same for all steps, which holds where no burst does.
RefinesFifo == Queue!Spec
=============================================================================
