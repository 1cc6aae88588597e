------------------------------ MODULE SlotPath ------------------------------
(***************************************************************************)
(* What the daemon promises about the packet slots: applications send as   *)
(* in Sendmsg, and ktsnd moves slots from tx_ring to its queue, drops or   *)
(* transmits any packet of the queue, and returns the slot.  Which packet  *)
(* and when, the heap, the clock and the port are left open.  Ktsnd.tla is *)
(* the implementation.                                                     *)
(***************************************************************************)
EXTENDS Sendmsg

VARIABLES
    txHead,       \* cons.head of tx_ring modulo RingSize
    queue,        \* how often each slot is in the queue
    queued,       \* the number of entries of the queue
    dpc,          \* "poll", "send" or "recycle"
    cur,          \* the slot the daemon is sending
    last,         \* history: the last packet put on the wire
    drops,        \* history: how often the daemon dropped a late packet
    crossed       \* history: a burst ran past the end of tx_ring

daemon == <<txHead, queue, queued, dpc, cur, last, drops, crossed>>
vars == <<sendVars, daemon>>

Init ==
    /\ SendInit
    /\ txHead = 0
    /\ queue = [s \in Slots |-> 0] /\ queued = 0
    /\ dpc = "poll" /\ cur = None
    /\ last = None /\ drops = 0 /\ crossed = FALSE

Least(x, y) == IF x <= y THEN x ELSE y

\* What a dequeue burst of k entries copies out of tx_ring: past the last cell
\* of the ring lies zeroed memory.
TxTable(k) == [i \in 1..k |-> IF txHead + i <= RingSize THEN tx[i] ELSE 0]

\* How often s is among the first n entries of a burst of k.
Copies(k, n, s) == Cardinality({i \in 1..n : TxTable(k)[i] = s})

\* A burst goes to the queue, as far as there is room.
Drain ==
    LET k == Least(TxBurst, Len(tx))
        n == Least(k, Capacity - queued)
    IN  /\ dpc = "poll"
        /\ queue' = [s \in Slots |-> queue[s] + Copies(k, n, s)]
        /\ queued' = queued + n
        /\ tx' = SubSeq(tx, k + 1, Len(tx))
        /\ txHead' = (txHead + k) % RingSize
        /\ failed' = (failed \/ n < k)
        /\ crossed' = (crossed \/ txHead + k > RingSize)
        /\ UNCHANGED <<free, pools, app, fate, dpc, cur, last, drops>>

\* An entry leaves the queue.
Leaves(s) ==
    /\ dpc = "poll" /\ queued > 0 /\ queue[s] > 0
    /\ queue' = [queue EXCEPT ![s] = @ - 1]
    /\ queued' = queued - 1

\* A late packet is dropped, and its slot goes nowhere.
DropLate(s) ==
    /\ Leaves(s)
    /\ drops' = drops + 1
    /\ fate' = [fate EXCEPT ![mbuf[s]] = "lost"]
    /\ UNCHANGED <<free, tx, pools, app, failed, txHead, dpc, cur, last, crossed>>

Extract(s) ==
    /\ Leaves(s)
    /\ cur' = s
    /\ dpc' = "send"
    /\ UNCHANGED <<sendVars, txHead, last, drops, crossed>>

\* The packet in the slot goes on the wire, or is refused by the port.
Transmit ==
    /\ dpc = "send"
    /\ LET id == mbuf[cur] IN
           \/ /\ last' = [id |-> id, txtime |-> meta[cur]]
              /\ fate' = [fate EXCEPT ![id] = IF @ = "posted" THEN "wire" ELSE "twice"]
           \/ /\ fate' = [fate EXCEPT ![id] = "refused"]
              /\ UNCHANGED last
    /\ dpc' = "recycle"
    /\ UNCHANGED <<free, tx, pools, app, failed, txHead, queue, queued, cur, drops, crossed>>

\* The slot goes back to free_ring; a full free_ring is not noticed.
Recycle ==
    /\ dpc = "recycle"
    /\ free' = IF Len(free) < Capacity THEN Append(free, cur) ELSE free
    /\ failed' = (failed \/ Len(free) = Capacity)
    /\ cur' = None
    /\ dpc' = "poll"
    /\ UNCHANGED <<tx, pools, app, fate, txHead, queue, queued, last, drops, crossed>>

Next ==
    \/ (\E a \in Senders : SendStep(a)) /\ UNCHANGED daemon
    \/ Drain \/ Transmit \/ Recycle
    \/ \E s \in Slots : DropLate(s) \/ Extract(s)

Spec == Init /\ [][Next]_vars

-----------------------------------------------------------------------------
(***************************************************************************)
(* Properties                                                              *)
(***************************************************************************)
Holders == {a \in Senders : mine[a] # None}
Holding == IF cur = None THEN 0 ELSE 1

\* Slots are conserved but for late packets: the slots in the rings, in the
\* queue and in somebody's hands plus one per packet the daemon dropped as
\* late always make up the whole pool.  A "packet lost" costs its slot for
\* good, and nothing else does.
SlotCount ==
    Len(free) + Len(tx) + queued + Cardinality(Holders) + Holding + drops
        = Capacity

\* The results the code does not look at are never failures: no insert into
\* the priority queue and no return to free_ring finds it full, and sendmsg,
\* which would lose its slot, never finds tx_ring full.
NothingOverflows == ~failed

In(s, ring) == \E i \in 1..Len(ring) : ring[i] = s
InQueue(s) == queue[s] > 0
InHand(s) == \E a \in Holders : mine[a].slot = s
Distinct(ring) == \A i, j \in 1..Len(ring) : ring[i] = ring[j] => i = j

Apart ==
    /\ Distinct(free) /\ Distinct(tx)
    /\ \A a, b \in Holders : mine[a].slot = mine[b].slot => a = b
    /\ \A s \in Slots :
           /\ queue[s] <= 1
           /\ In(s, free) => ~In(s, tx) /\ ~InQueue(s) /\ ~InHand(s) /\ cur # s
           /\ In(s, tx) => ~InQueue(s) /\ ~InHand(s) /\ cur # s
           /\ InQueue(s) => ~InHand(s) /\ cur # s
           /\ InHand(s) => cur # s

\* Until a burst runs past the end of tx_ring, every slot has at most one
\* owner, so no application writes a slot that another one or the daemon is
\* still using.
OneOwner == ~crossed => Apart

\* Until then, the packet put on the wire is one an application posted, with
\* the transmission time it asked for, and never a second time.
WireFaithful ==
    ~crossed =>
        /\ last # None => last.id \in Ids /\ last.txtime = asked[last.id]
        /\ \A i \in Ids : fate[i] # "twice"

-----------------------------------------------------------------------------
(***************************************************************************)
(* Why: what a slot contains follows from where it is.                     *)
(***************************************************************************)
TypeOK ==
    /\ free \in Seq(Slots) /\ tx \in Seq(Slots) /\ txHead \in 0..(RingSize - 1)
    /\ mbuf \in [Slots -> {0} \cup Ids] /\ meta \in [Slots -> Nat]
    /\ st \in [Senders -> {"idle", "fill", "post", "dead"}]
    /\ mine \in [Senders -> {None} \cup Held]
    /\ \A a \in Senders : /\ st[a] = "idle" => mine[a] = None
                          /\ st[a] \in {"fill", "post"} => mine[a] # None
    /\ queue \in [Slots -> Nat] /\ queued \in Nat /\ drops \in Nat
    /\ dpc \in {"poll", "send", "recycle"}
    /\ cur \in {None} \cup Slots
    /\ dpc = "poll" <=> cur = None
    /\ ids \in 0..MaxMsgs /\ asked \in [Ids -> Nat]
    /\ fate \in [{0} \cup Ids ->
                 {"unsent", "posted", "wire", "lost", "refused", "twice"}]
    /\ failed \in BOOLEAN /\ crossed \in BOOLEAN

\* Between sendmsg and the transmission.
InFlight(s) == In(s, tx) \/ InQueue(s) \/ (cur = s /\ dpc = "send")

Contents ==
    /\ \A s \in Slots : InFlight(s) =>
           /\ mbuf[s] \in 1..ids /\ fate[mbuf[s]] = "posted"
           /\ meta[s] = asked[mbuf[s]]
    /\ \A r, s \in Slots : InFlight(r) /\ InFlight(s) /\ mbuf[r] = mbuf[s] => r = s
    /\ \A a \in Holders :
           /\ mine[a].id \in 1..ids /\ fate[mine[a].id] = "unsent"
           /\ st[a] = "post" => /\ mbuf[mine[a].slot] = mine[a].id
                                /\ meta[mine[a].slot] = asked[mine[a].id]
    /\ \A a, b \in Holders : mine[a].id = mine[b].id => a = b
    /\ \A i \in Ids : /\ fate[i] # "twice"
                      /\ i > ids => fate[i] = "unsent"
    /\ last # None => last.id \in 1..ids /\ last.txtime = asked[last.id]

\* The inductive invariant: types and count always, owners and contents until
\* a burst runs past the end of tx_ring.
PathInv ==
    /\ TypeOK /\ SlotCount /\ NothingOverflows
    /\ ~crossed => Apart /\ Contents
=============================================================================
