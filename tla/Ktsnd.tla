------------------------------- MODULE Ktsnd --------------------------------
(***************************************************************************)
(* The main loop of the daemon (ktsnd.c) with its priority queue and the   *)
(* network port, and the applications of Sendmsg that feed it.             *)
(*                                                                         *)
(* The burst that runs past the ring's last cell is kept: what it reads    *)
(* there is the zeroed rest of the page.                                   *)
(***************************************************************************)
EXTENDS Sendmsg, PrioQueueOps

CONSTANTS
    MaySigint,    \* whether the daemon may be interrupted
    Half,         \* 2^63
    Delta,        \* tx_delta_ns
    PoolSize,     \* buffers in the DPDK mempool
    Descs,        \* transmit descriptors of a port that was set up
    RxDescs,      \* receive descriptors of its receive queue
    MaxTime       \* bound: the clock stops here

\* A packet put on the wire, and when.
Sent == [id : {0} \cup Ids, txtime : Nat, at : Nat]

ASSUME KtsndAssumption ==
    /\ MaySigint \in BOOLEAN
    /\ Half \in Nat \ {0}
    /\ TxTimes \subseteq 0..(2 * Half - 1)
    /\ {Delta, PoolSize, Descs, RxDescs, MaxTime} \subseteq Nat
    /\ RxDescs <= PoolSize
    /\ MaxTime < Half
    /\ None \notin Sent

VARIABLES
    txHead,       \* cons.head of tx_ring modulo RingSize
    pq,           \* prio_queue
    dpc,          \* where the daemon is in its main loop
    cur,          \* mbuf_index, the slot it is sending
    run,          \* g_run
    clock,        \* CLOCK_REALTIME
    descs,        \* transmit descriptors the port has
    rxBufs,       \* DPDK buffers its receive queue holds
    pool, inNic,  \* DPDK buffers in the mempool, and in transmit descriptors
    last,         \* history: the last packet put on the wire
    drops,        \* history: how often the daemon dropped a late packet
    refusals,     \* history: how often the port refused a packet
    crossed       \* history: a burst ran past the end of tx_ring

shm == <<free, tx, pools>>
nic == <<descs, rxBufs, pool, inNic>>
seen == <<last, drops, refusals, crossed>>
daemonVars == <<txHead, pq, dpc, cur, run, nic, seen>>
vars == <<sendVars, daemonVars, clock>>

\* port_init ends in rte_eth_dev_start or, at any of its calls, in an error
\* that main logs and ignores: a port that was not started accepts no packet.
\* The receive queue is set up over the same mempool and takes a buffer for
\* each of its descriptors; a port that failed later may keep them.  Nothing
\* is ever received (no rte_eth_rx_burst), so they never come back.
PortInit ==
    /\ \/ descs = Descs /\ rxBufs = RxDescs
       \/ descs = 0 /\ rxBufs \in {0, RxDescs}
    /\ pool = PoolSize - rxBufs /\ inNic = 0

Init ==
    /\ SendInit
    /\ txHead = 0
    /\ pq = << >> /\ dpc = "drain" /\ cur = None /\ run = TRUE
    /\ clock = 0
    /\ PortInit
    /\ last = None
    /\ drops = 0 /\ refusals = 0 /\ crossed = FALSE

-----------------------------------------------------------------------------
Least(x, y) == IF x <= y THEN x ELSE y

\* A u64 txtime handed to a function that takes an i64.
I64(x) == IF x < Half THEN x ELSE x - 2 * Half

\* What a dequeue burst of k entries copies out of tx_ring: past the last cell
\* of the ring lies zeroed memory.
TxTable(k) == [i \in 1..k |-> IF txHead + i <= RingSize THEN tx[i] ELSE 0]

Queued(q, s) == Insert(q, Capacity, I64(meta[s]), s)

\* The queue after the entries of a burst of k were inserted one by one.
Inserted(k) ==
    LET round[i \in 0..k] == IF i = 0 THEN pq ELSE Queued(round[i - 1], TxTable(k)[i])
    IN  round[k]

\* Top of the loop: dequeue a burst and insert every entry of it by the
\* txtime found in its metadata.  An insert that fails is not noticed.
Drain ==
    /\ dpc = "drain" /\ run
    /\ LET k == Least(TxBurst, Len(tx)) IN
           /\ pq' = Inserted(k)
           /\ tx' = SubSeq(tx, k + 1, Len(tx))
           /\ txHead' = (txHead + k) % RingSize
           /\ failed' = (failed \/ Len(pq) + k > Capacity)
           /\ crossed' = (crossed \/ txHead + k > RingSize)
    /\ dpc' = "check"
    /\ UNCHANGED <<free, pools, app, fate, cur, run, nic, clock, last, drops, refusals>>

\* kt_get_time_diff_ns: an i64 subtraction, which wraps.
Diff == ((GetMin(pq) - clock + Half) % (2 * Half)) - Half
RootSlot == Head(pq).data

\* Nothing queued, or the first packet is not due yet: next iteration.
CheckWait ==
    /\ dpc = "check"
    /\ ~IsEmpty(pq) => Diff > Delta
    /\ dpc' = "drain"
    /\ UNCHANGED <<sendVars, txHead, pq, cur, run, nic, clock, seen>>

\* Mutant: the late packet is reported but stays in the queue.
CheckLateKeeps ==
    /\ dpc = "check"
    /\ ~IsEmpty(pq) /\ Diff < 0
    /\ dpc' = "drain"
    /\ UNCHANGED <<sendVars, txHead, pq, cur, run, nic, clock, seen>>

\* Mutant: the slot is returned and the packet stays in the queue.
CheckLateFreesOnly ==
    /\ dpc = "check"
    /\ ~IsEmpty(pq) /\ Diff < 0
    /\ free' = Append(free, RootSlot)
    /\ dpc' = "drain"
    /\ UNCHANGED <<tx, pools, app, fate, failed, txHead, pq, cur, run, nic, clock, seen>>

\* "packet lost": it leaves the queue, and its slot goes nowhere.
CheckLate ==
    /\ dpc = "check"
    /\ ~IsEmpty(pq) /\ Diff < 0
    /\ pq' = ExtractMin(pq)
    /\ drops' = drops + 1
    /\ fate' = [fate EXCEPT ![mbuf[RootSlot]] = "lost"]
    /\ dpc' = "drain"
    /\ UNCHANGED <<shm, app, failed, txHead, cur, run, nic, clock, last, refusals, crossed>>

\* Mutant: the packet is looked at and not extracted.
CheckDuePeeks ==
    /\ dpc = "check"
    /\ ~IsEmpty(pq) /\ Diff \in 0..Delta
    /\ cur' = RootSlot
    /\ dpc' = "send"
    /\ UNCHANGED <<sendVars, txHead, pq, run, nic, clock, seen>>

\* Mutant: a packet that is not late is sent at once.
CheckDueAtOnce ==
    /\ dpc = "check"
    /\ ~IsEmpty(pq) /\ Diff >= 0
    /\ cur' = RootSlot
    /\ pq' = ExtractMin(pq)
    /\ dpc' = "send"
    /\ UNCHANGED <<sendVars, txHead, run, nic, clock, seen>>

CheckDue ==
    /\ dpc = "check"
    /\ ~IsEmpty(pq) /\ Diff \in 0..Delta
    /\ cur' = RootSlot
    /\ pq' = ExtractMin(pq)
    /\ dpc' = "send"
    /\ UNCHANGED <<sendVars, txHead, run, nic, clock, seen>>

\* Mutant: the buffer is allocated and never given to the port.
TransmitNoBurst ==
    /\ dpc = "send" /\ pool > 0
    /\ pool' = pool - 1
    /\ dpc' = "recycle"
    /\ UNCHANGED <<sendVars, txHead, pq, cur, run, descs, rxBufs, inNic, clock, seen>>

\* rte_pktmbuf_alloc, prepare_packet, rte_eth_tx_burst.  The port refuses
\* the packet when its descriptors are used up, or it has none; the buffer is
\* then neither sent nor freed.
Transmit ==
    /\ dpc = "send" /\ pool > 0
    /\ pool' = pool - 1
    /\ LET id == mbuf[cur] IN
           \/ /\ inNic < descs
              /\ inNic' = inNic + 1
              /\ last' = [id |-> id, txtime |-> meta[cur], at |-> clock]
              /\ fate' = [fate EXCEPT ![id] = IF @ = "posted" THEN "wire" ELSE "twice"]
              /\ UNCHANGED refusals
           \/ /\ inNic = descs
              /\ fate' = [fate EXCEPT ![id] = "refused"]
              /\ refusals' = refusals + 1
              /\ UNCHANGED <<inNic, last>>
    /\ dpc' = "recycle"
    /\ UNCHANGED <<shm, app, failed, txHead, pq, cur, run, descs, rxBufs, clock>>
    /\ UNCHANGED <<drops, crossed>>

\* The mempool is empty: the error is logged and the null buffer is used.
TransmitNull ==
    /\ dpc = "send" /\ pool = 0
    /\ dpc' = "segv"
    /\ UNCHANGED <<sendVars, txHead, pq, cur, run, nic, clock, seen>>

\* Mutant: the slot is not returned.
RecycleForgets ==
    /\ dpc = "recycle"
    /\ cur' = None
    /\ dpc' = "drain"
    /\ UNCHANGED <<sendVars, txHead, pq, run, nic, clock, seen>>

\* The slot goes back to free_ring; a full free_ring is not noticed.
Recycle ==
    /\ dpc = "recycle"
    /\ free' = IF Len(free) < Capacity THEN Append(free, cur) ELSE free
    /\ failed' = (failed \/ Len(free) = Capacity)
    /\ cur' = None
    /\ dpc' = "drain"
    /\ UNCHANGED <<tx, pools, app, fate, txHead, pq, run, nic, clock, seen>>

\* SIGINT clears g_run; the loop ends the next time it is tested.
Sigint ==
    /\ MaySigint /\ run /\ dpc \notin {"segv", "exit"}
    /\ run' = FALSE
    /\ UNCHANGED <<sendVars, txHead, pq, dpc, cur, nic, clock, seen>>

Leave ==
    /\ dpc = "drain" /\ ~run
    /\ dpc' = "exit"
    /\ UNCHANGED <<sendVars, txHead, pq, cur, run, nic, clock, seen>>

-----------------------------------------------------------------------------
\* The port is done with a packet and returns its buffer to the mempool.
NicReclaim ==
    /\ inNic > 0
    /\ inNic' = inNic - 1
    /\ pool' = pool + 1
    /\ UNCHANGED <<sendVars, txHead, pq, dpc, cur, run, descs, rxBufs, clock, seen>>

Tick ==
    /\ clock < MaxTime
    /\ clock' = clock + 1
    /\ UNCHANGED <<sendVars, daemonVars>>

DaemonStep == \/ Drain \/ CheckWait \/ CheckLate \/ CheckDue
              \/ Transmit \/ TransmitNull \/ Recycle \/ Leave

Next == \/ (\E a \in Senders : SendStep(a)) /\ UNCHANGED <<daemonVars, clock>>
        \/ DaemonStep \/ Sigint
        \/ NicReclaim \/ Tick

Spec == Init /\ [][Next]_vars

\* The daemon polls until it exits or faults, and the clock advances.  The
\* first conjunct is WF_vars(DaemonStep): a loop that has not stopped can
\* always take its next step.
Stopped == dpc \in {"segv", "exit"}
Fairness == ([]<>Stopped \/ []<><<DaemonStep>>_vars) /\ WF_vars(Tick)
FairSpec == Spec /\ Fairness

-----------------------------------------------------------------------------
(***************************************************************************)
(* The path of the slots, as SlotPath sees it: the heap is a bag of slots, *)
(* and a daemon that has exited or faulted stays where it is.              *)
(***************************************************************************)
QueueBar == [s \in Slots |-> Cardinality({i \in 1..Len(pq) : pq[i].data = s})]
DpcBar == CASE dpc \in {"drain", "check", "exit"} -> "poll"
            [] dpc \in {"send", "segv"} -> "send"
            [] OTHER -> "recycle"
LastBar == IF last = None THEN None ELSE [id |-> last.id, txtime |-> last.txtime]

Path == INSTANCE SlotPath WITH queue <- QueueBar, queued <- Len(pq),
                               dpc <- DpcBar, last <- LastBar

\* The daemon moves slots as SlotPath says: the heap loses no entry and
\* invents none, whatever order it is in, every slot the loop takes out it
\* returns or drops, and interruption, fault and exit leave no step half done.
RefinesSlotPath == Path!Spec

\* The invariants of SlotPath, stated there, for this daemon: slots are
\* conserved, results that are ignored are no failures, a slot has one owner,
\* and a packet goes out once with the txtime that was asked for it.
SlotCount == Path!SlotCount
NothingOverflows == Path!NothingOverflows
OneOwner == Path!OneOwner
WireFaithful == Path!WireFaithful
PathInv == Path!PathInv

-----------------------------------------------------------------------------
(***************************************************************************)
(* Properties of the loop                                                  *)
(***************************************************************************)
\* No packet is put on the wire earlier than tx_delta_ns before the time that
\* was asked for it, until a burst runs past the end of tx_ring.
NotEarly ==
    ~crossed /\ last # None => last.at >= I64(asked[last.id]) - Delta

\* A null buffer is used only after the port refused so many packets that
\* their leaked buffers, with the ones its descriptors of both directions can
\* hold, are the mempool: packets that are transmitted, however many, never
\* exhaust it.  With a port that was never started the daemon lasts for
\* PoolSize packets, less the ones its receive queue kept.
NullOnlyByRefusals == dpc = "segv" => refusals + descs + rxBufs >= PoolSize

\* A txtime whose difference to the clock does not fit an i64.
Unrepresentable(t) == I64(t) - MaxTime < -Half

\* While the daemon runs, every packet accepted by sendmsg leaves the system:
\* it is transmitted or dropped.  The exceptions are a burst past the end of
\* tx_ring, an empty mempool, and a txtime so far in the past that the
\* difference to the clock wraps around and keeps the queue waiting.
EveryPacketLeaves ==
    \A i \in Ids : fate[i] = "posted" ~>
        \/ fate[i] \in {"wire", "lost", "refused", "twice"}
        \/ crossed \/ ~run \/ dpc = "segv"
        \/ \E j \in Ids : Unrepresentable(asked[j])
=============================================================================
