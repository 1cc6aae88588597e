------------------------------ MODULE Sendmsg -------------------------------
(***************************************************************************)
(* The application side of the transmit path: sendmsg_inet and             *)
(* sendmsg_packet of libktsn.c, from the point where an interface was      *)
(* found, with the two rings and the packet slots in shared memory.  The   *)
(* two differ in the metadata the daemon turns into headers.               *)
(*                                                                         *)
(* A slot is an index into the mbuf and metadata pools.  It travels        *)
(* free_ring -> application -> tx_ring -> daemon -> free_ring.  One call   *)
(* on a ring is one step here (RingBuf.tla shows that the ring's own steps *)
(* amount to that).  The daemon is Ktsnd or, abstractly, SlotPath.         *)
(***************************************************************************)
EXTENDS Integers, Sequences, FiniteSets

CONSTANTS
    Senders,      \* application threads
    Mortal,       \* those that may be killed
    RingSize,     \* ring_elem_count
    TxBurst,      \* n of the daemon's dequeue (8)
    TxTimes,      \* the SCM_TXTIME values applications ask for, as u64
    MaxMsgs,      \* bound: number of packets handed to sendmsg
    None          \* no slot, no packet

Capacity == RingSize - 1
Slots == 0..(Capacity - 1)
Ids == 1..MaxMsgs
Held == [slot : Slots, id : Ids]

ASSUME SendmsgAssumption ==
    /\ IsFiniteSet(Senders) /\ Mortal \subseteq Senders
    /\ RingSize \in Nat \ {0, 1}
    /\ TxBurst \in Nat \ {0}
    /\ TxTimes \subseteq Nat
    /\ MaxMsgs \in Nat
    /\ None \notin Slots \cup Held

VARIABLES
    free,         \* free_ring, oldest entry first
    tx,           \* tx_ring, oldest entry first
    mbuf, meta,   \* per slot: the packet in mbuf->data (0: none yet), and
                  \* metadata->txtime
    st,           \* per application thread: where it is in sendmsg
    mine,         \* the slot it took from free_ring, and for which packet
    ids,          \* history: packets handed to sendmsg so far
    asked,        \* history: the txtime asked for each packet
    fate,         \* history: what became of each packet
    failed        \* history: an insert or an enqueue found no room

pools == <<mbuf, meta>>
app == <<st, mine, ids, asked>>
sendVars == <<free, tx, pools, app, fate, failed>>

SendInit ==
    /\ free = [i \in 1..Capacity |-> i - 1]
    /\ tx = << >>
    /\ mbuf = [s \in Slots |-> 0] /\ meta = [s \in Slots |-> 0]
    /\ st = [a \in Senders |-> "idle"]
    /\ mine = [a \in Senders |-> None]
    /\ ids = 0
    /\ asked = [i \in Ids |-> 0]
    /\ fate = [i \in {0} \cup Ids |-> "unsent"]
    /\ failed = FALSE

\* The call, for a packet with txtime t: take a slot.  With none free the
\* call returns -ENOBUFS and has changed nothing.
TakeSlot(a, t) ==
    /\ st[a] = "idle" /\ ids < MaxMsgs
    /\ free # << >>
    /\ ids' = ids + 1
    /\ asked' = [asked EXCEPT ![ids + 1] = t]
    /\ mine' = [mine EXCEPT ![a] = [slot |-> Head(free), id |-> ids + 1]]
    /\ free' = Tail(free)
    /\ st' = [st EXCEPT ![a] = "fill"]
    /\ UNCHANGED <<tx, pools, fate, failed>>

\* Mutant: metadata->txtime is not written.
FillNoTxtime(a) ==
    /\ st[a] = "fill"
    /\ mbuf' = [mbuf EXCEPT ![mine[a].slot] = mine[a].id]
    /\ st' = [st EXCEPT ![a] = "post"]
    /\ UNCHANGED <<free, tx, meta, mine, ids, asked, fate, failed>>

\* Copy the payload and write the metadata.  The copy is iov_len bytes long and
\* is not checked against the 2048 bytes of a slot: payloads are assumed to fit.
Fill(a) ==
    /\ st[a] = "fill"
    /\ mbuf' = [mbuf EXCEPT ![mine[a].slot] = mine[a].id]
    /\ meta' = [meta EXCEPT ![mine[a].slot] = asked[mine[a].id]]
    /\ st' = [st EXCEPT ![a] = "post"]
    /\ UNCHANGED <<free, tx, mine, ids, asked, fate, failed>>

\* Mutant: the application also returns the slot itself.
PostAndFree(a) ==
    /\ st[a] = "post"
    /\ tx' = Append(tx, mine[a].slot)
    /\ free' = Append(free, mine[a].slot)
    /\ fate' = [fate EXCEPT ![mine[a].id] = "posted"]
    /\ st' = [st EXCEPT ![a] = "idle"]
    /\ mine' = [mine EXCEPT ![a] = None]
    /\ UNCHANGED <<pools, ids, asked, failed>>

\* Hand the slot to the daemon; with tx_ring full, return -ENOBUFS and
\* forget the slot.
Post(a) ==
    /\ st[a] = "post"
    /\ IF Len(tx) < Capacity
       THEN /\ tx' = Append(tx, mine[a].slot)
            /\ fate' = [fate EXCEPT ![mine[a].id] = "posted"]
            /\ UNCHANGED failed
       ELSE failed' = TRUE /\ UNCHANGED <<tx, fate>>
    /\ st' = [st EXCEPT ![a] = "idle"]
    /\ mine' = [mine EXCEPT ![a] = None]
    /\ UNCHANGED <<free, pools, ids, asked>>

\* The application is killed; nobody returns the slot it may hold.
Die(a) ==
    /\ a \in Mortal /\ st[a] # "dead"
    /\ st' = [st EXCEPT ![a] = "dead"]
    /\ UNCHANGED <<free, tx, pools, mine, ids, asked, fate, failed>>

SendStep(a) == Fill(a) \/ Post(a) \/ Die(a) \/ \E t \in TxTimes : TakeSlot(a, t)
=============================================================================
