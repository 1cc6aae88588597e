-------------------------------- MODULE Fifo --------------------------------
(***************************************************************************)
(* What kt_ringbuf promises its callers: a bounded FIFO queue.  A burst is *)
(* appended in one piece, a burst is removed from the front in one piece,  *)
(* and the caller that removed it is handed exactly the entries removed.   *)
(* RingBuf.tla is the implementation.                                      *)
(***************************************************************************)
EXTENDS Integers, Sequences

CONSTANTS Values,     \* what the callers enqueue
          Consumers,  \* the callers of kt_ringbuf_dequeue_burst
          Capacity,   \* kt_ringbuf_get_capacity
          MaxPut,     \* largest n of an enqueue burst
          MaxTake     \* largest n of a dequeue burst

VARIABLES items,      \* the entries in the queue, oldest first
          got         \* the burst each consumer was handed last

vars == <<items, got>>

Bursts == UNION {[1..k -> Values] : k \in 1..MaxPut}

Init == /\ items = << >>
        /\ got = [c \in Consumers |-> << >>]

Put(s) == /\ Len(items) + Len(s) <= Capacity
          /\ items' = items \o s
          /\ UNCHANGED got

Take(c, k) == /\ k <= Len(items)
              /\ got' = [got EXCEPT ![c] = SubSeq(items, 1, k)]
              /\ items' = SubSeq(items, k + 1, Len(items))

Next == \/ \E s \in Bursts : Put(s)
        \/ \E c \in Consumers, k \in 1..MaxTake : Take(c, k)

Spec == Init /\ [][Next]_vars
=============================================================================
