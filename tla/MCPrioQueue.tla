---------------------------- MODULE MCPrioQueue -----------------------------
(***************************************************************************)
(* PrioQueue for TLC.  The mbuf indices are only carried along, so they    *)
(* are interchangeable model values; and as long as the queue holds what   *)
(* it should, what it does depends on nothing but the keys in the array.   *)
(***************************************************************************)
EXTENDS PrioQueue, TLC

Indices == Permutations(Data)
Keys == <<[k \in 1..Len(elems) |-> elems[k].prio], ret, KeepsEntries>>
=============================================================================
