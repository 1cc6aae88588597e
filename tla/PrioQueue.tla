----------------------------- MODULE PrioQueue ------------------------------
(***************************************************************************)
(* The priority queue of src/kt_queue.c under every sequence of calls.     *)
(* The history variable held is what a queue must contain: the entries put *)
(* in and not yet taken out, whatever their place in the array.            *)
(***************************************************************************)
EXTENDS PrioQueueOps, FiniteSets

CONSTANTS Cap,         \* cap of kt_prio_queue_init
          Prios,       \* the keys (transmission times) the caller uses
          Data,        \* the mbuf indices it stores
          Int32Min     \* the INT32_MIN that kt_prio_queue_delete_key uses

ASSUME QueueAssumption == /\ Cap \in Nat
                          /\ Prios \subseteq Int
                          /\ Int32Min \in Int

VARIABLES elems,       \* q->elems[0..q->size-1]
          ret,         \* what the last call returned
          held         \* history: the entries the queue should hold

vars == <<elems, ret, held>>

Node(v, d) == [prio |-> v, data |-> d]
InUse == {x.data : x \in held}

Init == /\ elems = << >>
        /\ ret = 0
        /\ held = {}

DoInsert(v, d) ==
    /\ d \notin InUse
    /\ elems' = Insert(elems, Cap, v, d)
    /\ IF Len(elems) = Cap
       THEN ret' = -1 /\ UNCHANGED held
       ELSE ret' = 0 /\ held' = held \cup {Node(v, d)}

DoExtract ==
    /\ elems' = ExtractMin(elems)
    /\ IF IsEmpty(elems)
       THEN ret' = -1 /\ UNCHANGED held
       ELSE ret' = 0 /\ held' = held \ {Head(elems)}

\* What is held once the key of element i is no larger than v.
Lowered(i, v) ==
    IF v > Prio(elems, i) THEN held
    ELSE (held \ {elems[i + 1]}) \cup {Node(v, elems[i + 1].data)}

DoDecrease(i, v) ==
    /\ i < Len(elems)
    /\ elems' = DecreaseKey(elems, i, v)
    /\ held' = Lowered(i, v)
    /\ UNCHANGED ret

\* The call takes out the element it is asked to if all keys in the queue are
\* above INT32_MIN; else whichever is at the root once the key is lowered.
AllAbove == \A k \in 1..Len(elems) : Int32Min < elems[k].prio

DoDelete(i) ==
    /\ i < Len(elems)
    /\ elems' = DeleteKey(elems, i, Int32Min)
    /\ held' = IF AllAbove THEN held \ {elems[i + 1]}
               ELSE Lowered(i, Int32Min) \ {Head(DecreaseKey(elems, i, Int32Min))}
    /\ UNCHANGED ret

Next == \/ \E v \in Prios, d \in Data : DoInsert(v, d)
        \/ DoExtract
        \/ \E i \in 0..(Cap - 1) : DoDelete(i) \/ \E v \in Prios : DoDecrease(i, v)

Spec == Init /\ [][Next]_vars

-----------------------------------------------------------------------------
\* Whatever the order of the array, no call loses, duplicates or alters an
\* entry: the array always holds exactly the entries put in and not taken
\* out, which are never more than cap.  kt_prio_queue_delete_key takes out
\* one entry, and the one it was asked to if all keys are above INT32_MIN.
KeepsEntries == /\ {elems[k] : k \in 1..Len(elems)} = held
                /\ Len(elems) = Cardinality(held)
                /\ Len(elems) <= Cap

\* The parent-child pairs of the array that are out of order.
Disorder(e) == {i \in 1..(Len(e) - 1) : Prio(e, i) < Prio(e, Parent(i))}

\* The shift up is right: kt_prio_queue_insert and kt_prio_queue_decrease_key
\* turn a heap into a heap.
ShiftUpKeepsHeap ==
    [][Disorder(elems) = {} /\ Len(elems') >= Len(elems)
           => Disorder(elems') = {}]_vars

\* The nodes 0, 2, 6, 14, ... reached by going right d times.
Spine[d \in 0..Cap] == IF d = 0 THEN 0 ELSE Right(Spine[d - 1])
RightSpine == {Spine[d] : d \in 0..Cap}

\* What the shift down leaves behind: taking an entry out of a heap puts at
\* most the children of one node of the right spine out of order, the node
\* at which the last entry came to rest, and its left child is one of them.
ShiftDownDamage ==
    [][Disorder(elems) = {} /\ Len(elems') < Len(elems) =>
           \/ Disorder(elems') = {}
           \/ \E i \in RightSpine :
                  /\ Left(i) \in Disorder(elems')
                  /\ Disorder(elems') \subseteq {Left(i), Right(i)}]_vars

\* kt_queue.h:76 says of kt_prio_queue_delete_key, given "the index of the
\* element to delete": "Deletes an element from the priority queue."
DeletesTheElement ==
    \A i \in 0..(Len(elems) - 1) :
        LET rest == DeleteKey(elems, i, Int32Min)
        IN  \A k \in 1..Len(rest) : rest[k].data # elems[i + 1].data

\* kt_queue.h:59 says of kt_prio_queue_getmin: "Returns the minimum timestamp
\* in the priority queue."
RootIsMinimum == \A x \in held : GetMin(elems) <= x.prio
=============================================================================
