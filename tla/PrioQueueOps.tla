---------------------------- MODULE PrioQueueOps ----------------------------
(***************************************************************************)
(* src/kt_queue.c: the binary heap in which ktsnd keeps the packets that   *)
(* wait for their transmission time, as operators on the array of nodes.   *)
(* The array q->elems[0..size-1] is a sequence of length size; indices are *)
(* the program's, so element i of the array is e[i + 1].                   *)
(***************************************************************************)
EXTENDS Integers, Sequences

Prio(e, i) == e[i + 1].prio
Parent(i) == IF i = 0 THEN 0 ELSE (i - 1) \div 2
Left(i) == 2 * i + 1
Right(i) == 2 * i + 2

\* Mutant: *x = *y; *y = *x, the temporary forgotten.
SwapNoTemp(e, i, j) == [e EXCEPT ![i + 1] = e[j + 1]]

Swap(e, i, j) == [e EXCEPT ![i + 1] = e[j + 1], ![j + 1] = e[i + 1]]

IsEmpty(e) == Len(e) = 0
GetMin(e) == Prio(e, 0)

\* Mutant: an if where the shift up needs a while.
ReorderOnce(e, i) ==
    IF i > 0 /\ Prio(e, i) < Prio(e, Parent(i))
    THEN Swap(e, i, Parent(i))
    ELSE e

\* A round of the loop that shifts node h.i of the array h.e up.
ShiftUp(h) ==
    IF h.i > 0 /\ Prio(h.e, h.i) < Prio(h.e, Parent(h.i))
    THEN [e |-> Swap(h.e, h.i, Parent(h.i)), i |-> Parent(h.i)]
    ELSE h

\* The loop.  It ends within Len(e) rounds, and a round past its end changes
\* nothing.
Reorder(e, i) ==
    LET round[k \in 0..Len(e)] ==
            IF k = 0 THEN [e |-> e, i |-> i] ELSE ShiftUp(round[k - 1])
    IN  round[Len(e)].e

DecreaseKey(e, i, new_val) ==
    IF new_val > Prio(e, i) THEN e
    ELSE Reorder([e EXCEPT ![i + 1].prio = new_val], i)

\* INT64_MAX is no less than any key, so the first decrease always happens.
Insert(e, cap, prio, data) ==
    IF Len(e) = cap THEN e
    ELSE DecreaseKey(Append(e, [prio |-> prio, data |-> data]), Len(e), prio)

\* A call of the function that shifts node h.i down.  The second else of the
\* code sets min_idx back to i: the left child only serves as the bar that the
\* right child has to be below.
ShiftDown(h) ==
    LET below(c, m) == c < Len(h.e) /\ Prio(h.e, c) < Prio(h.e, m)
        leftOrSelf == IF below(Left(h.i), h.i) THEN Left(h.i) ELSE h.i
        min_idx == IF below(Right(h.i), leftOrSelf) THEN Right(h.i) ELSE h.i
    IN  IF min_idx # h.i
        THEN [e |-> Swap(h.e, h.i, min_idx), i |-> min_idx]
        ELSE h

\* Its tail recursion, of no more than Len(e) calls.
Heapify(e, i) ==
    LET call[k \in 0..Len(e)] ==
            IF k = 0 THEN [e |-> e, i |-> i] ELSE ShiftDown(call[k - 1])
    IN  call[Len(e)].e

\* Mutant: the last element takes the root's place and stays there.
ExtractNoHeapify(e) ==
    IF IsEmpty(e) THEN e
    ELSE SubSeq([e EXCEPT ![1] = e[Len(e)]], 1, Len(e) - 1)

\* The queue after kt_prio_queue_extract_min; what it hands out is Head(e).
ExtractMin(e) ==
    IF IsEmpty(e) THEN e
    ELSE Heapify(SubSeq([e EXCEPT ![1] = e[Len(e)]], 1, Len(e) - 1), 0)

DeleteKey(e, i, int32Min) == ExtractMin(DecreaseKey(e, i, int32Min))
=============================================================================
