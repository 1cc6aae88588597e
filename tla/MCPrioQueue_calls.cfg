\* Eight entries: the shift down can go two levels deep.  INT32_MIN is 1, so
\* that one of the keys is below it.
CONSTANTS
    Cap = 8
    Prios = {0, 2, 3}
    Data = {d1, d2, d3, d4, d5, d6, d7, d8, d9}
    Int32Min = 1
SPECIFICATION Spec
VIEW Keys
INVARIANTS KeepsEntries
PROPERTIES ShiftUpKeepsHeap ShiftDownDamage
