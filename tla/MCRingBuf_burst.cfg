\* One value per producer call, bursts of up to two out, two processes on each
\* side: the shape of tx_ring and of free_ring.  The u32 counters wrap with the
\* ring, after 4 entries.  Values are interchangeable: they are only copied.
CONSTANTS
    Size = 4
    Modulus = 4
    Cells = 6
    Producers = {p1, p2}
    Consumers = {c1, c2}
    Observers = {}
    Values = {v1, v2}
    MaxPut = 1
    MaxTake = 2
    MaxPos = 4
    MaxCrashes = 0
SPECIFICATION Spec
SYMMETRY RolesAndValues
INVARIANTS RingOrder ExclusiveCells DeliveredInOrder SpinHasHolder ClaimInv DataInv
PROPERTIES PublishedStable FifoUntilCrossed
CHECK_DEADLOCK FALSE
