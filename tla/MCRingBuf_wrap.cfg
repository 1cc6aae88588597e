\* The smallest ring on which a burst can run past the last cell.
CONSTANTS
    Size = 4
    Modulus = 8
    Cells = 6
    Producers = {p1}
    Consumers = {c1}
    Observers = {}
    Values = {1, 2}
    MaxPut = 1
    MaxTake = 2
    MaxPos = 5
    MaxCrashes = 0
SPECIFICATION Spec
INVARIANTS EntriesComeFromTheRing
