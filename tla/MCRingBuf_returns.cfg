\* Single entries in and out, two processes on each side, of which one also
\* asks for the count and one may be killed.  Which value an entry has makes no
\* difference here.
CONSTANTS
    Size = 4
    Modulus = 4
    Cells = 5
    Producers = {p1, p2}
    Consumers = {c1, c2}
    Observers = {p2}
    Values = {1}
    MaxPut = 1
    MaxTake = 1
    MaxPos = 4
    MaxCrashes = 1
SPECIFICATION FairSpec
INVARIANTS CountSound
PROPERTIES CallsReturn
CHECK_DEADLOCK FALSE
