\* Two descriptors, two interfaces with up to two addresses between them, one
\* packet slot; the talker sends up to two messages and is refused once.
CONSTANTS
    MaxFd = 1
    Prios = {3}
    IfIndexes = {1, 2}
    Addrs = {1, 2}
    Nets <- Subnets
    MaxIfAddrs = 2
    NSlots = 1
    None = None
    Sec = 2
    StartTimes = {1}
    Interval = 1
    Delay = 1
    NMsgs = {0, 3}
    MsgSizes = {0, 1450, 1451}
    MaxRefused = 1
    MaxClock = 9
SPECIFICATION FairSpec
INVARIANTS SockInv TableFaithful RouteRight TalkerOrder
PROPERTIES TalkerEnds ListenerEnds
CHECK_DEADLOCK FALSE
