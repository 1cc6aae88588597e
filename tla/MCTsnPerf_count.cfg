\* A talker asked for three messages, with one descriptor; no fairness.
CONSTANTS
    MaxFd = 0
    Prios = {3}
    IfIndexes = {1, 2}
    Addrs = {1, 2}
    Nets <- Subnets
    MaxIfAddrs = 2
    NSlots = 1
    None = None
    Sec = 2
    StartTimes = {1}
    Interval = 1
    Delay = 1
    NMsgs = {3}
    MsgSizes = {1450}
    MaxRefused = 1
    MaxClock = 9
SPECIFICATION Spec
INVARIANTS TalkerSendsAll
CHECK_DEADLOCK FALSE
