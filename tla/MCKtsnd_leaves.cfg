CONSTANTS
    Senders = {a1}
    Mortal = {}
    MaySigint = TRUE
    RingSize = 4
    TxBurst = 2
    TxTimes = {1, 3, 16}
    Half = 16
    Delta = 1
    PoolSize = 3
    Descs = 1
    RxDescs = 1
    MaxMsgs = 4
    MaxTime = 3
    None = None
SPECIFICATION FairSpec
PROPERTIES EveryPacketLeaves
CHECK_DEADLOCK FALSE
