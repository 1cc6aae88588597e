CONSTANTS
    Senders = {a1, a2}
    Mortal = {a1, a2}
    MaySigint = TRUE
    RingSize = 4
    TxBurst = 2
    TxTimes = {2, 31}
    Half = 16
    Delta = 1
    PoolSize = 3
    Descs = 1
    RxDescs = 1
    MaxMsgs = 5
    MaxTime = 2
    None = None
SPECIFICATION Spec
SYMMETRY Threads
INVARIANTS SlotCount NothingOverflows OneOwner WireFaithful NotEarly NullOnlyByRefusals PathInv
PROPERTIES RefinesSlotPath
CHECK_DEADLOCK FALSE
