CONSTANTS
    t1 = t1
    t2 = t2
    NULL = NULL
    Thread = {t1, t2}
    Present = {0, 1}
    Sectors = 3
    Chunk = 2
    MaxCnt = 3
    MaxCalls = 2
SPECIFICATION FairSpec
INVARIANTS TransferExact ChannelAtRest
CHECK_DEADLOCK FALSE
PROPERTY ChannelReleased
