\* Two classes that two threads share.  A page fault halts the system.
CONSTANTS
    t1 = t1
    t2 = t2
    t3 = t3
    NULL = NULL
    Caller = {t1, t2}
    Class = {1, 2}
    blocks_per_arena <- MCBlocks
    Pages = 2
    MaxPages = 1
SPECIFICATION HeapSpec
INVARIANT ClassExclusion
CHECK_DEADLOCK FALSE
