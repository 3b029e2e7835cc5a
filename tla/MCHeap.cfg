\* One class, which three threads share, and allocations of up to two pages.
\* A page fault halts the system.
CONSTANTS
    t1 = t1
    t2 = t2
    t3 = t3
    NULL = NULL
    Caller = {t1, t2, t3}
    Class = {1}
    blocks_per_arena <- MCBlocks
    Pages = 3
    MaxPages = 2
SPECIFICATION HeapSpec
INVARIANTS BlocksAccounted ArenaCount
CHECK_DEADLOCK FALSE
