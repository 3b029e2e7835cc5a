\* Two bytes of two pages and one of two frames: a request may fail at the
\* virtual pool, or half way at the physical one.
CONSTANTS
    t1 = t1
    t2 = t2
    Thread = {t1, t2}
    ByteBits = 2
    mem_total_size = 9
    AddrPages = 16
    ReservedMem = 1
    KernelCap = 3
    BitmapGap = 8
    VBitmapLen = 2
    HeapStart = 4
    MaxCnt = 2
SPECIFICATION Spec
SYMMETRY ThreadSymmetry
INVARIANTS RegionsDisjoint PagesAccounted RegionsMapped FramesAccounted SearchIsFirstFit
