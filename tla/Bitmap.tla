-------------------------------- MODULE Bitmap --------------------------------
(***************************************************************************)
(* kernel/src/bitmap.c: the bit array behind every pool of pages, frames,   *)
(* disk blocks and inodes.  A bitmap of len bytes is the set of its used    *)
(* bit indices.                                                             *)
(***************************************************************************)
EXTENDS Integers, FiniteSets, FiniteSetsExt

CONSTANT ByteBits \* 8 in the code

ASSUME ByteAssumption == ByteBits \in Nat \ {0}

bitmap_check(used, idx) == idx \in used
bitmap_set(used, idx, value) == IF value THEN used \cup {idx} ELSE used \ {idx}

\* The bits of a byte.
ByteOf(b) == b * ByteBits..(b * ByteBits + ByteBits - 1)

\* Steps 1 and 2 of bitmap_acquire: skip the bytes that are 0xff, then the set
\* bits of the first that is not.  -1 when there is none.
FirstFree(used, len) ==
    LET open == {b \in 0..(len - 1) : ~(ByteOf(b) \subseteq used)}
    IN  IF open = {} THEN -1 ELSE Min(ByteOf(Min(open)) \ used)

MutFirstRun(used, len, cnt) ==
    LET first == FirstFree(used, len)
        free_cnt[i \in Nat] ==
            IF i <= first THEN 1
            ELSE IF bitmap_check(used, i) THEN free_cnt[i - 1]
            ELSE free_cnt[i - 1] + 1
        hits == {i \in (first + 1)..(len * ByteBits - 1) : free_cnt[i] = cnt}
    IN  IF hits = {} THEN -1 ELSE Min(hits) - cnt + 1

\* Step B: go on from the first free bit, counting the free bits in a row and
\* starting over at a used one, until the count is cnt.
FirstRun(used, len, cnt) ==
    LET first == FirstFree(used, len)
        free_cnt[i \in Nat] ==
            IF i <= first THEN 1
            ELSE IF bitmap_check(used, i) THEN 0
            ELSE free_cnt[i - 1] + 1
        hits == {i \in (first + 1)..(len * ByteBits - 1) : free_cnt[i] = cnt}
    IN  IF hits = {} THEN -1 ELSE Min(hits) - cnt + 1

\* bitmap_acquire: the index it returns, and the bitmap it leaves.
AcquireIdx(used, len, cnt) ==
    IF FirstFree(used, len) = -1 THEN -1
    ELSE IF cnt = 1 THEN FirstFree(used, len)
    ELSE FirstRun(used, len, cnt)
AcquireBits(used, len, cnt) ==
    LET idx == AcquireIdx(used, len, cnt)
    IN  IF idx = -1 THEN used ELSE used \cup idx..(idx + cnt - 1)

MutReleaseOneMore(used, idx, cnt) == used \ (idx..(idx + cnt))

\* The assertion bitmap_release makes of each bit, and the bitmap it leaves.
ReleaseOK(used, idx, cnt) == idx..(idx + cnt - 1) \subseteq used
ReleaseBits(used, idx, cnt) == used \ (idx..(idx + cnt - 1))

-----------------------------------------------------------------------------
\* What a first-fit allocator returns: the least start of cnt free bits.
FirstFit(used, len, cnt) ==
    LET fits == {s \in 0..(len * ByteBits - cnt) : used \cap s..(s + cnt - 1) = {}}
    IN  IF fits = {} THEN -1 ELSE Min(fits)
=============================================================================
