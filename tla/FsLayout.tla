------------------------------- MODULE FsLayout -------------------------------
(***************************************************************************)
(* The super block fs_format of kernel/src/fs.c computes for a partition of *)
(* n sectors, and the block bitmap it writes.  Sectors are counted from the *)
(* start of the partition.  The sizes of a sector and a block are           *)
(* parameters, for small ones to meet every boundary.                       *)
(***************************************************************************)
EXTENDS Integers

CONSTANTS
    SectorSize,  \* bytes of a sector, 512
    SecPerBlock, \* sectors of a data block, 8
    InodePerSec, \* on-disk inodes in a sector, 8
    Word         \* 2^32

ASSUME LayoutAssumption ==
    /\ SectorSize \in Nat \ {0} /\ SecPerBlock \in Nat \ {0}
    /\ InodePerSec \in Nat \ {0} /\ Word \in Nat \ {0}

DivRoundUp(x, step) == (x + step - 1) \div step

SectorBits == SectorSize * 8
BlockSize == SectorSize * SecPerBlock

inode_cnt == SectorBits
inode_btmp_lba == 2
inode_btmp_sec == 1
inode_table_lba == inode_btmp_lba + 1
inode_table_sec == inode_cnt \div InodePerSec
used_sec == 2 + inode_btmp_sec + inode_table_sec
free_sec(n) == (n - used_sec) % Word
blk_btmp_lba == inode_table_lba + inode_table_sec

\* Blocks that fit in so many sectors: the product is a uint32_t.
BlocksIn(secs) == ((secs * SectorSize) % Word) \div BlockSize

MutBtmpSec(n) == BlocksIn(free_sec(n)) \div SectorBits
\* From the number of blocks there would be without a bitmap.
blk_btmp_sec(n) == DivRoundUp(BlocksIn(free_sec(n)), SectorBits)

MutBlkCnt(n) == BlocksIn(free_sec(n))
blk_cnt(n) == BlocksIn(free_sec(n) - blk_btmp_sec(n))
blk_lba(n) == blk_btmp_lba + blk_btmp_sec(n)

\* The bits of a run of bytes.
BitsOf(byte, cnt) == byte * 8..(byte + cnt) * 8 - 1
\* The bits of buf, which has the size of the block bitmap.
BufferBits(n) == BitsOf(0, blk_btmp_sec(n) * SectorSize)

\* The byte of the boundary, the memset to the end of its sector, and the loop
\* that re-clears the bits of its real blocks.
last_byte(n) == blk_cnt(n) \div 8
last_bit(n) == blk_cnt(n) % 8

MutLastSize(n) == SectorSize - (last_byte(n) % SectorSize) - 1
last_size(n) == SectorSize - (last_byte(n) % SectorSize)
BlockBits(n) ==
    ({0} \cup BitsOf(last_byte(n), last_size(n))) \ {last_byte(n) * 8 + idx : idx \in 0..last_bit(n)}

-----------------------------------------------------------------------------
\* The sizes for which the arithmetic of fs_format is exact: there is room for
\* a block and a sector of bitmap, and no product overflows.
Usable(n) == n >= used_sec + SecPerBlock + 1 /\ n * SectorSize < Word

\* The areas of fs.c:130-148 follow one another inside the partition, with at
\* least the root directory's block: the bitmap's length, computed before its
\* own sectors are set aside, leaves no overlap and covers every block.  The
\* temporary buffer, which has its size, holds the inode bitmap too (fs.c:159).
LayoutSound(n) ==
    /\ blk_cnt(n) >= 1
    /\ blk_lba(n) + blk_cnt(n) * SecPerBlock <= n
    /\ blk_cnt(n) <= blk_btmp_sec(n) * SectorBits
    /\ inode_btmp_sec <= blk_btmp_sec(n)

\* What the bitmap marks as free, and the marks that miss the buffer.
TailMarked(n) ==
    LET \* the byte after the sector that the last block's bit is in
        end == (blk_cnt(n) \div SectorBits + 1) * SectorSize
        first == IF blk_cnt(n) < 8 THEN 0 ELSE 1
    IN  /\ BufferBits(n) \ BlockBits(n) =
              {b \in BufferBits(n) : b \in first..blk_cnt(n) \/ b >= end * 8}
        /\ BlockBits(n) \ BufferBits(n) =
              IF blk_cnt(n) < blk_btmp_sec(n) * SectorBits THEN {}
              ELSE BitsOf(blk_btmp_sec(n) * SectorSize, SectorSize) \ {blk_cnt(n)}
=============================================================================
