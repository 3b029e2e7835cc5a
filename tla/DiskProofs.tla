------------------------------ MODULE DiskProofs ------------------------------
(***************************************************************************)
(* What fs_format computes is sound, and marks what it should in the block  *)
(* bitmap, for every usable size of partition and every size of sector and  *)
(* block.  The scan of the partition tables follows every table that a      *)
(* partitioning tool leaves and gives every partition a name of its own.    *)
(* Inode numbers, the state of the disk and the root directory are as they  *)
(* should be for any drives and tables, a directory of any size, and any    *)
(* order of mounts, unmounts, formats and restarts.  Under it all, the      *)
(* driver of the channel moves the sectors it addresses as long as the       *)
(* drive keeps up, and hands the channel on at rest until a command has      *)
(* several sectors, whatever threads share it.                              *)
(***************************************************************************)
EXTENDS FileSystem, IdeChannel, SequenceTheorems, FiniteSetTheorems, WellFoundedInduction, TLAPS

-----------------------------------------------------------------------------
(* The layout.                                                             *)

\* Division by a positive number, as an inequality on both sides.
LEMMA DivBounds ==
    ASSUME NEW x \in Nat, NEW d \in Nat \ {0}
    PROVE  /\ x \div d \in Nat
           /\ d * (x \div d) <= x
           /\ x < d * (x \div d) + d
<1> DEFINE q == x \div d
<1>1. q \in Int /\ x = d * q + (x % d) /\ x % d \in 0..(d - 1)
  BY SMT
<1>2. q >= 0
  BY SMT
<1> QED
  BY <1>1, <1>2, SMT

LEMMA Constants ==
    /\ SectorBits \in Nat \ {0} /\ BlockSize \in Nat \ {0} /\ SecPerBlock \in Nat \ {0}
    /\ inode_table_sec \in Nat /\ used_sec \in Nat
<1>1. SectorBits \in Nat \ {0} /\ SecPerBlock \in Nat \ {0}
  BY LayoutAssumption DEF SectorBits
<1>2. BlockSize \in Nat \ {0}
  BY LayoutAssumption, SMT DEF BlockSize
<1>3. inode_table_sec \in Nat
  BY <1>1, LayoutAssumption, DivBounds DEF inode_table_sec, inode_cnt
<1> QED
  BY <1>1, <1>2, <1>3 DEF used_sec, inode_btmp_sec

\* When the product does not overflow, BlocksIn is the number of whole blocks.
LEMMA BlocksInBounds ==
    ASSUME NEW s \in Nat, s * SectorSize < Word
    PROVE  /\ BlocksIn(s) \in Nat
           /\ BlocksIn(s) * SecPerBlock <= s
           /\ s < BlocksIn(s) * SecPerBlock + SecPerBlock
<1> DEFINE q == BlocksIn(s)
<1>1. s * SectorSize \in Nat /\ (s * SectorSize) % Word = s * SectorSize
  BY LayoutAssumption, SMT
<1>2. q = (s * SectorSize) \div BlockSize
  BY <1>1 DEF BlocksIn
<1>3. q \in Nat /\ BlockSize * q <= s * SectorSize /\ s * SectorSize < BlockSize * q + BlockSize
  BY <1>1, <1>2, Constants, DivBounds
<1>4. BlockSize * q = (q * SecPerBlock) * SectorSize /\ BlockSize = SecPerBlock * SectorSize
  BY <1>3, LayoutAssumption, SMT DEF BlockSize
<1> DEFINE r == q * SecPerBlock
<1>5. r \in Nat
  BY <1>3, LayoutAssumption, SMT
<1>6. r * SectorSize <= s * SectorSize /\ s * SectorSize < (r + SecPerBlock) * SectorSize
  BY <1>3, <1>4, <1>5, LayoutAssumption, SMT
<1> HIDE DEF r
<1>7. r <= s
  BY <1>5, <1>6, LayoutAssumption, SMT
<1>8. s < r + SecPerBlock
  BY <1>5, <1>6, LayoutAssumption, SMT
<1> QED
  BY <1>3, <1>7, <1>8 DEF r

\* Rounding up covers, without a step too many.
LEMMA DivRoundUpBounds ==
    ASSUME NEW x \in Nat, NEW d \in Nat \ {0}
    PROVE  /\ DivRoundUp(x, d) \in Nat
           /\ x <= DivRoundUp(x, d) * d
           /\ x > 0 => DivRoundUp(x, d) > 0
           /\ DivRoundUp(x, d) <= x
<1> DEFINE q == DivRoundUp(x, d)
<1>1. x + d - 1 \in Nat /\ q = (x + d - 1) \div d
  BY DEF DivRoundUp
<1>2. q \in Nat /\ d * q <= x + d - 1 /\ x + d - 1 < d * q + d
  BY <1>1, DivBounds
<1>3. x <= q * d
  BY <1>2, SMT
<1>4. x > 0 => q > 0
  BY <1>2, <1>3, SMT
<1> HIDE DEF q
<1>5. ASSUME q > x PROVE FALSE
  <2>1. d * q >= d * (x + 1)
    BY <1>2, <1>5, SMT
  <2>2. d * (x + 1) >= x + d
    BY SMT
  <2> QED
    BY <1>2, <2>1, <2>2, SMT
<1> QED
  BY <1>2, <1>3, <1>4, <1>5 DEF q

\* Of more than one, rounding up leaves fewer, when the step is more than one.
LEMMA RoundUpShrinks ==
    ASSUME NEW x \in Nat, x > 1, NEW d \in Nat, d > 1
    PROVE  DivRoundUp(x, d) <= x - 1
<1> DEFINE q == DivRoundUp(x, d)
<1>1. x + d - 1 \in Nat /\ q = (x + d - 1) \div d /\ d \in Nat \ {0}
  BY DEF DivRoundUp
<1>2. q \in Nat /\ d * q <= x + d - 1
  BY <1>1, DivBounds
<1> HIDE DEF q
<1>3. ASSUME q >= x PROVE FALSE
  <2>1. d * q >= d * x
    BY <1>2, <1>3, SMT
  <2>2. (d - 1) * (x - 1) > 0 /\ (d - 1) * (x - 1) = d * x - x - d + 1
    BY SMT
  <2> QED
    BY <1>2, <2>1, <2>2, SMT
<1> QED
  BY <1>2, <1>3 DEF q

LEMMA ByteOfBits == SectorBits > 1
BY LayoutAssumption DEF SectorBits

\* Sizes and the areas they leave, of which EveryLayoutSound speaks.
LEMMA LayoutFacts ==
    ASSUME NEW n \in Nat, Usable(n)
    PROVE  blk_cnt(n) \in Nat /\ blk_btmp_sec(n) \in Nat /\ LayoutSound(n)
<1> DEFINE free == n - used_sec
           all == BlocksIn(free)
           b == blk_btmp_sec(n)
           k == blk_cnt(n)
<1>1. free \in Nat /\ free > SecPerBlock /\ n * SectorSize < Word
  BY Constants DEF Usable
<1>2. free * SectorSize < Word /\ free < Word
  <2>1. n \in Nat /\ free <= n /\ SectorSize \in Nat \ {0} /\ Word \in Nat
    BY Constants, LayoutAssumption
  <2> HIDE DEF free
  <2>2. free * SectorSize <= n * SectorSize /\ free <= free * SectorSize
    BY <1>1, <2>1, SMT
  <2>3. free * SectorSize \in Nat /\ n * SectorSize \in Nat
    BY <1>1, <2>1, SMT
  <2> QED BY <1>1, <2>1, <2>2, <2>3
<1>3. free_sec(n) = free
  BY <1>1, <1>2, LayoutAssumption, SMT DEF free_sec
<1>4. all \in Nat /\ all * SecPerBlock <= free /\ free < all * SecPerBlock + SecPerBlock
  BY <1>1, <1>2, BlocksInBounds
<1>5. b = DivRoundUp(all, SectorBits)
  BY <1>3 DEF blk_btmp_sec
<1>6. all > 0
  BY <1>1, <1>4, Constants, SMT
<1>7. b \in Nat /\ all <= b * SectorBits /\ b > 0 /\ b <= all
  BY <1>4, <1>5, <1>6, Constants, DivRoundUpBounds
<1>8. all * SecPerBlock >= all
  <2>1. all \in Nat /\ SecPerBlock \in Nat \ {0}
    BY <1>4, Constants
  <2> HIDE DEF all
  <2> QED BY <2>1, SMT
<1>9. free - b \in Nat /\ (free - b) * SectorSize < Word
  BY <1>1, <1>2, <1>4, <1>7, <1>8, LayoutAssumption, SMT
<1>10. k = BlocksIn(free - b)
  BY <1>3 DEF blk_cnt
<1>11. k \in Nat /\ k * SecPerBlock <= free - b /\ free - b < k * SecPerBlock + SecPerBlock
  BY <1>9, <1>10, BlocksInBounds
<1>12. k <= all
  <2>1. k * SecPerBlock <= free
    BY <1>1, <1>7, <1>11, Constants, SMT
  <2>2. k * SecPerBlock < (all + 1) * SecPerBlock
    BY <1>1, <1>4, <1>11, <2>1, Constants, SMT
  <2> QED
    BY <1>4, <1>11, <2>2, Constants, SMT
<1>13. k >= 1
  <2>1. free - b >= SecPerBlock
    <3>1. CASE all = 1
      BY <1>1, <1>7, <3>1, Constants, SMT
    <3>2. CASE all > 1
      <4>1. b <= all - 1
        BY <1>4, <1>5, <3>2, Constants, ByteOfBits, RoundUpShrinks
      <4>2. all * SecPerBlock = (all - 1) * SecPerBlock + SecPerBlock
        BY <1>4, Constants, SMT
      <4>3. (all - 1) * SecPerBlock >= all - 1
        BY <1>4, <3>2, Constants, SMT
      <4> QED
        BY <1>1, <1>4, <1>7, <4>1, <4>2, <4>3, Constants, SMT
    <3> QED
      BY <1>4, <1>6, <3>1, <3>2
  <2>2. ASSUME k = 0 PROVE FALSE
    <3>1. k * SecPerBlock + SecPerBlock = SecPerBlock
      BY <2>2, Constants, SMT
    <3> QED
      BY <1>9, <1>11, <2>1, <3>1, Constants, SMT
  <2> QED
    BY <1>11, <2>2
<1>14. blk_lba(n) + k * SecPerBlock <= n
  BY <1>7, <1>11, <1>1, Constants DEF blk_lba, blk_btmp_lba, inode_table_lba, inode_btmp_lba,
     used_sec, inode_btmp_sec
<1>15. k <= b * SectorBits /\ inode_btmp_sec <= b
  BY <1>4, <1>7, <1>11, <1>12, Constants, SMT DEF inode_btmp_sec
<1> QED
  BY <1>7, <1>11, <1>13, <1>14, <1>15 DEF LayoutSound

\* fs.c:130-148: the bitmap's length is computed from too many blocks, the
\* number of blocks from what the bitmap leaves, so the last block ends inside
\* the partition and has a bit, at every usable size.
THEOREM EveryLayoutSound ==
    ASSUME NEW n \in Nat, Usable(n)
    PROVE  LayoutSound(n)
BY LayoutFacts

\* A quotient is known by its bounds.
LEMMA DivUnique ==
    ASSUME NEW x \in Nat, NEW d \in Nat \ {0}, NEW q \in Nat, d * q <= x, x < d * q + d
    PROVE  x \div d = q
<1> DEFINE r == x \div d
<1>1. r \in Nat /\ d * r <= x /\ x < d * r + d
  BY DivBounds
<1> HIDE DEF r
<1>2. d * (r + 1) > d * q /\ d * (q + 1) > d * r
  BY <1>1, SMT
<1>3. r + 1 > q /\ q + 1 > r
  BY <1>1, <1>2, SMT
<1> QED BY <1>1, <1>3 DEF r

-----------------------------------------------------------------------------
(* The bitmap of the blocks.                                               *)

\* The byte and the bit of the boundary are the number of blocks, and the
\* memset ends with the sector the boundary is in.
LEMMA Boundary ==
    ASSUME NEW n \in Nat, Usable(n)
    PROVE  LET k == blk_cnt(n)
               end == (k \div SectorBits + 1) * SectorSize
           IN  /\ k \in Nat /\ end \in Nat
               /\ last_byte(n) \in Nat /\ last_bit(n) \in 0..7
               /\ last_byte(n) * 8 + last_bit(n) = k
               /\ last_byte(n) + last_size(n) = end
               /\ k < end * 8
<1> DEFINE k == blk_cnt(n)
           b == k \div 8
           q == b \div SectorSize
           end == (k \div SectorBits + 1) * SectorSize
<1>1. k \in Nat
  BY LayoutFacts
<1> HIDE DEF k
<1>2. b \in Nat /\ k % 8 \in 0..7 /\ b * 8 + (k % 8) = k
  BY <1>1, SMT
<1>3. SectorSize \in Nat \ {0} /\ SectorBits = SectorSize * 8
  BY LayoutAssumption DEF SectorBits
<1> HIDE DEF b
<1>4. q \in Nat /\ SectorSize * q <= b /\ b < SectorSize * q + SectorSize
  BY <1>2, <1>3, DivBounds
<1>5. b % SectorSize = b - SectorSize * q
  BY <1>2, <1>3, SMT
<1> HIDE DEF q
<1>6. k \div SectorBits = q
  <2> DEFINE m == SectorSize * q
  <2>1. m \in Nat /\ m <= b /\ b < m + SectorSize
    BY <1>2, <1>3, <1>4
  <2>2. m * 8 <= k /\ k < m * 8 + SectorSize * 8
    BY <1>1, <1>2, <1>3, <2>1
  <2>3. m * 8 = SectorBits * q
    BY <1>3, <1>4, SMT
  <2> HIDE DEF m
  <2>4. SectorBits * q <= k /\ k < SectorBits * q + SectorBits /\ SectorBits \in Nat \ {0}
    BY <1>3, <2>2, <2>3, Constants
  <2> HIDE DEF SectorBits
  <2> QED BY <1>1, <1>4, <2>4, DivUnique
<1>7. end = SectorSize * q + SectorSize
  BY <1>3, <1>4, <1>6, SMT
<1> DEFINE m == SectorSize * q
<1>8. m \in Nat
  BY <1>3, <1>4
<1> HIDE DEF m, end
<1>9. end \in Nat /\ b + (SectorSize - (b - m)) = end /\ k < end * 8
  BY <1>1, <1>2, <1>3, <1>4, <1>7, <1>8 DEF m
<1>10. last_byte(n) = b /\ last_bit(n) = k % 8 /\ last_size(n) = SectorSize - (b - m)
  BY <1>5 DEF last_byte, last_bit, last_size, b, k, m
<1> QED BY <1>1, <1>2, <1>9, <1>10 DEF end, k

\* What fs_format leaves in the bitmap, at every usable size.
LEMMA EveryBitmapTail ==
    ASSUME NEW n \in Nat, Usable(n)
    PROVE  TailMarked(n)
<1> DEFINE k == blk_cnt(n)
           end == (k \div SectorBits + 1) * SectorSize
           lb == last_byte(n)
           bit == last_bit(n)
           b == blk_btmp_sec(n)
           first == IF k < 8 THEN 0 ELSE 1
<1>1. /\ k \in Nat /\ end \in Nat /\ lb \in Nat /\ bit \in 0..7
      /\ lb * 8 + bit = k /\ lb + last_size(n) = end /\ k < end * 8
  BY Boundary
<1>2. BitsOf(lb, last_size(n)) = (lb * 8)..(end * 8 - 1)
  BY <1>1 DEF BitsOf
<1>3. {lb * 8 + idx : idx \in 0..bit} = (lb * 8)..k
  <2>1. ASSUME NEW x \in (lb * 8)..k PROVE x - lb * 8 \in 0..bit /\ x = lb * 8 + (x - lb * 8)
    <3> PICK m \in Nat : m = lb * 8
      BY <1>1
    <3> HIDE DEF lb, bit, k
    <3>1. x \in m..k /\ m + bit = k /\ k \in Nat /\ bit \in Nat
      BY <1>1
    <3>2. x - m \in 0..bit /\ x = m + (x - m)
      BY <3>1
    <3> QED BY <3>2
  <2>2. \A idx \in 0..bit : lb * 8 + idx \in (lb * 8)..k
    BY <1>1
  <2> QED BY <2>1, <2>2
<1>4. BlockBits(n) = ({0} \cup ((lb * 8)..(end * 8 - 1))) \ ((lb * 8)..k)
  BY <1>2, <1>3 DEF BlockBits
<1>5. b \in Nat /\ b >= 1 /\ k <= b * SectorBits
  BY LayoutFacts DEF LayoutSound, inode_btmp_sec
<1>6. lb = 0 <=> k < 8
  BY <1>1
<1> DEFINE s == b * SectorSize
<1>7. s \in Nat /\ s >= 1 /\ k <= s * 8 /\ BufferBits(n) = 0..(s * 8 - 1)
  <2>1. SectorSize \in Nat \ {0}
    BY LayoutAssumption
  <2> HIDE DEF b, k
  <2>2. s \in Nat /\ s >= 1 /\ b * SectorBits = s * 8
    BY <1>5, <2>1, SMT DEF SectorBits
  <2>3. BufferBits(n) = BitsOf(0, s)
    BY DEF BufferBits, b
  <2> HIDE DEF s
  <2>4. BitsOf(0, s) = 0..(s * 8 - 1)
    BY <2>2 DEF BitsOf
  <2> QED BY <1>5, <2>2, <2>3, <2>4
<1>8. k < s * 8 => end <= s
  <2> SUFFICES ASSUME k < s * 8 PROVE end <= s
    OBVIOUS
  <2>1. SectorSize \in Nat \ {0} /\ SectorBits \in Nat \ {0} /\ SectorBits = SectorSize * 8
    BY LayoutAssumption, Constants DEF SectorBits
  <2> DEFINE q == k \div SectorBits
  <2>2. q \in Nat /\ SectorBits * q <= k
    BY <1>1, <2>1, DivBounds
  <2> HIDE DEF b, k, q
  <2>3. SectorBits * q < SectorBits * b
    BY <1>1, <1>5, <2>1, <2>2, SMT
  <2>4. q < b
    BY <1>5, <2>1, <2>2, <2>3, SMT
  <2>5. (q + 1) * SectorSize <= b * SectorSize
    BY <1>5, <2>1, <2>2, <2>4, SMT
  <2> QED BY <2>5 DEF q
<1>9. k = s * 8 => end = s + SectorSize
  <2> SUFFICES ASSUME k = s * 8 PROVE end = s + SectorSize
    OBVIOUS
  <2>1. SectorSize \in Nat \ {0} /\ SectorBits \in Nat \ {0}
    BY LayoutAssumption, Constants
  <2> HIDE DEF b, k
  <2>2. k = SectorBits * b
    BY <1>5, <2>1, SMT DEF SectorBits
  <2>3. SectorBits * b <= k /\ k < SectorBits * b + SectorBits
    BY <1>1, <2>1, <2>2
  <2>4. k \div SectorBits = b
    BY <1>1, <1>5, <2>1, <2>3, DivUnique
  <2> QED BY <1>5, <2>1, <2>4, SMT
<1> HIDE DEF end, s, lb, bit, k
<1>10. BufferBits(n) \ BlockBits(n) = {x \in BufferBits(n) : x \in first..k \/ x >= end * 8}
  BY <1>1, <1>4, <1>6, <1>7
<1>11. BlockBits(n) \ BufferBits(n) =
           IF k < s * 8 THEN {} ELSE (s * 8..((s + SectorSize) * 8 - 1)) \ {k}
  <2>1. CASE k < s * 8
    BY <1>1, <1>4, <1>7, <1>8, <2>1
  <2>2. CASE k = s * 8
    <3>1. SectorSize \in Nat
      BY LayoutAssumption
    <3> QED BY <1>1, <1>4, <1>7, <1>9, <2>2, <3>1
  <2> QED BY <1>1, <1>7, <2>1, <2>2
<1>12. b * SectorBits = s * 8 /\ BitsOf(s, SectorSize) = s * 8..((s + SectorSize) * 8 - 1)
  <2>1. b * SectorBits = s * 8
    BY <1>5, LayoutAssumption, SMT DEF SectorBits, s
  <2> QED BY <2>1 DEF BitsOf
<1> QED BY <1>10, <1>11, <1>12 DEF TailMarked, end, k, s


-----------------------------------------------------------------------------
(* The inode numbers.                                                      *)

\* fs_init goes through ptn_list, which nothing changes after the scan, and
\* gives every partition of it a base.
ListIsSeq == ptn_list \in Seq(Ptn)
BasesOfList ==
    /\ started => ScanDone /\ DOMAIN inode_base = Ptn
    /\ ~started => mounted = {}
    /\ unread \in Seq(DOMAIN inode_base)

\* The partitions that have had a base have ranges apart, which end at inode_max
\* at the latest; a base outlives an unmount.
BasesApart ==
    /\ inode_max \in Nat
    /\ inode_base \in [DOMAIN inode_base -> Nat]
    /\ mounted \subseteq {p \in DOMAIN inode_base : inode_base[p] # 0}
    /\ \A p \in DOMAIN inode_base : inode_base[p] # 0 => inode_base[p] + inode_cnt <= inode_max + 1
    /\ \A p, q \in DOMAIN inode_base : p # q /\ inode_base[p] # 0 /\ inode_base[q] # 0 =>
          inode_base[p] + inode_cnt <= inode_base[q] \/ inode_base[q] + inode_cnt <= inode_base[p]
InodeInv == ListIsSeq /\ BasesOfList /\ BasesApart

LEMMA InodeCount == inode_cnt \in Nat \ {0}
BY LayoutAssumption DEF inode_cnt, SectorBits

LEMMA InodeImplied == InodeInv => InodeNumbersDisjoint
<1> SUFFICES ASSUME InodeInv PROVE InodeNumbersDisjoint
  OBVIOUS
<1>1. \A p \in mounted : inode_base[p] \in Nat \ {0}
  BY DEF InodeInv, BasesApart
<1>2. \A p \in mounted : 0 \notin inode_base[p]..(inode_base[p] + inode_cnt - 1)
  BY <1>1, InodeCount
<1>3. ASSUME NEW p \in mounted, NEW q \in mounted, p # q
      PROVE  (inode_base[p]..(inode_base[p] + inode_cnt - 1))
                 \cap (inode_base[q]..(inode_base[q] + inode_cnt - 1)) = {}
  <2>1. inode_base[p] + inode_cnt <= inode_base[q] \/ inode_base[q] + inode_cnt <= inode_base[p]
    BY <1>3 DEF InodeInv, BasesApart
  <2> QED BY <1>1, <2>1, InodeCount
<1> QED BY <1>2, <1>3 DEF InodeNumbersDisjoint

LEMMA InodeInit == Init => InodeInv
BY DEF Init, ScanInit, InodeInv, ListIsSeq, BasesOfList, BasesApart, Ptn, Range

\* A partition of the list gets numbers above all others, or keeps its own.
LEMMA AssignKeepsApart ==
    ASSUME BasesApart, NEW p \in DOMAIN inode_base, AssignBase(p),
           mounted' \subseteq mounted \cup {p}
    PROVE  BasesApart' /\ DOMAIN inode_base' = DOMAIN inode_base
<1> USE InodeCount
<1>1. CASE inode_base[p] = 0
  <2>1. inode_base' = [inode_base EXCEPT ![p] = inode_max + 1] /\ inode_max' = inode_max + inode_cnt
    BY <1>1 DEF AssignBase
  <2>2. DOMAIN inode_base' = DOMAIN inode_base /\ inode_base'[p] = inode_max + 1
        /\ \A q \in DOMAIN inode_base \ {p} : inode_base'[q] = inode_base[q]
    BY <2>1
  <2> QED BY <2>1, <2>2 DEF BasesApart
<1>2. CASE inode_base[p] # 0
  BY <1>2 DEF AssignBase, BasesApart
<1> QED BY <1>1, <1>2

LEMMA MountKeepsApart ==
    ASSUME BasesApart, NEW p \in DOMAIN inode_base, Mount(p)
    PROVE  BasesApart' /\ DOMAIN inode_base' = DOMAIN inode_base
<1>1. AssignBase(p) /\ mounted' \subseteq mounted \cup {p}
  BY DEF Mount
<1> QED BY <1>1, AssignKeepsApart

\* The scan only appends to the list, and has ended when fs_init begins.
LEMMA ScanKeeps ==
    ASSUME InodeInv, Scan, UNCHANGED <<bootvars, ramvars>>
    PROVE  InodeInv'
<1>1. ~ScanDone
  BY DrivesAssumption DEF Scan, ide_ch_init, SkipUnused, EnterExtended, Record, EndOfTable,
                          AtEntry, ScanDone
<1>2. ListIsSeq'
  <2>1. CASE ptn_list' = ptn_list
    BY <2>1 DEF InodeInv, ListIsSeq, Ptn
  <2>2. ASSUME NEW e, ptn_list' = Append(ptn_list, e)
        PROVE  ListIsSeq'
    <3>1. ptn_list \in Seq(Ptn \cup {e})
      BY SeqMonotonic DEF InodeInv, ListIsSeq
    <3>2. /\ Len(ptn_list) \in Nat /\ DOMAIN ptn_list = 1..Len(ptn_list)
          /\ DOMAIN ptn_list' = 1..(Len(ptn_list) + 1)
          /\ ptn_list'[Len(ptn_list) + 1] = e
          /\ \A i \in 1..Len(ptn_list) : ptn_list'[i] = ptn_list[i]
      BY <2>2, <3>1, LenProperties
    <3>3. Ptn' = Ptn \cup {e}
      BY <3>2 DEF Ptn, Range
    <3> QED BY <2>2, <3>1, <3>3 DEF ListIsSeq
  <2> QED BY <2>1, <2>2 DEF Scan, ide_ch_init, SkipUnused, EnterExtended, Record, EndOfTable
<1>3. BasesOfList' /\ BasesApart'
  BY <1>1 DEF InodeInv, BasesOfList, BasesApart, bootvars, ramvars
<1> QED BY <1>2, <1>3 DEF InodeInv

\* root_dir_init, the rounds of fs_init, and what follows them.
LEMMA RootKeeps == InodeInv /\ root_dir_init => InodeInv'
<1> SUFFICES ASSUME InodeInv, root_dir_init PROVE InodeInv'
  OBVIOUS
<1>1. /\ ScanDone /\ ~started /\ started' = TRUE /\ unread' = ptn_list
      /\ inode_base' = [p \in Ptn |-> 0]
      /\ UNCHANGED <<scanvars, inode_max, mounted>>
  BY DEF root_dir_init
<1>2. ListIsSeq' /\ Ptn' = Ptn
  BY <1>1 DEF InodeInv, ListIsSeq, Ptn, scanvars
<1>3. BasesOfList'
  BY <1>1, <1>2 DEF InodeInv, ListIsSeq, BasesOfList, ScanDone, scanvars
<1>4. BasesApart'
  BY <1>1 DEF InodeInv, BasesOfList, BasesApart
<1> QED BY <1>2, <1>3, <1>4 DEF InodeInv

LEMMA MountKeeps ==
    ASSUME InodeInv, NEW p \in DOMAIN inode_base, Mount(p), started, unread' \in Seq(DOMAIN inode_base),
           UNCHANGED <<scanvars, started>>
    PROVE  InodeInv'
<1>1. BasesApart' /\ DOMAIN inode_base' = DOMAIN inode_base
  BY MountKeepsApart DEF InodeInv
<1>2. ListIsSeq' /\ BasesOfList'
  BY <1>1 DEF InodeInv, ListIsSeq, BasesOfList, Ptn, ScanDone, scanvars
<1> QED BY <1>1, <1>2 DEF InodeInv

LEMMA InitRoundKeeps == InodeInv /\ started /\ fs_init => InodeInv'
<1> SUFFICES ASSUME InodeInv, started, fs_init PROVE InodeInv'
  OBVIOUS
<1>1. /\ unread # <<>> /\ unread \in Seq(DOMAIN inode_base)
      /\ UNCHANGED <<scanvars, started>>
  BY DEF fs_init, InodeInv, BasesOfList
<1>2. Head(unread) \in DOMAIN inode_base /\ Tail(unread) \in Seq(DOMAIN inode_base)
  BY <1>1, HeadTailProperties
<1>3. CASE Mount(Head(unread)) /\ unread' = Tail(unread)
  BY <1>1, <1>2, <1>3, MountKeeps
<1>4. CASE UNCHANGED <<unread, ramvars>>
  BY <1>1, <1>4 DEF InodeInv, ListIsSeq, BasesOfList, BasesApart, Ptn, ScanDone, scanvars, ramvars
<1> QED BY <1>3, <1>4 DEF fs_init

LEMMA RebootKeeps == InodeInv /\ Reboot => InodeInv'
<1> SUFFICES ASSUME Reboot PROVE InodeInv'
  OBVIOUS
<1>1. /\ ptn_list' = <<>> /\ started' = FALSE /\ unread' = <<>>
      /\ inode_base' = [p \in {} |-> 0] /\ inode_max' = 0 /\ mounted' = {}
  BY DEF Reboot
<1> QED BY <1>1 DEF InodeInv, ListIsSeq, BasesOfList, BasesApart, Ptn, Range

\* There is nothing to mount before fs_init begins.
BootInv == ~started => unread = <<>>

LEMMA BootKept == BootInv /\ [Next]_vars => BootInv'
BY DEF BootInv, Next, bootvars, vars, Scan, root_dir_init, fs_init, fs_format, fs_mount,
       fs_unmount, FormatAgain, Reboot

LEMMA InodeNext == InodeInv /\ BootInv /\ [Next]_vars => InodeInv'
<1> SUFFICES ASSUME InodeInv, BootInv, [Next]_vars PROVE InodeInv'
  OBVIOUS
<1>1. CASE UNCHANGED <<scanvars, started, unread, inode_base, inode_max, mounted>>
  BY <1>1 DEF InodeInv, ListIsSeq, BasesOfList, BasesApart, Ptn, ScanDone, scanvars
<1>2. CASE UNCHANGED vars \/ fs_format \/ \E p \in Ptn : FormatAgain(p)
  BY <1>1, <1>2 DEF vars, bootvars, ramvars, fs_format, FormatAgain
<1>3. CASE Scan /\ UNCHANGED <<diskvars, bootvars, ramvars>>
  BY <1>3, ScanKeeps
<1>4. CASE root_dir_init \/ fs_init \/ Reboot
  BY <1>4, RootKeeps, InitRoundKeeps, RebootKeeps DEF BootInv, fs_init
<1>5. ASSUME NEW p \in Ptn, fs_mount(p) PROVE InodeInv'
  <2>1. /\ started /\ Mount(p) /\ p \in DOMAIN inode_base
        /\ unread' \in Seq(DOMAIN inode_base) /\ UNCHANGED <<scanvars, started>>
    BY <1>5 DEF fs_mount, Ready, InodeInv, BasesOfList, bootvars
  <2> QED BY <2>1, MountKeeps
<1>6. ASSUME NEW p \in Ptn, fs_unmount(p) PROVE InodeInv'
  <2>1. /\ mounted' \subseteq mounted
        /\ UNCHANGED <<scanvars, started, unread, inode_base, inode_max>>
    BY <1>6 DEF fs_unmount, bootvars
  <2> QED BY <2>1 DEF InodeInv, ListIsSeq, BasesOfList, BasesApart, Ptn, ScanDone, scanvars
<1> QED BY <1>2, <1>3, <1>4, <1>5, <1>6, Zenon DEF Next

\* The list is a sequence that only the scan changes, the bases are those of its
\* partitions, and the ranges that were given out are apart (fs.c:263-267).
THEOREM InodeInvariant == Spec => [](InodeInv /\ BootInv)
<1>1. Init => BootInv
  BY DEF Init, BootInv
<1> QED BY <1>1, InodeInit, BootKept, InodeNext, PTL DEF Spec

\* No inode number belongs to two mounted partitions or to the root and a partition
\* (fs.c:263-267), for any number of drives and partitions and any history of
\* scans, mounts, unmounts, formats and restarts.
THEOREM InodeNumbersDisjointHolds == Spec => []InodeNumbersDisjoint
BY InodeInvariant, InodeImplied, PTL

-----------------------------------------------------------------------------
(* The scan.                                                               *)

\* The call that goes through the boot sector is the last of the stack, and the
\* only one whose base is 0.
Bottom == stack[Len(stack)]
Table == bs[Drive]
Frame == [base : Nat, offset : Nat, idx : Nat \ {0}]
InTable(table, c) ==
    /\ c.base + c.offset \in DOMAIN table
    /\ c.base = 0 => c.offset = 0
    /\ c.base # 0 => \E k \in Links(table[0]) : c.base = table[0][k].start_lba
\* The extended partition of the drive has been entered.
Entered == \E k \in Links(Table[0]) : k < Bottom.idx
StackInv ==
    /\ bs \in Disks
    /\ hd \in 0..Len(Hds)
    /\ stack \in Seq(Frame)
    /\ stack # <<>> =>
          /\ hd # 0
          /\ \A i \in 1..Len(stack) : InTable(Table, stack[i]) /\ (stack[i].base = 0 <=> i = Len(stack))
          /\ Len(stack) > 1 => Entered
    /\ ptn_nr \in Nat
    /\ Len(stack) > 1 => ptn_nr >= 5

\* No partition of the list has a name that the scan can still give: a primary
\* one has the number of an entry that was passed, and a logical one a number
\* counted since the extended partition was entered.
Given(p) ==
    \E h \in 1..hd :
        /\ p.name = <<Hds[h], p.name[2]>>
        /\ p.name[2] \in Nat
        /\ h = hd /\ stack # <<>> =>
              IF p.name[2] <= 4 THEN p.name[2] < Bottom.idx ELSE Entered /\ p.name[2] < ptn_nr
ListInv ==
    /\ \A p \in Ptn : p.sec_cnt \in Nat /\ Usable(p.sec_cnt) /\ Given(p)
    /\ \A i, j \in DOMAIN ptn_list : ptn_list[i].name = ptn_list[j].name => i = j
ScanInv == StackInv /\ ListInv

\* The drive that is scanned has a table that the scan can follow.
LEMMA TableIs ==
    ASSUME StackInv, stack # <<>>
    PROVE  /\ hd \in 1..Len(Hds) /\ WellLinked(Table)
           /\ \A lba \in DOMAIN Table : \A i \in 1..4 :
                 Table[lba][i].type \notin {0, EXTENDED} => Usable(Table[lba][i].sec_cnt)
<1>1. hd \in 1..Len(Hds)
  BY DrivesAssumption DEF StackInv
<1>2. Drive \in DOMAIN bs /\ WellLinked(bs[Drive]) /\ bs \in Disks
  BY <1>1, TablesAssumption DEF StackInv, Drive
<1>3. \A lba \in DOMAIN bs[Drive] : \A i \in 1..4 :
          bs[Drive][lba][i].type \notin {0, EXTENDED} => Usable(bs[Drive][lba][i].sec_cnt)
  BY <1>2, FsAssumption
<1> QED BY <1>1, <1>2, <1>3 DEF Table

\* The entry at hand, and what the code reads of it.
LEMMA EntryIs ==
    ASSUME StackInv, AtEntry
    PROVE  LET c == stack[1] IN
           /\ Len(stack) \in Nat \ {0} /\ stack[1] = Head(stack)
           /\ c \in Frame /\ InTable(Table, c) /\ c.idx \in 1..4
           /\ Entry = Table[c.base + c.offset][c.idx]
           /\ Entry.type \in Nat /\ Entry.start_lba \in Nat /\ Entry.sec_cnt \in Nat
           /\ Entry.type \notin {0, EXTENDED} => Usable(Entry.sec_cnt)
           /\ c.base = 0 <=> Len(stack) = 1
           /\ c.base = 0 => c = Bottom
<1>1. stack # <<>> /\ stack \in Seq(Frame) /\ Head(stack).idx <= 4
  BY DEF AtEntry, StackInv
<1>2. Len(stack) \in Nat \ {0} /\ stack[1] = Head(stack) /\ stack[1] \in Frame
  BY <1>1
<1>3. stack[1].idx \in 1..4 /\ stack[1].base \in Nat /\ stack[1].offset \in Nat
  <2>1. /\ stack[1].idx \in Nat \ {0} /\ stack[1].base \in Nat /\ stack[1].offset \in Nat
    BY <1>2 DEF Frame
  <2>2. stack[1].idx <= 4
    BY <1>1, <1>2
  <2> QED BY <2>1, <2>2
<1>4. InTable(Table, stack[1]) /\ (stack[1].base = 0 <=> 1 = Len(stack))
  <2>1. 1 \in 1..Len(stack)
    BY <1>2
  <2> QED BY <1>1, <2>1 DEF StackInv
<1>5. Entry = Table[stack[1].base + stack[1].offset][stack[1].idx]
  BY <1>2 DEF Entry, Table
<1>6. /\ Entry.type \in Nat /\ Entry.start_lba \in Nat /\ Entry.sec_cnt \in Nat
      /\ Entry.type \notin {0, EXTENDED} => Usable(Entry.sec_cnt)
  BY <1>1, <1>3, <1>4, <1>5, TableIs DEF InTable, WellLinked
<1> QED BY <1>2, <1>3, <1>4, <1>5, <1>6 DEF Bottom

\* The loop moves on: nothing of the stack changes but the innermost index.
LEMMA NextEntryIs ==
    ASSUME stack \in Seq(Frame), stack # <<>>
    PROVE  LET t == NextEntry IN
           /\ t \in Seq(Frame) /\ Len(t) = Len(stack) /\ Len(stack) \in Nat \ {0}
           /\ t[1].base = stack[1].base /\ t[1].offset = stack[1].offset /\ t[1].idx = stack[1].idx + 1
           /\ \A i \in 1..Len(stack) : i # 1 => t[i] = stack[i]
           /\ t[Len(stack)].idx >= Bottom.idx
<1>1. Len(stack) \in Nat \ {0} /\ DOMAIN stack = 1..Len(stack) /\ stack[1] \in Frame
  BY LenProperties
<1> DEFINE f == [stack[1] EXCEPT !.idx = @ + 1]
<1>2. f \in Frame /\ f.base = stack[1].base /\ f.offset = stack[1].offset /\ f.idx = stack[1].idx + 1
  BY <1>1 DEF Frame
<1>3. NextEntry = [stack EXCEPT ![1] = f]
  BY DEF NextEntry
<1> HIDE DEF f
<1> DEFINE t == NextEntry
<1>4. t \in Seq(Frame) /\ Len(t) = Len(stack) /\ t[1] = f /\ \A i \in 1..Len(stack) : i # 1 => t[i] = stack[i]
  BY <1>1, <1>2, <1>3, ExceptSeq
<1> HIDE DEF t
<1>5. t[Len(stack)].idx >= Bottom.idx
  <2>1. CASE Len(stack) = 1
    BY <1>1, <1>2, <1>4, <2>1 DEF Bottom, Frame
  <2>2. CASE Len(stack) # 1
    <3>1. t[Len(stack)] = stack[Len(stack)] /\ stack[Len(stack)] \in Frame
      BY <1>1, <1>4, <2>2
    <3> QED BY <3>1 DEF Bottom, Frame
  <2> QED BY <2>1, <2>2
<1> QED BY <1>1, <1>2, <1>4, <1>5 DEF t

\* A recursive call.
LEMMA PushIs ==
    ASSUME NEW s \in Seq(Frame), NEW c \in Frame
    PROVE  LET t == <<c>> \o s IN
           /\ t \in Seq(Frame) /\ Len(t) = Len(s) + 1 /\ t # <<>>
           /\ t[1] = c /\ \A i \in 2..(Len(s) + 1) : t[i] = s[i - 1]
<1>1. <<c>> \in Seq(Frame) /\ Len(<<c>>) = 1 /\ <<c>>[1] = c /\ Len(s) \in Nat
  OBVIOUS
<1> DEFINE t == <<c>> \o s
<1>2. /\ t \in Seq(Frame) /\ Len(t) = 1 + Len(s)
      /\ \A i \in 1..(1 + Len(s)) : t[i] = IF i <= 1 THEN <<c>>[i] ELSE s[i - 1]
  BY <1>1, ConcatProperties
<1> HIDE DEF t
<1> QED BY <1>1, <1>2, EmptySeq DEF t

\* The next entry: the bottom call has come as far or further.
LEMMA NextEntryKeeps ==
    ASSUME StackInv, AtEntry, stack' = NextEntry, UNCHANGED <<bs, hd>>,
           ptn_nr' \in Nat, ptn_nr' >= ptn_nr
    PROVE  /\ StackInv' /\ stack' # <<>> /\ (Entered => Entered')
           /\ Bottom'.idx >= Bottom.idx /\ Bottom.idx \in Nat /\ Bottom'.idx \in Nat
<1>1. stack # <<>> /\ stack \in Seq(Frame) /\ Len(stack) \in Nat \ {0} /\ Table' = Table
  BY DEF StackInv, AtEntry, Table, Drive
<1>2. /\ stack' \in Seq(Frame) /\ Len(stack') = Len(stack)
      /\ stack'[1].base = stack[1].base /\ stack'[1].offset = stack[1].offset
      /\ \A i \in 1..Len(stack) : i # 1 => stack'[i] = stack[i]
      /\ Bottom'.idx >= Bottom.idx
  BY <1>1, NextEntryIs DEF Bottom
<1>3. \A i \in 1..Len(stack) : stack'[i].base = stack[i].base /\ stack'[i].offset = stack[i].offset
  BY <1>2
<1>4. \A i \in 1..Len(stack) : InTable(Table', stack'[i]) /\ (stack'[i].base = 0 <=> i = Len(stack))
  BY <1>1, <1>3 DEF StackInv, InTable
<1>5. Bottom \in Frame /\ Bottom' \in Frame
  BY <1>1, <1>2 DEF Bottom
<1>6. Entered => Entered'
  <2>1. \A k \in Links(Table[0]) : k < Bottom.idx => k < Bottom'.idx
    BY <1>2, <1>5 DEF Links, Frame
  <2> QED BY <1>1, <2>1 DEF Entered
<1>7. stack' # <<>>
  BY <1>1, <1>2
<1>8. Bottom.idx \in Nat /\ Bottom'.idx \in Nat
  BY <1>5 DEF Frame
<1>9. StackInv'
  BY <1>1, <1>2, <1>4, <1>6 DEF StackInv
<1> QED BY <1>2, <1>6, <1>7, <1>8, <1>9

\* A name that is given stays given while the drive is scanned.
LEMMA GivenKeeps ==
    ASSUME StackInv, hd' = hd, UNCHANGED bs, stack # <<>>, NEW p, Given(p),
           Bottom.idx \in Nat, ptn_nr' \in Nat,
           stack' # <<>> =>
               /\ Bottom'.idx \in Nat /\ Bottom'.idx >= Bottom.idx
               /\ p.name[2] > 4 /\ p.name[1] = Drive /\ Entered => Entered' /\ ptn_nr' >= ptn_nr
    PROVE  Given(p)'
<1>1. PICK h \in 1..hd :
        /\ p.name = <<Hds[h], p.name[2]>> /\ p.name[2] \in Nat
        /\ h = hd => IF p.name[2] <= 4 THEN p.name[2] < Bottom.idx ELSE Entered /\ p.name[2] < ptn_nr
  BY DEF Given
<1>2. ptn_nr \in Nat /\ h \in 1..hd'
  BY <1>1 DEF StackInv
<1>3. p.name[1] = Hds[h]
  BY <1>1
<1>4. ASSUME h = hd', stack' # <<>>
      PROVE  IF p.name[2] <= 4 THEN p.name[2] < Bottom'.idx ELSE Entered' /\ p.name[2] < ptn_nr'
  <2>1. CASE p.name[2] <= 4
    BY <1>1, <1>4, <2>1
  <2>2. CASE ~(p.name[2] <= 4)
    <3>1. p.name[2] > 4 /\ p.name[1] = Drive /\ Entered /\ p.name[2] < ptn_nr
      BY <1>1, <1>3, <1>4, <2>2 DEF Drive
    <3>2. Entered' /\ ptn_nr' >= ptn_nr
      BY <1>4, <3>1
    <3> QED BY <1>1, <1>2, <2>2, <3>1, <3>2
  <2> QED BY <2>1, <2>2
<1> QED BY <1>1, <1>2, <1>4 DEF Given

\* The list stays, when its names stay given.
LEMMA ListStays ==
    ASSUME ListInv, UNCHANGED ptn_list, \A p \in Ptn : Given(p) => Given(p)'
    PROVE  ListInv'
<1>1. Ptn' = Ptn
  BY DEF Ptn
<1> QED BY <1>1 DEF ListInv

LEMMA PtnGrows ==
    ASSUME ListIsSeq, NEW e, ptn_list' = Append(ptn_list, e)
    PROVE  Ptn' = Ptn \cup {e}
<1>1. ptn_list \in Seq(Ptn \cup {e})
  BY SeqMonotonic DEF ListIsSeq
<1>2. /\ Len(ptn_list) \in Nat /\ DOMAIN ptn_list = 1..Len(ptn_list)
      /\ DOMAIN ptn_list' = 1..(Len(ptn_list) + 1)
      /\ ptn_list'[Len(ptn_list) + 1] = e
      /\ \A i \in 1..Len(ptn_list) : ptn_list'[i] = ptn_list[i] /\ ptn_list[i] \in Ptn
  BY <1>1, LenProperties DEF ListIsSeq
<1>3. \A i : i \in DOMAIN ptn_list' <=> i \in DOMAIN ptn_list \/ i = Len(ptn_list) + 1
  BY <1>2
<1>4. \A p : p \in Ptn' <=> p \in Ptn \/ p = e
  BY <1>2, <1>3 DEF Ptn, Range
<1> QED BY <1>4

\* A new partition, whose name no other has.
LEMMA ListGrows ==
    ASSUME ListIsSeq, ListInv, NEW e, ptn_list' = Append(ptn_list, e),
           \A p \in Ptn : Given(p) => Given(p)',
           e.sec_cnt \in Nat, Usable(e.sec_cnt), Given(e)',
           \A p \in Ptn : p.name # e.name
    PROVE  ListInv'
<1>1. ptn_list \in Seq(Ptn \cup {e})
  BY SeqMonotonic DEF ListIsSeq
<1>2. /\ Len(ptn_list) \in Nat /\ DOMAIN ptn_list = 1..Len(ptn_list)
      /\ DOMAIN ptn_list' = 1..(Len(ptn_list) + 1)
      /\ ptn_list'[Len(ptn_list) + 1] = e
      /\ \A i \in 1..Len(ptn_list) : ptn_list'[i] = ptn_list[i] /\ ptn_list[i] \in Ptn
  BY <1>1, LenProperties DEF ListIsSeq
<1>3. Ptn' = Ptn \cup {e}
  BY PtnGrows
<1>4. \A p \in Ptn' : p.sec_cnt \in Nat /\ Usable(p.sec_cnt) /\ Given(p)'
  BY <1>3 DEF ListInv
<1>5. ASSUME NEW i \in DOMAIN ptn_list', NEW j \in DOMAIN ptn_list',
             ptn_list'[i].name = ptn_list'[j].name
      PROVE  i = j
  <2>1. i \in 1..Len(ptn_list) \/ i = Len(ptn_list) + 1
    BY <1>2
  <2>2. j \in 1..Len(ptn_list) \/ j = Len(ptn_list) + 1
    BY <1>2
  <2> QED BY <1>2, <1>5, <2>1, <2>2 DEF ListInv
<1> QED BY <1>4, <1>5 DEF ListInv

LEMMA DriveKeeps ==
    ASSUME StackInv, ListInv, ide_ch_init
    PROVE  StackInv' /\ ListInv'
<1>1. /\ stack = <<>> /\ hd < Len(Hds) /\ hd' = hd + 1 /\ stack' = <<Call(0, 0)>>
      /\ UNCHANGED <<bs, ptn_nr, ptn_list>> /\ hd \in 0..Len(Hds)
  BY DEF ide_ch_init, StackInv
<1>2. Call(0, 0) \in Frame /\ Call(0, 0).base = 0 /\ Call(0, 0).offset = 0
  BY DEF Call, Frame
<1>3. stack' \in Seq(Frame) /\ Len(stack') = 1 /\ stack'[1] = Call(0, 0) /\ hd' \in 1..Len(Hds)
  BY <1>1, <1>2, DrivesAssumption
<1>4. InTable(Table', Call(0, 0))
  <2>1. WellLinked(bs[Hds[hd']])
    BY <1>1, <1>3, TablesAssumption DEF StackInv
  <2>2. Table' = bs[Hds[hd']]
    BY <1>1 DEF Table, Drive
  <2>3. 0 \in DOMAIN Table' /\ Call(0, 0).base + Call(0, 0).offset = 0
    BY <1>2, <2>1, <2>2 DEF WellLinked
  <2> QED BY <1>2, <2>3 DEF InTable
<1>5. StackInv'
  BY <1>1, <1>2, <1>3, <1>4 DEF StackInv
<1>6. ASSUME NEW p \in Ptn, Given(p) PROVE Given(p)'
  <2>1. PICK h \in 1..hd : p.name = <<Hds[h], p.name[2]>> /\ p.name[2] \in Nat
    BY <1>6 DEF Given
  <2>2. h \in 1..hd' /\ h # hd'
    BY <1>1, <2>1
  <2> QED BY <2>1, <2>2 DEF Given
<1> QED BY <1>1, <1>5, <1>6, ListStays

LEMMA SkipKeeps ==
    ASSUME StackInv, ListInv, SkipUnused
    PROVE  StackInv' /\ ListInv'
<1>1. AtEntry /\ stack # <<>> /\ stack' = NextEntry /\ UNCHANGED <<bs, hd, ptn_nr, ptn_list>> /\ ptn_nr \in Nat
  BY DEF SkipUnused, StackInv, AtEntry
<1>2. /\ StackInv' /\ stack' # <<>> /\ (Entered => Entered')
      /\ Bottom'.idx >= Bottom.idx /\ Bottom.idx \in Nat /\ Bottom'.idx \in Nat
  BY <1>1, NextEntryKeeps
<1>4. \A p \in Ptn : Given(p) => Given(p)'
  BY <1>1, <1>2, GivenKeeps
<1> QED BY <1>1, <1>2, <1>4, ListStays

LEMMA EndKeeps ==
    ASSUME StackInv, ListInv, EndOfTable
    PROVE  StackInv' /\ ListInv'
<1>1. stack # <<>> /\ stack' = Tail(stack) /\ UNCHANGED <<bs, hd, ptn_nr, ptn_list>> /\ Table' = Table
  BY DEF EndOfTable, Table, Drive
<1>2. /\ stack' \in Seq(Frame) /\ Len(stack') = Len(stack) - 1 /\ Len(stack) \in Nat \ {0}
      /\ \A i \in 1..Len(stack') : stack'[i] = stack[i + 1]
  BY <1>1, HeadTailProperties DEF StackInv
<1>3. stack' # <<>> => Bottom' = Bottom /\ Len(stack) > 1
  <2> SUFFICES ASSUME stack' # <<>> PROVE Bottom' = Bottom /\ Len(stack) > 1
    OBVIOUS
  <2>1. Len(stack') \in Nat \ {0}
    BY <1>2, EmptySeq
  <2> QED BY <1>2, <2>1 DEF Bottom
<1>4. \A i \in 1..Len(stack') : InTable(Table, stack'[i]) /\ (stack'[i].base = 0 <=> i = Len(stack'))
  <2>1. \A i \in 1..Len(stack') : i + 1 \in 1..Len(stack) /\ (i + 1 = Len(stack) <=> i = Len(stack'))
    BY <1>2
  <2> QED BY <1>1, <1>2, <2>1 DEF StackInv
<1>5. stack' # <<>> => (Entered => Entered')
  BY <1>1, <1>3 DEF Entered
<1>6. StackInv'
  <2>1. Len(stack') > 1 => Len(stack) > 1 /\ stack' # <<>>
    BY <1>2, EmptySeq
  <2> QED BY <1>1, <1>2, <1>4, <1>5, <2>1 DEF StackInv
<1>7. Bottom.idx \in Nat /\ ptn_nr \in Nat
  <2>1. Bottom \in Frame /\ ptn_nr \in Nat
    BY <1>2 DEF Bottom, StackInv
  <2> QED BY <2>1 DEF Frame
<1>8. \A p \in Ptn : Given(p) => Given(p)'
  BY <1>1, <1>3, <1>5, <1>7, GivenKeeps
<1> QED BY <1>1, <1>6, <1>8, ListStays

LEMMA EnterKeeps ==
    ASSUME StackInv, ListInv, EnterExtended
    PROVE  StackInv' /\ ListInv'
<1> DEFINE c == stack[1]
           base == IF c.base = 0 THEN Entry.start_lba ELSE c.base
           offset == IF c.base = 0 THEN 0 ELSE Entry.start_lba
<1>1. /\ AtEntry /\ stack # <<>> /\ Entry.type = EXTENDED
      /\ UNCHANGED <<bs, hd, ptn_list>> /\ Table' = Table
  BY DEF EnterExtended, AtEntry, Table, Drive
<1>2. /\ Len(stack) \in Nat \ {0} /\ c = Head(stack) /\ c \in Frame /\ InTable(Table, c) /\ c.idx \in 1..4
      /\ Entry = Table[c.base + c.offset][c.idx] /\ Entry.start_lba \in Nat
      /\ (c.base = 0 <=> Len(stack) = 1) /\ (c.base = 0 => c = Bottom)
  BY <1>1, EntryIs
<1>3. /\ stack' = <<Call(base, offset)>> \o NextEntry
      /\ ptn_nr' = IF c.base = 0 THEN 5 ELSE ptn_nr
  BY <1>2 DEF EnterExtended
<1>4. WellLinked(Table)
  BY <1>1, TableIs
<1>5. c.base \in Nat /\ c.offset \in Nat /\ c.idx \in Links(Table[c.base + c.offset])
  BY <1>1, <1>2 DEF Frame, Links
<1>6. base \in Nat \ {0} /\ offset \in Nat /\ InTable(Table, Call(base, offset))
  <2>1. CASE c.base = 0
    <3>1. c.offset = 0 /\ c.base + c.offset = 0
      BY <1>2, <2>1 DEF InTable
    <3>2. c.idx \in Links(Table[0]) /\ base = Table[0][c.idx].start_lba
      BY <1>2, <1>5, <2>1, <3>1
    <3>3. base \in DOMAIN Table \ {0} /\ base \in Nat /\ offset = 0
      BY <1>2, <1>4, <2>1, <3>2 DEF WellLinked
    <3> QED BY <3>2, <3>3 DEF InTable, Call
  <2>2. CASE c.base # 0
    <3>1. PICK k \in Links(Table[0]) : c.base = Table[0][k].start_lba
      BY <1>2, <2>2 DEF InTable
    <3>2. c.base + c.offset \in DOMAIN Table \ {0}
      BY <1>2, <1>5, <2>2 DEF InTable
    <3>3. c.base + Entry.start_lba \in DOMAIN Table
      BY <1>2, <1>4, <1>5, <3>1, <3>2 DEF WellLinked
    <3> QED BY <1>2, <1>5, <2>2, <3>1, <3>3 DEF InTable, Call
  <2> QED BY <2>1, <2>2
<1>7. Call(base, offset) \in Frame /\ Call(base, offset).base = base
  BY <1>6 DEF Call, Frame
<1> HIDE DEF base, offset
<1> DEFINE t == NextEntry
<1>8. /\ t \in Seq(Frame) /\ Len(t) = Len(stack)
      /\ t[1].base = c.base /\ t[1].offset = c.offset /\ t[1].idx = c.idx + 1
      /\ \A i \in 1..Len(stack) : i # 1 => t[i] = stack[i]
      /\ t[Len(stack)].idx >= Bottom.idx
  BY <1>1, NextEntryIs DEF StackInv
<1> HIDE DEF t
<1>9. /\ stack' \in Seq(Frame) /\ Len(stack') = Len(stack) + 1 /\ stack' # <<>>
      /\ stack'[1] = Call(base, offset) /\ \A i \in 2..(Len(stack) + 1) : stack'[i] = t[i - 1]
  BY <1>3, <1>7, <1>8, PushIs DEF t
<1>10. Bottom' = t[Len(stack)] /\ Bottom'.idx >= Bottom.idx /\ Bottom.idx \in Nat /\ Bottom'.idx \in Nat
  <2>1. Bottom' = t[Len(stack)]
    <3>1. Len(stack) + 1 \in 2..(Len(stack) + 1) /\ (Len(stack) + 1) - 1 = Len(stack)
      BY <1>2
    <3> QED BY <1>9, <3>1 DEF Bottom
  <2>2. Bottom \in Frame /\ Bottom' \in Frame
    BY <1>2, <1>9 DEF Bottom, StackInv
  <2> QED BY <1>8, <2>1, <2>2 DEF Frame
<1>11. Entered'
  <2>1. CASE c.base = 0
    <3>1. c.offset = 0 /\ c.base + c.offset = 0
      BY <1>2, <2>1 DEF InTable
    <3>2. c.idx \in Links(Table[0]) /\ c.idx < Bottom'.idx
      BY <1>2, <1>5, <1>8, <1>10, <2>1, <3>1
    <3> QED BY <1>1, <3>2 DEF Entered
  <2>2. CASE c.base # 0
    <3>1. PICK k \in Links(Table[0]) : k < Bottom.idx
      BY <1>1, <1>2, <2>2 DEF StackInv, Entered
    <3>2. k < Bottom'.idx
      BY <1>10, <3>1 DEF Links
    <3> QED BY <1>1, <3>1, <3>2 DEF Entered
  <2> QED BY <2>1, <2>2
<1>12. ptn_nr' \in Nat /\ ptn_nr' >= 5 /\ (c.base # 0 => ptn_nr' >= ptn_nr)
  <2>1. ptn_nr \in Nat /\ (c.base # 0 => ptn_nr >= 5)
    BY <1>1, <1>2 DEF StackInv
  <2> QED BY <1>3, <2>1
<1>13. \A i \in 1..Len(stack') : InTable(Table, stack'[i]) /\ (stack'[i].base = 0 <=> i = Len(stack'))
  <2> SUFFICES ASSUME NEW i \in 1..Len(stack')
               PROVE  InTable(Table, stack'[i]) /\ (stack'[i].base = 0 <=> i = Len(stack'))
    OBVIOUS
  <2>1. CASE i = 1
    BY <1>2, <1>6, <1>7, <1>9, <2>1
  <2>2. CASE i # 1
    <3>1. i - 1 \in 1..Len(stack) /\ i \in 2..(Len(stack) + 1) /\ (i = Len(stack') <=> i - 1 = Len(stack))
      BY <1>2, <1>9, <2>2
    <3>2. stack'[i].base = stack[i - 1].base /\ stack'[i].offset = stack[i - 1].offset
      BY <1>8, <1>9, <3>1
    <3>3. InTable(Table, stack[i - 1]) /\ (stack[i - 1].base = 0 <=> i - 1 = Len(stack))
      BY <1>1, <3>1 DEF StackInv
    <3> QED BY <3>1, <3>2, <3>3 DEF InTable
  <2> QED BY <2>1, <2>2
<1>14. StackInv'
  BY <1>1, <1>9, <1>11, <1>12, <1>13 DEF StackInv
<1>15. \A p \in Ptn : Given(p) => Given(p)'
  <2> SUFFICES ASSUME NEW p \in Ptn, Given(p) PROVE Given(p)'
    OBVIOUS
  <2>1. p.name[2] > 4 /\ p.name[1] = Drive /\ Entered => Entered' /\ ptn_nr' >= ptn_nr
    <3> SUFFICES ASSUME Entered PROVE c.base # 0
      BY <1>11, <1>12
    <3>1. ASSUME c.base = 0 PROVE FALSE
      <4>1. c.base + c.offset = 0 /\ c.idx \in Links(Table[0]) /\ Bottom.idx = c.idx
        <5>1. c.offset = 0 /\ Bottom = c
          BY <1>2, <3>1 DEF InTable
        <5>2. c.base + c.offset = 0
          BY <3>1, <5>1
        <5> QED BY <1>5, <5>1, <5>2
      <4>2. PICK k \in Links(Table[0]) : k < Bottom.idx
        BY DEF Entered
      <4>3. k = c.idx
        BY <1>4, <4>1, <4>2 DEF WellLinked
      <4> QED BY <1>2, <4>1, <4>2, <4>3
    <3> QED BY <3>1
  <2> QED BY <1>1, <1>10, <1>12, <2>1, GivenKeeps
<1> QED BY <1>1, <1>14, <1>15, ListStays

LEMMA RecordKeeps ==
    ASSUME StackInv, ListIsSeq, ListInv, Record
    PROVE  StackInv' /\ ListInv'
<1> DEFINE c == stack[1]
<1>1. /\ AtEntry /\ stack # <<>> /\ Entry.type \notin {0, EXTENDED} /\ stack' = NextEntry
      /\ UNCHANGED <<bs, hd>> /\ Table' = Table
  BY DEF Record, AtEntry, Table, Drive
<1>2. /\ Len(stack) \in Nat \ {0} /\ c = Head(stack) /\ c \in Frame /\ c.idx \in 1..4
      /\ Entry.sec_cnt \in Nat /\ Usable(Entry.sec_cnt)
      /\ (c.base = 0 <=> Len(stack) = 1) /\ (c.base = 0 => c = Bottom)
  BY <1>1, EntryIs
<1> PICK nr : nr = IF c.base = 0 THEN c.idx ELSE ptn_nr
  OBVIOUS
<1> PICK e : e = Partition(nr, c.base + c.offset + Entry.start_lba, Entry.sec_cnt)
  OBVIOUS
<1>3. ptn_list' = Append(ptn_list, e) /\ ptn_nr' = IF c.base = 0 THEN ptn_nr ELSE ptn_nr + 1
  BY <1>2 DEF Record
<1>4. e.name = <<Drive, nr>> /\ e.sec_cnt = Entry.sec_cnt
  BY DEF Partition
<1>5. ptn_nr \in Nat /\ (c.base # 0 => ptn_nr >= 5 /\ Entered) /\ ptn_nr' \in Nat /\ ptn_nr' >= ptn_nr /\ nr \in Nat
  <2>1. ptn_nr \in Nat /\ (c.base # 0 => ptn_nr >= 5 /\ Entered)
    BY <1>1, <1>2 DEF StackInv
  <2> QED BY <1>2, <1>3, <2>1
<1>6. /\ StackInv' /\ stack' # <<>> /\ Bottom'.idx >= Bottom.idx /\ Bottom.idx \in Nat
      /\ (Entered => Entered') /\ Bottom'.idx \in Nat
  BY <1>1, <1>5, NextEntryKeeps
<1>8. \A p \in Ptn : Given(p) => Given(p)'
  BY <1>1, <1>5, <1>6, GivenKeeps
<1>9. hd \in 1..hd /\ hd \in 1..Len(Hds) /\ Drive = Hds[hd]
  BY <1>1, TableIs DEF Drive
<1>10. Given(e)'
  <2>1. e.name[1] = Drive /\ e.name[2] = nr
    BY <1>4
  <2>2. IF nr <= 4 THEN nr < Bottom'.idx ELSE Entered' /\ nr < ptn_nr'
    <3>1. CASE c.base = 0
      <4>1. Bottom' = stack'[1] /\ Bottom'.idx = c.idx + 1
        BY <1>1, <1>2, <3>1, NextEntryIs DEF StackInv, Bottom
      <4> QED BY <1>2, <3>1, <4>1
    <3>2. CASE c.base # 0
      BY <1>3, <1>5, <1>6, <3>2
    <3> QED BY <3>1, <3>2
  <2>3. hd' \in 1..hd' /\ e.name = <<Hds[hd'], e.name[2]>> /\ e.name[2] \in Nat
    BY <1>1, <1>4, <1>5, <1>9, <2>1
  <2> QED BY <2>1, <2>2, <2>3 DEF Given
<1>11. ASSUME NEW p \in Ptn, p.name = e.name PROVE FALSE
  <2>1. PICK h \in 1..hd :
          /\ p.name = <<Hds[h], p.name[2]>> /\ p.name[2] \in Nat
          /\ h = hd => IF p.name[2] <= 4 THEN p.name[2] < Bottom.idx ELSE Entered /\ p.name[2] < ptn_nr
    BY <1>1 DEF ListInv, Given
  <2>2. Hds[h] = Hds[hd] /\ p.name[2] = nr
    <3> PICK d, m : d = Hds[h] /\ m = p.name[2]
      OBVIOUS
    <3>1. <<d, m>> = <<Hds[hd], nr>>
      BY <1>4, <1>9, <1>11, <2>1
    <3> QED BY <3>1
  <2>3. h = hd
    <3>1. h \in 1..Len(Hds)
      BY <1>9, <2>1, DrivesAssumption
    <3> QED BY <1>9, <2>2, <3>1, DrivesAssumption
  <2>4. CASE c.base = 0
    BY <1>2, <2>1, <2>2, <2>3, <2>4
  <2>5. CASE c.base # 0
    BY <1>5, <2>1, <2>2, <2>3, <2>5
  <2> QED BY <2>4, <2>5
<1> QED BY <1>2, <1>3, <1>4, <1>6, <1>8, <1>10, <1>11, ListGrows

\* The boot sectors do not change and nothing but the scan adds to the list.
LEMMA ScanStep ==
    ASSUME ScanInv, ListIsSeq, [Next]_vars
    PROVE  ScanInv'
<1>1. StackInv /\ ListInv
  BY DEF ScanInv
<1>2. CASE Scan
  BY <1>1, <1>2, DriveKeeps, SkipKeeps, EnterKeeps, RecordKeeps, EndKeeps DEF Scan, ScanInv
<1>3. CASE UNCHANGED scanvars
  BY <1>1, <1>3 DEF scanvars, ScanInv, StackInv, ListInv, Ptn, Given, Entered, Bottom, Table, Drive
<1>4. CASE Reboot
  <2>1. hd' = 0 /\ stack' = <<>> /\ ptn_nr' = 0 /\ ptn_list' = <<>> /\ bs' = bs
    BY <1>4 DEF Reboot
  <2>2. StackInv'
    BY <1>1, <2>1, DrivesAssumption DEF StackInv
  <2>3. ListInv'
    BY <2>1 DEF ListInv, Ptn, Range
  <2> QED BY <2>2, <2>3 DEF ScanInv
<1>5. CASE root_dir_init \/ fs_init \/ fs_format \/ UNCHANGED vars
  BY <1>3, <1>5 DEF root_dir_init, fs_init, fs_format, vars
<1>6. ASSUME NEW p \in Ptn, fs_mount(p) \/ fs_unmount(p) \/ FormatAgain(p) PROVE ScanInv'
  BY <1>3, <1>6 DEF fs_mount, fs_unmount, FormatAgain
<1> QED BY <1>2, <1>4, <1>5, <1>6 DEF Next

LEMMA ScanStart == Init => ScanInv
<1> SUFFICES ASSUME Init PROVE ScanInv
  OBVIOUS
<1>1. hd = 0 /\ stack = <<>> /\ ptn_nr = 0 /\ ptn_list = <<>> /\ bs \in Disks
  BY DEF Init, ScanInit
<1>2. StackInv
  BY <1>1, DrivesAssumption DEF StackInv
<1>3. ListInv
  BY <1>1 DEF ListInv, Ptn, Range
<1> QED BY <1>2, <1>3 DEF ScanInv

\* The scan finds its way through every table a partitioning tool leaves, and no
\* two partitions of its list have a name in common, although the counter of
\* logical partitions is one static for all calls and drives (ide.c:268-277).
THEOREM ScanInvariant == Spec => [](ScanInv /\ InodeInv /\ BootInv)
<1>1. InodeInv => ListIsSeq
  BY DEF InodeInv
<1>2. Init /\ [][Next]_vars /\ []ListIsSeq => []ScanInv
  BY ScanStart, ScanStep, PTL
<1> QED BY <1>1, <1>2, InodeInvariant, PTL DEF Spec

\* fs.c:130-148 for the partitions of the list: none has areas that overlap or
\* leave it, or blocks without a bit.
THEOREM LayoutsSoundHolds == Spec => []LayoutsSound
<1>1. ScanInv => LayoutsSound
  BY EveryLayoutSound DEF ScanInv, ListInv, LayoutsSound
<1> QED BY <1>1, ScanInvariant, PTL

\* fs.c:182-187 for the partitions of the list: which bits of the block bitmap
\* are free, and which marks miss the buffer.
THEOREM BitmapTailHolds == Spec => []BitmapTail
<1>1. ScanInv => BitmapTail
  BY EveryBitmapTail DEF ScanInv, ListInv, BitmapTail
<1> QED BY <1>1, ScanInvariant, PTL

-----------------------------------------------------------------------------
(* What the scan finds.                                                    *)

\* The path of the drive that is scanned, its k-th boot sector, and how far the
\* call that goes through it has come.
Boots == PathOf(Drive)
Boot(k) == Table[Boots[k]]
CallAt(k) == stack[Len(stack) + 1 - k]

\* The scan has passed entry i of the k-th boot sector: the call is at a later
\* one, or has returned.
Past(k, i) ==
    IF k <= Len(stack) THEN i < CallAt(k).idx
    ELSE \E j \in Links(Boot(Len(stack))) : j < CallAt(Len(stack)).idx

\* Every call goes through the boot sector at its place in the path, and all but
\* the innermost have passed the link to the next.
OnPath ==
    stack # <<>> =>
        /\ Len(stack) <= Len(Boots)
        /\ \A k \in 1..Len(stack) :
              /\ CallAt(k).base + CallAt(k).offset = Boots[k]
              /\ k < Len(stack) => \E j \in Links(Boot(k)) : j < CallAt(k).idx

\* The list has the partitions of the drives that were scanned, and of this one
\* those that were passed.
Found(p) ==
    \/ \E h \in 1..hd : (h = hd => stack = <<>>) /\ p \in Partitions(Hds[h])
    \/ /\ stack # <<>>
       /\ \E k \in 1..Len(Boots) : \E i \in Data(Boot(k)) :
             Past(k, i) /\ p = PartitionAt(Drive, Boots, k, i)
ListExact == \A p : p \in Ptn <=> Found(p)

\* In the extended partition, the counter has counted the logical partitions
\* that were passed.
Counted == {k \in 2..Len(Boots) : \E i \in Data(Boot(k)) : Past(k, i)}
CounterExact == Len(stack) > 1 => ptn_nr = 5 + Cardinality(Counted)

ExactInv == OnPath /\ ListExact /\ CounterExact

-----------------------------------------------------------------------------
\* The path of a drive.
LEMMA PathIs ==
    ASSUME OneOutcome, StackInv, NEW h \in 1..Len(Hds)
    PROVE  LET path == PathOf(Hds[h])
               table == bs[Hds[h]]
           IN  /\ path \in Seq(DOMAIN table) /\ Len(path) \in Nat \ {0}
               /\ IsPath(table, path)
               /\ WellChained(table) /\ WellLinked(table)
<1> DEFINE table == bs[Hds[h]]
<1>1. WellChained(table) /\ WellLinked(table)
  BY TablesAssumption DEF OneOutcome, StackInv
<1>2. PathOf(Hds[h]) \in Paths(table)
  BY <1>1 DEF PathOf, WellChained
<1>3. PathOf(Hds[h]) \in SeqOf(DOMAIN table, Cardinality(DOMAIN table)) /\ IsPath(table, PathOf(Hds[h]))
  BY <1>2 DEF Paths
<1>4. PICK m \in 0..Cardinality(DOMAIN table) : PathOf(Hds[h]) \in [1..m -> DOMAIN table]
  BY <1>3 DEF SeqOf
<1>5. m \in Nat
  BY <1>4
<1>6. PathOf(Hds[h]) \in Seq(DOMAIN table) /\ Len(PathOf(Hds[h])) \in Nat
  BY <1>4, <1>5
<1>7. Len(PathOf(Hds[h])) # 0
  BY <1>3, <1>6, EmptySeq DEF IsPath
<1> QED BY <1>1, <1>3, <1>6, <1>7

\* The tables along the path of the drive that is scanned.
LEMMA BootsAre ==
    ASSUME OneOutcome, StackInv, stack # <<>>
    PROVE  /\ Boots \in Seq(DOMAIN Table) /\ Len(Boots) \in Nat \ {0} /\ Boots[1] = 0
           /\ hd \in 1..Len(Hds) /\ Drive = Hds[hd]
           /\ Links(Boot(Len(Boots))) = {}
           /\ \A k \in 1..Len(Boots) :
                 /\ Boots[k] \in DOMAIN Table /\ (k # 1 => Boots[k] # 0)
                 /\ \A i, j \in Links(Boot(k)) : i = j
                 /\ k # 1 => /\ \A i, j \in Data(Boot(k)) : i = j
                             /\ \A i \in Data(Boot(k)), j \in Links(Boot(k)) : i < j
                 /\ k < Len(Boots) =>
                       \E j \in Links(Boot(k)) :
                           Boots[k + 1] = (IF k = 1 THEN 0 ELSE Boots[2]) + Boot(k)[j].start_lba
<1>1. hd \in 1..Len(Hds) /\ Drive = Hds[hd] /\ Table = bs[Hds[hd]]
  BY TableIs DEF Drive, Table
<1>2. /\ Boots \in Seq(DOMAIN Table) /\ Len(Boots) \in Nat \ {0}
      /\ IsPath(Table, Boots) /\ WellChained(Table) /\ WellLinked(Table)
  BY <1>1, PathIs DEF Boots
<1>3. DOMAIN Boots = 1..Len(Boots) /\ \A k \in 1..Len(Boots) : Boots[k] \in DOMAIN Table
  BY <1>2
<1>4. Boots[1] = 0 /\ Links(Boot(Len(Boots))) = {}
  <2>1. Len(Boots) \in DOMAIN Boots
    BY <1>2, <1>3
  <2> QED BY <1>2, <2>1 DEF IsPath, Boot
<1>5. ASSUME NEW k \in 1..Len(Boots), k < Len(Boots)
      PROVE  \E j \in Links(Boot(k)) :
                 Boots[k + 1] = (IF k = 1 THEN 0 ELSE Boots[2]) + Boot(k)[j].start_lba
  BY <1>2, <1>3, <1>5 DEF IsPath, Boot
<1>6. ASSUME Len(Boots) > 1 PROVE Boots[2] \in DOMAIN Table \ {0} /\ Boots[2] \in Nat \ {0}
  <2>1. PICK j \in Links(Boot(1)) : Boots[1 + 1] = 0 + Boot(1)[j].start_lba
    BY <1>2, <1>5, <1>6
  <2>2. j \in Links(Table[0]) /\ Table[0][j].start_lba \in Nat
    BY <1>2, <1>4, <2>1 DEF Boot, WellLinked, Links
  <2>3. Boots[2] = Table[0][j].start_lba
    BY <1>4, <2>1, <2>2 DEF Boot
  <2>4. Table[0][j].start_lba \in DOMAIN Table \ {0}
    BY <1>2, <2>2 DEF WellLinked
  <2> QED BY <2>2, <2>3, <2>4
<1>7. ASSUME NEW k \in 1..Len(Boots), k # 1 PROVE Boots[k] # 0
  <2>1. CASE k = 2
    BY <1>2, <1>6, <1>7, <2>1
  <2>2. CASE k # 2
    <3>1. k - 1 \in 1..Len(Boots) /\ k - 1 < Len(Boots) /\ (k - 1) + 1 = k /\ k - 1 # 1 /\ Len(Boots) > 1
      BY <1>2, <1>7, <2>2
    <3>2. PICK j \in Links(Boot(k - 1)) : Boots[k] = Boots[2] + Boot(k - 1)[j].start_lba
      BY <1>5, <3>1
    <3>3. Boot(k - 1)[j].start_lba \in Nat
      BY <1>2, <1>3, <3>1, <3>2 DEF Boot, WellLinked, Links
    <3> QED BY <1>6, <3>1, <3>2, <3>3
  <2> QED BY <2>1, <2>2
<1>8. ASSUME NEW k \in 1..Len(Boots), k # 1
      PROVE  /\ \A i, j \in Links(Boot(k)) : i = j
             /\ \A i, j \in Data(Boot(k)) : i = j
             /\ \A i \in Data(Boot(k)), j \in Links(Boot(k)) : i < j
  <2>1. Boots[k] \in DOMAIN Table \ {0}
    BY <1>3, <1>7, <1>8
  <2> QED BY <1>2, <2>1 DEF WellChained, Boot
<1>9. \A i, j \in Links(Boot(1)) : i = j
  BY <1>2, <1>4 DEF WellLinked, Boot
<1>10. ASSUME NEW k \in 1..Len(Boots) PROVE \A i, j \in Links(Boot(k)) : i = j
  BY <1>8, <1>9
<1> QED BY <1>1, <1>2, <1>3, <1>4, <1>5, <1>7, <1>8, <1>10

\* The innermost call is at its place, and what it reads is of the path.
LEMMA AtBoot ==
    ASSUME OneOutcome, StackInv, OnPath, AtEntry
    PROVE  /\ Len(stack) \in 1..Len(Boots) /\ Len(stack) \in Nat \ {0} /\ CallAt(Len(stack)) = stack[1]
           /\ stack[1].idx \in 1..4 /\ Entry = Boot(Len(stack))[stack[1].idx]
           /\ stack[1].base + stack[1].offset = Boots[Len(stack)]
           /\ stack[1].base = 0 <=> Len(stack) = 1
           /\ stack[1].base # 0 => stack[1].base = Boots[2]
<1>1. /\ stack # <<>> /\ Len(stack) \in Nat \ {0} /\ stack[1] \in Frame /\ stack[1].idx \in 1..4
      /\ Entry = Table[stack[1].base + stack[1].offset][stack[1].idx]
      /\ (stack[1].base = 0 <=> Len(stack) = 1) /\ InTable(Table, stack[1])
  BY EntryIs DEF AtEntry
<1>2. /\ Len(Boots) \in Nat \ {0} /\ Boots[1] = 0
      /\ \A i, j \in Links(Boot(1)) : i = j
      /\ 1 < Len(Boots) => \E j \in Links(Boot(1)) :
            Boots[1 + 1] = (IF 1 = 1 THEN 0 ELSE Boots[2]) + Boot(1)[j].start_lba
  BY <1>1, BootsAre
<1>3. Len(stack) \in 1..Len(Boots) /\ (Len(stack) + 1) - Len(stack) = 1
  BY <1>1, <1>2 DEF OnPath
<1>4. CallAt(Len(stack)) = stack[1]
  BY <1>3 DEF CallAt
<1>5. stack[1].base + stack[1].offset = Boots[Len(stack)]
  BY <1>1, <1>3, <1>4 DEF OnPath
<1>6. ASSUME stack[1].base # 0 PROVE stack[1].base = Boots[2]
  <2>1. PICK k \in Links(Table[0]) : stack[1].base = Table[0][k].start_lba
    BY <1>1, <1>6 DEF InTable
  <2>2. 1 < Len(Boots)
    <3> PICK n, m : n = Len(stack) /\ m = Len(Boots)
      OBVIOUS
    <3>1. n # 1 /\ m \in Nat
      BY <1>1, <1>2, <1>6
    <3>2. n \in 1..m
      BY <1>3
    <3> QED BY <3>1, <3>2
  <2>3. PICK j \in Links(Boot(1)) : Boots[2] = 0 + Boot(1)[j].start_lba
    BY <1>2, <2>2
  <2>4. Boot(1) = Table[0]
    BY <1>2 DEF Boot
  <2>5. j = k /\ Boot(1)[j].start_lba = stack[1].base /\ stack[1].base \in Nat
    BY <1>1, <1>2, <2>1, <2>3, <2>4 DEF Frame
  <2> QED BY <2>3, <2>5
<1> QED BY <1>1, <1>3, <1>4, <1>5, <1>6 DEF Boot

\* What was passed is told by the indices of the calls.  A step that leaves the
\* list alone and passes no partition keeps everything.
LEMMA SamePassed ==
    ASSUME StackInv, OneOutcome, ListExact, CounterExact, stack # <<>>, stack' # <<>>,
           UNCHANGED <<bs, hd, ptn_list>>,
           Len(stack') > 1 => \/ Len(stack) > 1 /\ ptn_nr' = ptn_nr
                              \/ Counted' = {} /\ ptn_nr' = 5,
           \A k \in 1..Len(Boots) : \A i \in Data(Boot(k)) : Past(k, i)' <=> Past(k, i)
    PROVE  ListExact' /\ CounterExact'
<1>1. Drive' = Drive /\ Boots' = Boots /\ Table' = Table /\ Ptn' = Ptn
  BY DEF Drive, Boots, PathOf, Paths, IsPath, Table, Ptn
<1>2. \A k : Boot(k)' = Boot(k)
  BY <1>1 DEF Boot
<1>3. \A d : Partitions(d)' = Partitions(d)
  BY DEF Partitions, PartitionAt, PathOf, Paths, IsPath
<1>4. \A k, i : PartitionAt(Drive, Boots, k, i)' = PartitionAt(Drive, Boots, k, i)
  BY <1>1 DEF PartitionAt
<1>5. \A p : Found(p)' <=> Found(p)
  BY <1>1, <1>2, <1>3, <1>4 DEF Found
<1>6. Counted' = Counted
  <2>1. \A k \in 2..Len(Boots) : k \in 1..Len(Boots)
    BY BootsAre
  <2> QED BY <1>1, <1>2, <2>1 DEF Counted
<1>7. CounterExact'
  BY <1>6, FS_EmptySet DEF CounterExact
<1> QED BY <1>1, <1>5, <1>7 DEF ListExact


\* The loop of the innermost call goes on to the next entry.
LEMMA NextCalls ==
    ASSUME StackInv, AtEntry
    PROVE  LET t == NextEntry IN
           /\ Len(t) = Len(stack) /\ t # <<>>
           /\ \A k \in 1..Len(stack) :
                 LET c == t[Len(stack) + 1 - k] IN
                 /\ c.base = CallAt(k).base /\ c.offset = CallAt(k).offset
                 /\ k < Len(stack) => c.idx = CallAt(k).idx
                 /\ k = Len(stack) => c.idx = stack[1].idx + 1 /\ CallAt(k) = stack[1]
<1> DEFINE t == NextEntry
<1>1. stack \in Seq(Frame) /\ stack # <<>>
  BY DEF StackInv, AtEntry
<1>2. /\ t \in Seq(Frame) /\ Len(t) = Len(stack) /\ Len(stack) \in Nat \ {0}
      /\ t[1].base = stack[1].base /\ t[1].offset = stack[1].offset /\ t[1].idx = stack[1].idx + 1
      /\ \A i \in 1..Len(stack) : i # 1 => t[i] = stack[i]
  BY <1>1, NextEntryIs
<1> HIDE DEF t
<1>3. ASSUME NEW k \in 1..Len(stack)
      PROVE  /\ t[Len(stack) + 1 - k].base = CallAt(k).base /\ t[Len(stack) + 1 - k].offset = CallAt(k).offset
             /\ k < Len(stack) => t[Len(stack) + 1 - k].idx = CallAt(k).idx
             /\ k = Len(stack) => t[Len(stack) + 1 - k].idx = stack[1].idx + 1 /\ CallAt(k) = stack[1]
  <2>1. CASE k = Len(stack)
    <3>1. Len(stack) + 1 - k = 1
      BY <1>2, <2>1
    <3> QED BY <1>2, <2>1, <3>1 DEF CallAt
  <2>2. CASE k # Len(stack)
    <3>1. Len(stack) + 1 - k \in 1..Len(stack) /\ Len(stack) + 1 - k # 1
      BY <1>2, <2>2
    <3> QED BY <1>2, <2>2, <3>1 DEF CallAt
  <2> QED BY <2>1, <2>2
<1>4. t # <<>>
  BY <1>2
<1> QED BY <1>2, <1>3, <1>4 DEF t

\* An entry that is no link is passed, and no other.
LEMMA NextPasses ==
    ASSUME OneOutcome, StackInv, OnPath, AtEntry, Entry.type # EXTENDED,
           stack' = NextEntry, UNCHANGED <<bs, hd>>
    PROVE  /\ OnPath' /\ Len(stack') = Len(stack) /\ stack # <<>> /\ stack' # <<>>
           /\ \A k \in 1..Len(Boots) : \A i \in Data(Boot(k)) :
                 Past(k, i)' <=> Past(k, i) \/ (k = Len(stack) /\ i = stack[1].idx)
<1>1. /\ Len(stack) \in 1..Len(Boots) /\ stack[1].idx \in 1..4 /\ Entry = Boot(Len(stack))[stack[1].idx]
      /\ CallAt(Len(stack)) = stack[1] /\ Len(Boots) \in Nat
  BY AtBoot, BootsAre DEF AtEntry
<1>2. Drive' = Drive /\ Boots' = Boots /\ Table' = Table
  BY DEF Drive, Boots, PathOf, Paths, IsPath, Table
<1>3. \A k : Boot(k)' = Boot(k)
  BY <1>2 DEF Boot
<1>4. /\ Len(stack') = Len(stack) /\ stack # <<>> /\ stack' # <<>>
      /\ \A k \in 1..Len(stack) :
            /\ CallAt(k)'.base = CallAt(k).base /\ CallAt(k)'.offset = CallAt(k).offset
            /\ k < Len(stack) => CallAt(k)'.idx = CallAt(k).idx
      /\ CallAt(Len(stack))'.idx = stack[1].idx + 1
  BY <1>1, NextCalls DEF CallAt, AtEntry
<1>5. OnPath'
  <2>1. \A k \in 1..Len(stack) :
           /\ CallAt(k)'.base + CallAt(k)'.offset = Boots[k]
           /\ k < Len(stack) => \E j \in Links(Boot(k)) : j < CallAt(k)'.idx
    BY <1>4 DEF OnPath
  <2> QED BY <1>1, <1>2, <1>3, <1>4, <2>1 DEF OnPath
<1>6. ASSUME NEW k \in 1..Len(Boots), NEW i \in Data(Boot(k))
      PROVE  Past(k, i)' <=> Past(k, i) \/ (k = Len(stack) /\ i = stack[1].idx)
  <2>1. i \in 1..4
    BY DEF Data
  <2>2. CASE k < Len(stack)
    <3>1. k \in 1..Len(stack) /\ k <= Len(stack) /\ k # Len(stack)
      BY <1>1, <2>2
    <3> QED BY <1>4, <3>1 DEF Past
  <2>3. CASE k = Len(stack)
    <3>1. Past(k, i)' <=> i < stack[1].idx + 1
      BY <1>1, <1>4, <2>3 DEF Past
    <3>2. Past(k, i) <=> i < stack[1].idx
      BY <1>1, <2>3 DEF Past
    <3> QED BY <1>1, <2>1, <2>3, <3>1, <3>2
  <2>4. CASE k > Len(stack)
    <3>1. ~(k <= Len(stack)) /\ k # Len(stack)
      BY <1>1, <2>4
    <3>2. \A j \in Links(Boot(Len(stack))) : j < stack[1].idx + 1 <=> j < stack[1].idx
      <4>1. stack[1].idx \notin Links(Boot(Len(stack)))
        BY <1>1 DEF Links
      <4>2. \A j \in Links(Boot(Len(stack))) : j \in 1..4 /\ j # stack[1].idx
        BY <4>1 DEF Links
      <4> QED BY <1>1, <4>2
    <3>3. Past(k, i)' <=> \E j \in Links(Boot(Len(stack))) : j < stack[1].idx + 1
      BY <1>3, <1>4, <3>1 DEF Past
    <3>4. Past(k, i) <=> \E j \in Links(Boot(Len(stack))) : j < stack[1].idx
      BY <1>1, <3>1 DEF Past
    <3> QED BY <3>1, <3>2, <3>3, <3>4
  <2> QED BY <1>1, <2>2, <2>3, <2>4
<1> QED BY <1>4, <1>5, <1>6

LEMMA SkipExact ==
    ASSUME OneOutcome, StackInv, ExactInv, SkipUnused
    PROVE  ExactInv'
<1>1. /\ AtEntry /\ Entry.type = 0 /\ stack' = NextEntry /\ UNCHANGED <<bs, hd, ptn_nr, ptn_list>>
      /\ OnPath /\ ListExact /\ CounterExact
  BY DEF SkipUnused, ExactInv
<1>2. /\ OnPath' /\ Len(stack') = Len(stack) /\ stack # <<>> /\ stack' # <<>>
      /\ \A k \in 1..Len(Boots) : \A i \in Data(Boot(k)) :
            Past(k, i)' <=> Past(k, i) \/ (k = Len(stack) /\ i = stack[1].idx)
  BY <1>1, NextPasses DEF EXTENDED
<1>3. stack[1].idx \notin Data(Boot(Len(stack)))
  BY <1>1, AtBoot DEF Data
<1>4. \A k \in 1..Len(Boots) : \A i \in Data(Boot(k)) : Past(k, i)' <=> Past(k, i)
  BY <1>2, <1>3
<1> QED BY <1>1, <1>2, <1>4, SamePassed DEF ExactInv


\* The counter has the number of the logical partition at hand, and is one more
\* when it has been passed.
LEMMA RecordCounts ==
    ASSUME OneOutcome, StackInv, OnPath, AtEntry, Entry.type \notin {0, EXTENDED}, Len(stack) > 1,
           CounterExact,
           Counted' = {k \in 2..Len(Boots) : \E i \in Data(Boot(k)) :
                          Past(k, i) \/ (k = Len(stack) /\ i = stack[1].idx)}
    PROVE  /\ ptn_nr = 4 + Cardinality({j \in 2..Len(stack) : Data(Boot(j)) # {}})
           /\ ptn_nr + 1 = 5 + Cardinality(Counted')
<1> DEFINE n == Len(stack)
           full == {j \in 2..n : Data(Boot(j)) # {}}
<1>1. /\ n \in 1..Len(Boots) /\ n \in Nat /\ n # 1 /\ Len(Boots) \in Nat
      /\ CallAt(n) = stack[1] /\ stack[1].idx \in Data(Boot(n))
  <2>1. /\ n \in 1..Len(Boots) /\ Entry = Boot(n)[stack[1].idx]
        /\ stack[1].idx \in 1..4 /\ CallAt(n) = stack[1]
    BY AtBoot
  <2>2. Len(Boots) \in Nat
    BY BootsAre DEF AtEntry
  <2>3. stack[1].idx \in Data(Boot(n))
    BY <2>1 DEF Data
  <2>4. n \in Nat /\ n # 1
    BY DEF StackInv
  <2> QED BY <2>1, <2>2, <2>3, <2>4
<1>2. \A k \in 1..Len(Boots) : k # 1 =>
          /\ \A i, j \in Data(Boot(k)) : i = j
          /\ \A i \in Data(Boot(k)), j \in Links(Boot(k)) : i < j
  BY BootsAre DEF AtEntry
<1>3. \A k : \A i \in Data(Boot(k)) \cup Links(Boot(k)) : i \in 1..4
  BY DEF Data, Links
<1> HIDE DEF n
<1>4. n \notin Counted
  <2> SUFFICES ASSUME NEW i \in Data(Boot(n)), Past(n, i) PROVE FALSE
    BY DEF Counted
  <2>1. i = stack[1].idx /\ i \in 1..4
    BY <1>1, <1>2, <1>3
  <2>2. i < stack[1].idx
    BY <1>1 DEF Past, n
  <2> QED BY <2>1, <2>2
<1>5. ASSUME NEW k \in 2..Len(Boots), k < n PROVE k \in Counted <=> Data(Boot(k)) # {}
  <2>1. k \in 1..n /\ k \in 1..Len(Boots) /\ k # 1 /\ k <= n
    BY <1>1, <1>5
  <2>2. PICK j \in Links(Boot(k)) : j < CallAt(k).idx
    BY <1>5, <2>1 DEF OnPath, n, AtEntry
  <2>3. CallAt(k).idx \in Nat
    <3>1. stack \in Seq(Frame) /\ Len(stack) + 1 - k \in 1..Len(stack)
      BY <1>1, <2>1 DEF StackInv, n
    <3>2. CallAt(k) \in Frame
      BY <3>1 DEF CallAt
    <3> QED BY <3>2 DEF Frame
  <2>4. ASSUME NEW i \in Data(Boot(k)) PROVE Past(k, i)
    <3>1. i < j /\ i \in 1..4 /\ j \in 1..4
      BY <1>2, <1>3, <2>1
    <3>2. i < CallAt(k).idx
      BY <2>2, <2>3, <3>1
    <3> QED BY <2>1, <3>2 DEF Past, n
  <2> QED BY <2>4 DEF Counted
<1>6. ASSUME NEW k \in 2..Len(Boots), k > n PROVE k \notin Counted
  <2>1. ~(k <= n)
    BY <1>1, <1>6
  <2>2. ASSUME NEW j \in Links(Boot(n)), j < stack[1].idx PROVE FALSE
    <3>1. stack[1].idx < j /\ j \in 1..4 /\ stack[1].idx \in 1..4
      BY <1>1, <1>2, <1>3
    <3> QED BY <2>2, <3>1
  <2> QED BY <1>1, <2>1, <2>2 DEF Counted, Past, n
<1>7. full = Counted \cup {n} /\ Counted' = Counted \cup {n}
  <2>1. \A k : k \in full <=> k \in 2..Len(Boots) /\ k <= n /\ Data(Boot(k)) # {}
    <3>1. \A k : k \in 2..n <=> k \in 2..Len(Boots) /\ k <= n
      BY <1>1
    <3> QED BY <3>1
  <2>2. n \in full
    BY <1>1, <2>1
  <2>3. ASSUME NEW k \in 2..Len(Boots) PROVE k \in full <=> k \in Counted \cup {n}
    <3>1. k < n \/ k = n \/ k > n
      BY <1>1
    <3>2. CASE k < n
      <4>1. k <= n /\ k # n
        BY <1>1, <3>2
      <4> QED BY <1>5, <2>1, <3>2, <4>1
    <3>3. CASE k = n
      BY <2>2, <3>3
    <3>4. CASE k > n
      <4>1. ~(k <= n) /\ k # n
        BY <1>1, <3>4
      <4> QED BY <1>6, <2>1, <3>4, <4>1
    <3> QED BY <3>1, <3>2, <3>3, <3>4
  <2>4. \A k : k \in Counted => k \in 2..Len(Boots)
    BY DEF Counted
  <2>5. n \in 2..Len(Boots)
    BY <1>1
  <2>6. full = Counted \cup {n}
    BY <2>1, <2>3, <2>4, <2>5
  <2>7. \A k : k \in Counted' <=> k \in Counted \cup {n}
    <3> HIDE DEF full
    <3>1. ASSUME NEW k \in 2..Len(Boots)
          PROVE  (\E i \in Data(Boot(k)) : Past(k, i) \/ (k = n /\ i = stack[1].idx)) <=> k \in Counted \cup {n}
      BY <1>1, <3>1 DEF Counted
    <3> QED BY <2>4, <2>5, <3>1 DEF n
  <2> QED BY <2>6, <2>7
<1>8. Cardinality(full) = Cardinality(Counted) + 1 /\ Cardinality(Counted) \in Nat
  <2>1. IsFiniteSet(2..Len(Boots)) /\ Counted \subseteq 2..Len(Boots)
    BY <1>1, FS_Interval DEF Counted
  <2>2. IsFiniteSet(Counted)
    BY <2>1, FS_Subset
  <2> HIDE DEF full
  <2> QED BY <1>4, <1>7, <2>2, FS_AddElement, FS_CardinalityType
<1>9. ptn_nr = 5 + Cardinality(Counted)
  BY DEF CounterExact
<1>10. Cardinality(Counted') = Cardinality(full)
  BY <1>7
<1> HIDE DEF full
<1>11. ptn_nr = 4 + Cardinality(full) /\ ptn_nr + 1 = 5 + Cardinality(full)
  BY <1>8, <1>9
<1> QED BY <1>10, <1>11 DEF n, full

LEMMA RecordExact ==
    ASSUME OneOutcome, StackInv, ListIsSeq, ExactInv, Record
    PROVE  ExactInv'
<1> DEFINE c == stack[1]
           n == Len(stack)
           nr == IF c.base = 0 THEN c.idx ELSE ptn_nr
           e == Partition(nr, c.base + c.offset + Entry.start_lba, Entry.sec_cnt)
<1>1. /\ AtEntry /\ stack # <<>> /\ Entry.type \notin {0, EXTENDED} /\ stack' = NextEntry
      /\ UNCHANGED <<bs, hd>> /\ OnPath /\ ListExact /\ CounterExact
  BY DEF Record, AtEntry, ExactInv
<1>2. /\ n \in 1..Len(Boots) /\ n \in Nat \ {0} /\ CallAt(n) = c /\ c.idx \in 1..4 /\ Entry = Boot(n)[c.idx]
      /\ c.base + c.offset = Boots[n] /\ (c.base = 0 <=> n = 1) /\ c = Head(stack)
  BY <1>1, AtBoot, EntryIs
<1>3. ptn_list' = Append(ptn_list, e) /\ ptn_nr' = IF c.base = 0 THEN ptn_nr ELSE ptn_nr + 1
  BY <1>2 DEF Record
<1>4. c.idx \in Data(Boot(n))
  BY <1>1, <1>2 DEF Data
<1>5. /\ OnPath' /\ Len(stack') = n /\ stack' # <<>>
      /\ \A k \in 1..Len(Boots) : \A i \in Data(Boot(k)) :
            Past(k, i)' <=> Past(k, i) \/ (k = n /\ i = c.idx)
  BY <1>1, NextPasses
<1>6. Drive' = Drive /\ Boots' = Boots /\ Table' = Table
  BY <1>1 DEF Drive, Boots, PathOf, Paths, IsPath, Table
<1>7. \A k : Boot(k)' = Boot(k)
  BY <1>6 DEF Boot
<1>8. Counted' = {k \in 2..Len(Boots) : \E i \in Data(Boot(k)) : Past(k, i) \/ (k = n /\ i = c.idx)}
  <2>1. \A k \in 2..Len(Boots) : k \in 1..Len(Boots)
    BY <1>1, BootsAre
  <2> QED BY <1>5, <1>6, <1>7, <2>1 DEF Counted
<1>9. n > 1 => /\ ptn_nr = 4 + Cardinality({j \in 2..n : Data(Boot(j)) # {}})
               /\ ptn_nr + 1 = 5 + Cardinality(Counted')
  BY <1>1, <1>8, RecordCounts
<1>10. n > 1 <=> c.base # 0
  <2> HIDE DEF n
  <2> QED BY <1>2
<1>11. CounterExact'
  BY <1>3, <1>5, <1>9, <1>10 DEF CounterExact
<1>12. e = PartitionAt(Drive, Boots, n, c.idx)
  <2>1. nr = IF n = 1 THEN c.idx ELSE 4 + Cardinality({j \in 2..n : Data(bs[Drive][Boots[j]]) # {}})
    BY <1>2, <1>9, <1>10 DEF Boot, Table
  <2>2. Entry = bs[Drive][Boots[n]][c.idx]
    BY <1>2 DEF Boot, Table
  <2> HIDE DEF nr
  <2> QED BY <1>2, <2>1, <2>2 DEF Partition, PartitionAt
<1> HIDE DEF e
<1>13. Ptn' = Ptn \cup {e}
  BY <1>3, PtnGrows
<1>14. /\ \A d : Partitions(d)' = Partitions(d)
       /\ \A k, i : PartitionAt(Drive, Boots, k, i)' = PartitionAt(Drive, Boots, k, i)
  BY <1>1, <1>6 DEF Partitions, PartitionAt, PathOf, Paths, IsPath
<1>15. ASSUME NEW p PROVE Found(p)' <=> Found(p) \/ p = e
  <2>1. (\E h \in 1..hd : (h = hd => stack = <<>>) /\ p \in Partitions(Hds[h]))'
           <=> \E h \in 1..hd : (h = hd => stack = <<>>) /\ p \in Partitions(Hds[h])
    BY <1>1, <1>5, <1>14
  <2>2. (\E k \in 1..Len(Boots) : \E i \in Data(Boot(k)) : Past(k, i) /\ p = PartitionAt(Drive, Boots, k, i))'
           <=> \/ \E k \in 1..Len(Boots) : \E i \in Data(Boot(k)) :
                     Past(k, i) /\ p = PartitionAt(Drive, Boots, k, i)
               \/ p = e
    BY <1>2, <1>4, <1>5, <1>6, <1>7, <1>12, <1>14
  <2> QED BY <1>1, <1>5, <2>1, <2>2 DEF Found
<1>16. ListExact'
  BY <1>1, <1>13, <1>15 DEF ListExact
<1> QED BY <1>5, <1>11, <1>16 DEF ExactInv

LEMMA EnterExact ==
    ASSUME OneOutcome, StackInv, ExactInv, EnterExtended
    PROVE  ExactInv'
<1> PICK n : n = Len(stack)
  OBVIOUS
<1> DEFINE c == stack[1]
           t == NextEntry
           base == IF c.base = 0 THEN Entry.start_lba ELSE c.base
           offset == IF c.base = 0 THEN 0 ELSE Entry.start_lba
<1>1. /\ AtEntry /\ stack # <<>> /\ Entry.type = EXTENDED
      /\ UNCHANGED <<bs, hd, ptn_list>> /\ OnPath /\ ListExact /\ CounterExact
  BY DEF EnterExtended, AtEntry, ExactInv
<1>2. /\ n \in 1..Len(Boots) /\ n \in Nat \ {0} /\ CallAt(n) = c /\ c.idx \in 1..4 /\ Entry = Boot(n)[c.idx]
      /\ (c.base = 0 <=> n = 1) /\ (c.base # 0 => c.base = Boots[2])
      /\ c = Head(stack) /\ c \in Frame /\ Entry.start_lba \in Nat
  BY <1>1, AtBoot, EntryIs
<1>3. /\ Len(Boots) \in Nat /\ Links(Boot(Len(Boots))) = {}
      /\ \A i, j \in Links(Boot(n)) : i = j
      /\ n < Len(Boots) => \E j \in Links(Boot(n)) :
            Boots[n + 1] = (IF n = 1 THEN 0 ELSE Boots[2]) + Boot(n)[j].start_lba
  BY <1>1, <1>2, BootsAre
<1>4. c.idx \in Links(Boot(n))
  BY <1>1, <1>2 DEF Links
<1>5. n < Len(Boots)
  <2>1. n # Len(Boots)
    BY <1>3, <1>4
  <2> QED BY <1>2, <1>3, <2>1
<1>6. /\ base \in Nat /\ offset \in Nat /\ base + offset = Boots[n + 1]
      /\ stack' = <<Call(base, offset)>> \o t /\ ptn_nr' = IF n = 1 THEN 5 ELSE ptn_nr
  <2>1. PICK j \in Links(Boot(n)) : Boots[n + 1] = (IF n = 1 THEN 0 ELSE Boots[2]) + Boot(n)[j].start_lba
    BY <1>3, <1>5
  <2>2. j = c.idx
    BY <1>3, <1>4, <2>1
  <2>3. Boots[n + 1] = (IF n = 1 THEN 0 ELSE Boots[2]) + Entry.start_lba
    BY <1>2, <2>1, <2>2
  <2>4. base \in Nat /\ offset \in Nat
    BY <1>2 DEF Frame
  <2>5. base + offset = Boots[n + 1]
    <3>1. CASE n = 1
      BY <1>2, <2>3, <3>1
    <3>2. CASE n # 1
      BY <1>2, <2>3, <3>2
    <3> QED BY <3>1, <3>2
  <2>6. stack' = <<Call(base, offset)>> \o t /\ ptn_nr' = IF n = 1 THEN 5 ELSE ptn_nr
    BY <1>2 DEF EnterExtended
  <2> QED BY <2>4, <2>5, <2>6
<1> HIDE DEF base, offset
<1>7. Call(base, offset) \in Frame /\ t \in Seq(Frame) /\ Len(t) = n
  BY <1>1, <1>6, NextEntryIs DEF Call, Frame, StackInv
<1>8. /\ Len(stack') = n + 1 /\ stack' # <<>> /\ stack'[1] = Call(base, offset)
      /\ \A i \in 2..(n + 1) : stack'[i] = t[i - 1]
  BY <1>6, <1>7, PushIs
<1>9. \A k \in 1..n :
         /\ CallAt(k)'.base = CallAt(k).base /\ CallAt(k)'.offset = CallAt(k).offset
         /\ k < n => CallAt(k)'.idx = CallAt(k).idx
         /\ k = n => CallAt(k)'.idx = c.idx + 1
  <2> SUFFICES ASSUME NEW k \in 1..n
               PROVE  /\ CallAt(k)'.base = CallAt(k).base /\ CallAt(k)'.offset = CallAt(k).offset
                      /\ k < n => CallAt(k)'.idx = CallAt(k).idx
                      /\ k = n => CallAt(k)'.idx = c.idx + 1
    OBVIOUS
  <2>1. CallAt(k)' = t[n + 1 - k]
    <3>1. (n + 1) + 1 - k \in 2..(n + 1) /\ ((n + 1) + 1 - k) - 1 = n + 1 - k
      BY <1>2
    <3> QED BY <1>8, <3>1 DEF CallAt
  <2> HIDE DEF t
  <2>2. /\ t[n + 1 - k].base = CallAt(k).base /\ t[n + 1 - k].offset = CallAt(k).offset
        /\ k < n => t[n + 1 - k].idx = CallAt(k).idx
        /\ k = n => t[n + 1 - k].idx = c.idx + 1
    BY <1>1, NextCalls DEF t
  <2> QED BY <2>1, <2>2
<1>10. CallAt(n + 1)' = Call(base, offset)
  <2>1. (n + 1) + 1 - (n + 1) = 1
    BY <1>2
  <2> QED BY <1>8, <2>1 DEF CallAt
<1>11. Drive' = Drive /\ Boots' = Boots /\ Table' = Table
  BY <1>1 DEF Drive, Boots, PathOf, Paths, IsPath, Table
<1>12. \A k : Boot(k)' = Boot(k)
  BY <1>11 DEF Boot
<1> HIDE DEF t
<1>13. OnPath'
  <2>0. \A k \in 1..n : /\ CallAt(k).base + CallAt(k).offset = Boots[k]
                        /\ k < n => \E j \in Links(Boot(k)) : j < CallAt(k).idx
    BY <1>1 DEF OnPath
  <2>1. ASSUME NEW k \in 1..(n + 1)
        PROVE  /\ CallAt(k)'.base + CallAt(k)'.offset = Boots[k]
               /\ k < n + 1 => \E j \in Links(Boot(k)) : j < CallAt(k)'.idx
    <3> HIDE DEF c
    <3>1. CASE k = n + 1
      BY <1>2, <1>6, <1>10, <3>1 DEF Call
    <3>2. CASE k = n
      <4>1. n \in 1..n /\ c.idx < c.idx + 1
        BY <1>2
      <4>2. CallAt(n)'.base + CallAt(n)'.offset = Boots[n]
        BY <1>9, <2>0, <4>1
      <4> QED BY <1>4, <1>9, <3>2, <4>1, <4>2
    <3>3. CASE k < n
      <4>1. k \in 1..n
        BY <1>2, <3>3
      <4>2. CallAt(k).base + CallAt(k).offset = Boots[k] /\ \E j \in Links(Boot(k)) : j < CallAt(k).idx
        BY <2>0, <3>3, <4>1
      <4> QED BY <1>9, <3>3, <4>1, <4>2
    <3> QED BY <1>2, <3>1, <3>2, <3>3
  <2>2. n + 1 <= Len(Boots)
    BY <1>2, <1>3, <1>5
  <2> QED BY <1>8, <1>11, <1>12, <2>1, <2>2 DEF OnPath
<1>14. \A k \in 1..Len(Boots) : k > n => \A i \in Data(Boot(k)) : ~Past(k, i) /\ ~Past(k, i)'
  <2> SUFFICES ASSUME NEW k \in 1..Len(Boots), k > n, NEW i \in Data(Boot(k))
               PROVE  ~Past(k, i) /\ ~Past(k, i)'
    OBVIOUS
  <2>1. ~Past(k, i)
    <3>1. ~(k <= n)
      BY <1>2
    <3>2. \A j \in Links(Boot(n)) : ~(j < c.idx)
      BY <1>2, <1>3, <1>4
    <3> QED BY <1>2, <3>1, <3>2 DEF Past
  <2>2. ~Past(k, i)'
    <3>0. Past(k, i)' <=> IF k <= n + 1 THEN i < CallAt(k)'.idx
                          ELSE \E j \in Links(Boot(n + 1)) : j < CallAt(n + 1)'.idx
      BY <1>8, <1>12 DEF Past
    <3>1. CallAt(n + 1)'.idx = 1
      BY <1>10 DEF Call
    <3>2. CASE k = n + 1
      <4>1. k <= n + 1 /\ ~(i < 1)
        BY <1>2, <3>2 DEF Data
      <4> QED BY <3>0, <3>1, <3>2, <4>1
    <3>3. CASE k # n + 1
      <4>1. ~(k <= n + 1)
        BY <1>2, <3>3
      <4>2. \A j \in Links(Boot(n + 1)) : ~(j < 1)
        BY DEF Links
      <4> QED BY <3>0, <3>1, <4>1, <4>2
    <3> QED BY <3>2, <3>3
  <2> QED BY <2>1, <2>2
<1>15. ASSUME NEW k \in 1..Len(Boots), NEW i \in Data(Boot(k)) PROVE Past(k, i)' <=> Past(k, i)
  <2>1. CASE k > n
    BY <1>14, <2>1
  <2>2. CASE k < n
    <3>1. k \in 1..n /\ k <= n /\ k <= n + 1
      BY <1>2, <2>2
    <3> QED BY <1>8, <1>9, <2>2, <3>1 DEF Past
  <2>3. CASE k = n
    <3>1. k \in 1..n /\ k <= n /\ k <= n + 1
      BY <1>2, <2>3
    <3>2. (Past(k, i)' <=> i < c.idx + 1) /\ (Past(k, i) <=> i < c.idx)
      BY <1>2, <1>8, <1>9, <2>3, <3>1 DEF Past
    <3>3. i \in 1..4 /\ i # c.idx
      BY <1>1, <1>2, <2>3 DEF Data
    <3> QED BY <1>2, <3>2, <3>3
  <2> QED BY <1>2, <2>1, <2>2, <2>3
<1>16. n = 1 => Counted' = {} /\ ptn_nr' = 5
  <2> SUFFICES ASSUME n = 1 PROVE Counted' = {}
    BY <1>6
  <2>1. \A k \in 2..Len(Boots) : k > n /\ k \in 1..Len(Boots)
    BY <1>2
  <2> QED BY <1>11, <1>12, <1>14, <2>1 DEF Counted
<1>17. n # 1 => n > 1 /\ ptn_nr' = ptn_nr
  BY <1>2, <1>6
<1> QED BY <1>1, <1>8, <1>13, <1>15, <1>16, <1>17, SamePassed DEF ExactInv


\* The innermost call returns; the last one is done with the drive.
LEMMA EndExact ==
    ASSUME OneOutcome, StackInv, ExactInv, EndOfTable
    PROVE  ExactInv'
<1> PICK n : n = Len(stack)
  OBVIOUS
<1>1. /\ stack # <<>> /\ ~AtEntry /\ stack' = Tail(stack) /\ UNCHANGED <<bs, hd, ptn_nr, ptn_list>>
      /\ OnPath /\ ListExact /\ CounterExact /\ stack \in Seq(Frame)
  BY DEF EndOfTable, ExactInv, StackInv
<1>2. /\ n \in Nat \ {0} /\ Len(stack') = n - 1 /\ \A k \in 1..(n - 1) : stack'[k] = stack[k + 1]
  BY <1>1, HeadTailProperties
<1>3. CallAt(n) = stack[1] /\ stack[1].idx \in Nat /\ stack[1].idx > 4
  <2>1. (n + 1) - n = 1 /\ stack[1] \in Frame /\ Head(stack) = stack[1]
    BY <1>1, <1>2
  <2>2. stack[1].idx \in Nat /\ ~(stack[1].idx <= 4)
    BY <1>1, <2>1 DEF AtEntry, Frame
  <2> QED BY <2>1, <2>2 DEF CallAt
<1>4. /\ Len(Boots) \in Nat \ {0} /\ n <= Len(Boots) /\ hd \in 1..Len(Hds) /\ Drive = Hds[hd]
      /\ \A k \in 1..Len(Boots) : k < Len(Boots) => \E j \in Links(Boot(k)) : j \in 1..4
  <2>1. \A k : \A j \in Links(Boot(k)) : j \in 1..4
    BY DEF Links
  <2>2. \A k \in 1..Len(Boots) : k < Len(Boots) => Links(Boot(k)) # {}
    BY <1>1, BootsAre
  <2>3. Len(Boots) \in Nat \ {0} /\ hd \in 1..Len(Hds) /\ Drive = Hds[hd]
    BY <1>1, BootsAre
  <2> QED BY <1>1, <2>1, <2>2, <2>3 DEF OnPath
<1>5. Drive' = Drive /\ Boots' = Boots /\ Table' = Table /\ Ptn' = Ptn
  BY <1>1 DEF Drive, Boots, PathOf, Paths, IsPath, Table, Ptn
<1>6. \A k : Boot(k)' = Boot(k)
  BY <1>5 DEF Boot
<1>7. ASSUME NEW k \in 1..Len(Boots), NEW i \in Data(Boot(k)), k >= n PROVE Past(k, i)
  <2>1. i \in 1..4
    BY DEF Data
  <2>2. CASE k = n
    <3>1. k <= n /\ i < stack[1].idx
      BY <1>2, <1>3, <2>1, <2>2
    <3> QED BY <1>3, <2>2, <3>1 DEF Past
  <2>3. CASE k # n
    <3>1. ~(k <= n) /\ n \in 1..Len(Boots) /\ n < Len(Boots)
      BY <1>2, <1>4, <1>7, <2>3
    <3>2. PICK j \in Links(Boot(n)) : j \in 1..4
      BY <1>4, <3>1
    <3>3. j < stack[1].idx
      BY <1>3, <3>2
    <3> QED BY <1>3, <3>1, <3>2, <3>3 DEF Past
  <2> QED BY <2>2, <2>3
<1>8. CASE n = 1
  <2>1. stack' = <<>> /\ Len(stack') = 0
    BY <1>1, <1>2, <1>8, EmptySeq
  <2>2. \A p : Found(p)' <=> \E h \in 1..hd : p \in Partitions(Hds[h])
    <3>1. \A d : Partitions(d)' = Partitions(d)
      BY <1>1 DEF Partitions, PartitionAt, PathOf, Paths, IsPath
    <3> QED BY <1>1, <2>1, <3>1 DEF Found
  <2>3. \A p : p \in Partitions(Drive) <=>
                 \E k \in 1..Len(Boots) : \E i \in Data(Boot(k)) : p = PartitionAt(Drive, Boots, k, i)
    <3>1. DOMAIN Boots = 1..Len(Boots)
      BY <1>1, BootsAre
    <3>2. Partitions(Drive) = UNION {{PartitionAt(Drive, Boots, k, i) : i \in Data(Boot(k))} : k \in 1..Len(Boots)}
      BY <3>1 DEF Partitions, Boots, PathOf, Boot, Table
    <3> QED BY <3>2
  <2>4. \A k \in 1..Len(Boots) : \A i \in Data(Boot(k)) : Past(k, i)
    <3>1. \A k \in 1..Len(Boots) : k >= n
      BY <1>8
    <3> QED BY <1>7, <3>1
  <2>5. \A p : Found(p) <=> \E h \in 1..hd : p \in Partitions(Hds[h])
    <3>1. hd \in 1..hd
      BY <1>4, DrivesAssumption
    <3>2. ASSUME NEW p
          PROVE  Found(p) <=> \/ \E h \in 1..hd : h # hd /\ p \in Partitions(Hds[h])
                              \/ p \in Partitions(Hds[hd])
      <4>1. (\E k \in 1..Len(Boots) : \E i \in Data(Boot(k)) :
                 Past(k, i) /\ p = PartitionAt(Drive, Boots, k, i))
            <=> p \in Partitions(Drive)
        BY <2>3, <2>4
      <4> QED BY <1>1, <1>4, <4>1 DEF Found
    <3> QED BY <3>1, <3>2
  <2>6. ListExact'
    BY <1>1, <1>5, <2>2, <2>5 DEF ListExact
  <2> QED BY <2>1, <2>6 DEF ExactInv, OnPath, CounterExact
<1>9. CASE n # 1
  <2>1. n - 1 \in Nat \ {0} /\ stack' # <<>>
    <3>1. n - 1 \in Nat \ {0}
      BY <1>2, <1>9
    <3> QED BY <1>2, <3>1, EmptySeq
  <2>2. \A k \in 1..(n - 1) : CallAt(k)' = CallAt(k)
    <3> SUFFICES ASSUME NEW k \in 1..(n - 1) PROVE CallAt(k)' = CallAt(k)
      OBVIOUS
    <3>1. (n - 1) + 1 - k \in 1..(n - 1) /\ ((n - 1) + 1 - k) + 1 = n + 1 - k
      BY <1>2
    <3> QED BY <1>2, <3>1 DEF CallAt
  <2>3. \A k \in 1..n : /\ CallAt(k).base + CallAt(k).offset = Boots[k]
                        /\ k < n => \E j \in Links(Boot(k)) : j < CallAt(k).idx
    BY <1>1 DEF OnPath
  <2>4. OnPath'
    <3>1. ASSUME NEW k \in 1..(n - 1)
          PROVE  /\ CallAt(k)'.base + CallAt(k)'.offset = Boots[k]
                 /\ \E j \in Links(Boot(k)) : j < CallAt(k)'.idx
      <4>1. k \in 1..n /\ k < n
        BY <1>2
      <4> QED BY <2>2, <2>3, <4>1
    <3>2. n - 1 <= Len(Boots)
      BY <1>2, <1>4
    <3> QED BY <1>2, <1>5, <1>6, <3>1, <3>2 DEF OnPath
  <2>5. ASSUME NEW k \in 1..Len(Boots), NEW i \in Data(Boot(k)) PROVE Past(k, i)' <=> Past(k, i)
    <3>1. CASE k < n
      <4>1. k \in 1..(n - 1) /\ k <= n - 1 /\ k <= n
        BY <1>2, <3>1
      <4> QED BY <1>2, <2>2, <4>1 DEF Past
    <3>2. CASE k >= n
      <4>1. ~(k <= n - 1) /\ n - 1 \in 1..(n - 1) /\ n - 1 \in 1..n /\ n - 1 < n
        BY <1>2, <2>1, <3>2
      <4>2. \E j \in Links(Boot(n - 1)) : j < CallAt(n - 1).idx
        BY <2>3, <4>1
      <4>3. Past(k, i)'
        BY <1>2, <1>6, <2>2, <4>1, <4>2 DEF Past
      <4> QED BY <1>7, <3>2, <4>3
    <3> QED BY <1>2, <3>1, <3>2
  <2>6. Len(stack) > 1
    BY <1>2, <1>9
  <2> QED BY <1>1, <2>1, <2>4, <2>5, <2>6, SamePassed DEF ExactInv
<1> QED BY <1>8, <1>9

\* The next drive: nothing of it has been passed.
LEMMA DriveExact ==
    ASSUME OneOutcome, StackInv, ExactInv, ide_ch_init
    PROVE  ExactInv'
<1>1. /\ stack = <<>> /\ hd \in 0..Len(Hds) /\ hd < Len(Hds) /\ hd' = hd + 1 /\ stack' = <<Call(0, 0)>>
      /\ UNCHANGED <<bs, ptn_nr, ptn_list>> /\ ListExact
  BY DEF ide_ch_init, StackInv, ExactInv
<1>2. hd + 1 \in 1..Len(Hds) /\ hd \in Nat /\ hd' # 0
  BY <1>1, DrivesAssumption
<1>3. Boots' = PathOf(Hds[hd + 1])
  BY <1>1 DEF Boots, Drive, PathOf, Paths, IsPath
<1>4. Len(Boots)' \in Nat \ {0} /\ Boots'[1] = 0
  BY <1>2, <1>3, PathIs DEF IsPath
<1>5. Len(stack') = 1 /\ stack' # <<>> /\ CallAt(1)' = Call(0, 0)
  BY <1>1 DEF CallAt
<1>6. Call(0, 0).base + Call(0, 0).offset = 0 /\ Call(0, 0).idx = 1
  BY DEF Call
<1>7. OnPath'
  <2>1. 1 <= Len(Boots)'
    BY <1>4
  <2> QED BY <1>4, <1>5, <1>6, <2>1 DEF OnPath
<1>8. ASSUME NEW k \in (1..Len(Boots))', NEW i \in Data(Boot(k))' PROVE ~Past(k, i)'
  <2>1. ~(i < 1) /\ \A j \in Links(Boot(1))' : ~(j < 1)
    BY DEF Data, Links
  <2>2. k <= 1 => k = 1
    BY <1>4
  <2> QED BY <1>5, <1>6, <2>1, <2>2 DEF Past
<1>9. \A d : Partitions(d)' = Partitions(d)
  BY <1>1 DEF Partitions, PartitionAt, PathOf, Paths, IsPath
<1>10. ASSUME NEW p PROVE Found(p)' <=> Found(p)
  <2>1. Found(p) <=> \E h \in 1..hd : p \in Partitions(Hds[h])
    BY <1>1 DEF Found
  <2>2. Found(p)' <=> \E h \in 1..(hd + 1) : h # hd + 1 /\ p \in Partitions(Hds[h])
    BY <1>1, <1>5, <1>8, <1>9 DEF Found
  <2>3. \A h : h \in 1..(hd + 1) /\ h # hd + 1 <=> h \in 1..hd
    BY <1>2
  <2> QED BY <2>1, <2>2, <2>3
<1>11. Ptn' = Ptn
  BY <1>1 DEF Ptn
<1>12. ListExact'
  BY <1>1, <1>10, <1>11 DEF ListExact
<1> QED BY <1>5, <1>7, <1>12 DEF ExactInv, CounterExact

\* Nothing was scanned, and nothing is in the list.
LEMMA NothingFound ==
    ASSUME hd = 0, stack = <<>>, ptn_list = <<>>
    PROVE  ExactInv
<1>1. OnPath /\ CounterExact
  BY DEF OnPath, CounterExact
<1>2. ListExact
  BY DEF ListExact, Found, Ptn, Range
<1> QED BY <1>1, <1>2 DEF ExactInv

LEMMA ExactStep ==
    ASSUME OneOutcome, ScanInv, ListIsSeq, ExactInv, [Next]_vars
    PROVE  ExactInv'
<1>1. StackInv
  BY DEF ScanInv
<1>2. CASE Scan
  BY <1>1, <1>2, DriveExact, SkipExact, EnterExact, RecordExact, EndExact DEF Scan
<1>3. CASE UNCHANGED scanvars
  <2>1. UNCHANGED <<bs, hd, stack, ptn_nr, ptn_list>>
    BY <1>3 DEF scanvars
  <2>2. Drive' = Drive /\ Boots' = Boots /\ Table' = Table /\ Ptn' = Ptn
    BY <2>1 DEF Drive, Boots, PathOf, Paths, IsPath, Table, Ptn
  <2>3. \A k : Boot(k)' = Boot(k) /\ CallAt(k)' = CallAt(k)
    BY <2>1, <2>2 DEF Boot, CallAt
  <2>4. \A k, i : Past(k, i)' <=> Past(k, i)
    BY <2>1, <2>3 DEF Past
  <2>5. /\ \A d : Partitions(d)' = Partitions(d)
        /\ \A k, i : PartitionAt(Drive, Boots, k, i)' = PartitionAt(Drive, Boots, k, i)
    BY <2>1, <2>2 DEF Partitions, PartitionAt, PathOf, Paths, IsPath
  <2>6. \A p : Found(p)' <=> Found(p)
    BY <2>1, <2>2, <2>3, <2>4, <2>5 DEF Found
  <2>7. Counted' = Counted
    BY <2>2, <2>3, <2>4 DEF Counted
  <2>8. OnPath' /\ ListExact' /\ CounterExact'
    BY <2>1, <2>2, <2>3, <2>6, <2>7 DEF OnPath, ListExact, CounterExact, ExactInv
  <2> QED BY <2>8 DEF ExactInv
<1>4. CASE Reboot
  <2>1. hd' = 0 /\ stack' = <<>> /\ ptn_list' = <<>>
    BY <1>4 DEF Reboot
  <2>2. OnPath' /\ CounterExact'
    BY <2>1 DEF OnPath, CounterExact
  <2>3. ListExact'
    BY <2>1 DEF ListExact, Found, Ptn, Range
  <2> QED BY <2>2, <2>3 DEF ExactInv
<1>5. CASE root_dir_init \/ fs_init \/ fs_format \/ UNCHANGED vars
  BY <1>3, <1>5 DEF root_dir_init, fs_init, fs_format, vars
<1>6. ASSUME NEW p \in Ptn, fs_mount(p) \/ fs_unmount(p) \/ FormatAgain(p) PROVE ExactInv'
  BY <1>3, <1>6 DEF fs_mount, fs_unmount, FormatAgain
<1> QED BY <1>2, <1>4, <1>5, <1>6 DEF Next

LEMMA ExactImplied ==
    ASSUME ScanInv, ExactInv
    PROVE  ScanExact
<1> SUFFICES ASSUME ScanDone
             PROVE  /\ IsInjective(ptn_list)
                    /\ Range(ptn_list) = UNION {Partitions(Hds[h]) : h \in 1..Len(Hds)}
  BY DEF ScanExact
<1>1. IsInjective(ptn_list)
  BY DEF ScanInv, ListInv, IsInjective
<1>2. \A p : p \in Range(ptn_list) <=> \E h \in 1..Len(Hds) : p \in Partitions(Hds[h])
  BY DEF ExactInv, ListExact, Found, Ptn, ScanDone
<1> QED BY <1>1, <1>2

\* When the scan is done, the list has every partition of every drive once, with
\* its number, its place and its length, for any number of drives and any chain
\* of boot records in which a record has one logical partition at most and then
\* one link at most (ide.h:54, ide.c:268-277).
THEOREM ScanExactHolds ==
    ASSUME OneOutcome
    PROVE  Spec => []ScanExact
<1>1. InodeInv => ListIsSeq
  BY DEF InodeInv
<1>2. Init => ExactInv
  BY NothingFound DEF Init, ScanInit
<1>3. ScanInv /\ ListIsSeq /\ ExactInv /\ [Next]_vars => ExactInv'
  BY ExactStep
<1>4. ScanInv /\ ExactInv => ScanExact
  BY ExactImplied
<1> QED BY <1>1, <1>2, <1>3, <1>4, ScanInvariant, PTL DEF Spec

-----------------------------------------------------------------------------
(* What is on the disk.                                                    *)

\* What fs_format has written after k writes.
Stage(k) == {Parts[i] : i \in 1..k}
WrittenAt(pl) == {part \in Range(Parts) : <<pl, part>> \in disk}
\* fs_init formats the partition at a place, or test_fs does.
InWork(pl) == format # <<>> /\ unread # <<>> /\ pl = Place(format[1])
Again(pl) == format # <<>> /\ unread = <<>> /\ pl = Place(format[1])

\* Where no first format is at work there is everything or nothing, unless a
\* restart has cut one short; what is written again has not yet come further.
PlaceInv(pl) ==
    \E k \in 0..5 :
        /\ WrittenAt(pl) = Stage(k)
        /\ pl \in cut => k \in 1..4 /\ ~InWork(pl)
        /\ pl \notin cut /\ ~InWork(pl) => k \in {0, 5}
        /\ InWork(pl) => k = format[2]
        /\ Again(pl) => k > 0 /\ format[2] <= k
DiskInv ==
    /\ format # <<>> => started /\ format[2] \in 0..4
    /\ \A pl : PlaceInv(pl)
    /\ \A p \in mounted : HasMagic(p) /\ ~InWork(Place(p))
    /\ started => \A p \in Ptn : p \in Range(unread) \/ HasMagic(p)

LEMMA StageIs ==
    /\ Stage(0) = {} /\ Stage(1) = {"super"} /\ Stage(2) = Stage(1) \cup {"inode_btmp"}
    /\ Stage(3) = Stage(2) \cup {"inode_table"} /\ Stage(4) = Stage(3) \cup {"blk_btmp"}
    /\ Stage(5) = Stage(4) \cup {"root"}
    /\ Range(Parts) = Stage(5) /\ Len(Parts) = 5
<1>2. DOMAIN Parts = 1..5 /\ Len(Parts) = 5
  BY DEF Parts
<1>3. /\ Parts[1] = "super" /\ Parts[2] = "inode_btmp" /\ Parts[3] = "inode_table"
      /\ Parts[4] = "blk_btmp" /\ Parts[5] = "root"
  BY DEF Parts
<1>4. Range(Parts) = Stage(5)
  BY <1>2 DEF Range, Stage
<1> HIDE DEF Parts
<1>5. /\ Stage(0) = {} /\ Stage(1) = {Parts[1]}
      /\ Stage(2) = Stage(1) \cup {Parts[2]} /\ Stage(3) = Stage(2) \cup {Parts[3]}
      /\ Stage(4) = Stage(3) \cup {Parts[4]} /\ Stage(5) = Stage(4) \cup {Parts[5]}
  <2>1. \A i : (i \in 1..0 <=> FALSE) /\ (i \in 1..1 <=> i = 1)
    OBVIOUS
  <2>2. \A k \in 1..4 : \A i : i \in 1..(k + 1) <=> i \in 1..k \/ i = k + 1
    OBVIOUS
  <2>3. Stage(0) = {} /\ Stage(1) = {Parts[1]}
    BY <2>1 DEF Stage
  <2>4. \A k \in 1..4 : Stage(k + 1) = Stage(k) \cup {Parts[k + 1]}
    BY <2>2 DEF Stage
  <2> QED BY <2>3, <2>4
<1> QED BY <1>2, <1>3, <1>4, <1>5

\* The number of parts says how far a format has come.
LEMMA StageSize == \A k \in 0..5 : Cardinality(Stage(k)) = k
<1>1. /\ IsFiniteSet(Stage(0)) /\ Cardinality(Stage(0)) = 0
      /\ IsFiniteSet(Stage(1)) /\ Cardinality(Stage(1)) = 1
  <2>1. IsFiniteSet({"super"}) /\ Cardinality({"super"}) = 1
    BY FS_Singleton
  <2> QED BY <2>1, StageIs, FS_EmptySet
<1>2. /\ Stage(1) = {"super"} /\ Stage(2) = {"super", "inode_btmp"}
      /\ Stage(3) = {"super", "inode_btmp", "inode_table"}
      /\ Stage(4) = {"super", "inode_btmp", "inode_table", "blk_btmp"}
  BY StageIs
<1>3. "inode_btmp" \notin Stage(1) /\ "inode_table" \notin Stage(2)
      /\ "blk_btmp" \notin Stage(3) /\ "root" \notin Stage(4)
  BY <1>2
<1>4. \A S, x : IsFiniteSet(S) /\ x \notin S =>
          IsFiniteSet(S \cup {x}) /\ Cardinality(S \cup {x}) = Cardinality(S) + 1
  BY FS_AddElement
<1>5. IsFiniteSet(Stage(2)) /\ Cardinality(Stage(2)) = 2
  BY <1>1, <1>3, <1>4, StageIs
<1>6. IsFiniteSet(Stage(3)) /\ Cardinality(Stage(3)) = 3
  BY <1>5, <1>3, <1>4, StageIs
<1>7. IsFiniteSet(Stage(4)) /\ Cardinality(Stage(4)) = 4
  BY <1>6, <1>3, <1>4, StageIs
<1>8. IsFiniteSet(Stage(5)) /\ Cardinality(Stage(5)) = 5
  BY <1>7, <1>3, <1>4, StageIs
<1> QED BY <1>1, <1>5, <1>6, <1>7, <1>8

LEMMA StageNext ==
    /\ \A k \in 0..4 : Stage(k + 1) = Stage(k) \cup {Parts[k + 1]}
    /\ \A k \in 0..5 : "super" \in Stage(k) <=> k # 0
    /\ \A k \in 0..5 : Stage(k) \subseteq Range(Parts)
<1>1. Parts[1] = "super" /\ Parts[2] = "inode_btmp" /\ Parts[3] = "inode_table" /\ Parts[4] = "blk_btmp" /\ Parts[5] = "root"
  BY DEF Parts
<1> QED BY <1>1, StageIs

\* No step but fs_format and a restart touches the disk, and few others begin or
\* end a format.
LEMMA DiskStays ==
    ASSUME DiskInv, UNCHANGED <<disk, cut>>, format = <<>>, format' = <<>>,
           \A p \in mounted' : HasMagic(p),
           started' => \A p \in Ptn' : p \in Range(unread') \/ HasMagic(p)
    PROVE  DiskInv'
<1>1. \A pl : ~InWork(pl) /\ ~InWork(pl)' /\ ~Again(pl)'
  BY DEF InWork, Again
<1>2. \A pl : WrittenAt(pl)' = WrittenAt(pl)
  BY DEF WrittenAt
<1>3. \A p : HasMagic(p)' = HasMagic(p)
  BY DEF HasMagic, Written
<1>4. \A pl : PlaceInv(pl)'
  BY <1>1, <1>2 DEF DiskInv, PlaceInv
<1> QED BY <1>1, <1>3, <1>4 DEF DiskInv

LEMMA WrittenIs == \A p : Written(p) = WrittenAt(Place(p))
BY DEF Written, WrittenAt

\* A first format begins: of the file system there is nothing yet.
LEMMA StartKeeps ==
    ASSUME DiskInv, started, unread # <<>>, ~HasMagic(Head(unread)), format = <<>>,
           format' = <<Head(unread), 0>>,
           UNCHANGED <<scanvars, disk, cut, started, unread, mounted>>
    PROVE  DiskInv' /\ Written(Head(unread)) = {}
<1> PICK pl : pl = Place(Head(unread))
  OBVIOUS
<1>0. format' # <<>> /\ format'[1] = Head(unread) /\ format'[2] = 0
  OBVIOUS
<1>1. \A q : ~InWork(q) /\ (InWork(q)' <=> q = pl) /\ ~Again(q)'
  BY <1>0 DEF InWork, Again, Place
<1>2. \A q : WrittenAt(q)' = WrittenAt(q)
  BY DEF WrittenAt
<1>3. "super" \notin WrittenAt(pl)
  BY WrittenIs DEF HasMagic
<1>4. WrittenAt(pl) = Stage(0) /\ pl \notin cut
  <2>1. PICK k \in 0..5 : WrittenAt(pl) = Stage(k) /\ (pl \in cut => k \in 1..4)
    BY DEF DiskInv, PlaceInv
  <2>2. k = 0
    BY <1>3, <2>1, StageNext
  <2> QED BY <2>1, <2>2
<1>5. ASSUME NEW q PROVE PlaceInv(q)'
  <2>1. CASE q = pl
    <3>1. /\ 0 \in 0..5 /\ WrittenAt(q)' = Stage(0) /\ q \notin cut' /\ InWork(q)' /\ ~Again(q)'
          /\ format'[2] = 0
      BY <1>0, <1>1, <1>2, <1>4, <2>1
    <3> QED BY <3>1 DEF PlaceInv
  <2>2. CASE q # pl
    BY <1>1, <1>2, <2>2 DEF DiskInv, PlaceInv
  <2> QED BY <2>1, <2>2
<1>6. \A p : HasMagic(p)' = HasMagic(p)
  BY DEF HasMagic, Written, Place
<1>7. \A p \in mounted : Place(p) # pl
  BY <1>3, WrittenIs DEF DiskInv, HasMagic
<1>8. \A p \in mounted' : HasMagic(p)' /\ ~InWork(Place(p))'
  BY <1>1, <1>6, <1>7 DEF DiskInv
<1>9. started' => \A p \in Ptn' : p \in Range(unread') \/ HasMagic(p)'
  BY <1>6 DEF DiskInv, Ptn, scanvars
<1> QED BY <1>0, <1>4, <1>5, <1>8, <1>9, WrittenIs, StageIs DEF DiskInv

\* A partition that was mounted before is formatted again: it has the super block.
LEMMA AgainKeeps ==
    ASSUME DiskInv, NEW p \in Ptn, FormatAgain(p)
    PROVE  DiskInv'
<1>1. /\ started /\ unread = <<>> /\ format = <<>> /\ format' = <<p, 0>>
      /\ UNCHANGED <<scanvars, disk, cut, started, unread, mounted>>
  BY DEF FormatAgain, Ready, diskvars, ramvars
<1>2. format' # <<>> /\ format'[1] = p /\ format'[2] = 0
  BY <1>1
<1> PICK pl : pl = Place(p)
  OBVIOUS
<1>3. \A q : ~InWork(q) /\ ~InWork(q)' /\ (Again(q)' <=> q = pl)
  BY <1>1, <1>2 DEF InWork, Again, Place
<1>4. \A q : WrittenAt(q)' = WrittenAt(q)
  BY <1>1 DEF WrittenAt
<1>5. \A q : HasMagic(q)' = HasMagic(q)
  BY <1>1 DEF HasMagic, Written, Place
<1>6. "super" \in WrittenAt(pl)
  <2>1. HasMagic(p)
    BY <1>1 DEF DiskInv, Range
  <2> QED BY <2>1, WrittenIs DEF HasMagic
<1>7. ASSUME NEW q PROVE PlaceInv(q)'
  <2>1. PICK k \in 0..5 :
          /\ WrittenAt(q) = Stage(k)
          /\ q \in cut => k \in 1..4
          /\ q \notin cut => k \in {0, 5}
    BY <1>3 DEF DiskInv, PlaceInv
  <2>2. q = pl => k > 0
    BY <1>6, <2>1, StageNext
  <2>3. Again(q)' => k > 0 /\ format'[2] <= k
    BY <1>2, <1>3, <2>2
  <2> QED BY <1>1, <1>3, <1>4, <2>1, <2>3 DEF PlaceInv
<1>8. started' => \A q \in Ptn' : q \in Range(unread') \/ HasMagic(q)'
  BY <1>1, <1>5 DEF DiskInv, Ptn, scanvars
<1>9. \A q \in mounted' : HasMagic(q)' /\ ~InWork(Place(q))'
  BY <1>1, <1>3, <1>5 DEF DiskInv
<1> QED BY <1>1, <1>2, <1>7, <1>8, <1>9 DEF DiskInv

\* One write of a format: the next part of its place, or one that is there.
LEMMA FormatKeeps ==
    ASSUME DiskInv, fs_format
    PROVE  DiskInv'
<1> PICK pl, n : pl = Place(format[1]) /\ n = format[2] + 1
  OBVIOUS
<1>1. /\ format # <<>> /\ started /\ n \in 1..5 /\ format[2] = n - 1
      /\ UNCHANGED <<scanvars, started, unread, mounted>>
  BY DEF fs_format, DiskInv, ramvars
<1>2. /\ disk' = disk \cup {<<pl, Parts[n]>>}
      /\ format' = IF n < 5 THEN <<format[1], n>> ELSE <<>>
      /\ cut' = IF n < 5 THEN cut ELSE cut \ {pl}
  BY StageIs DEF fs_format
<1>3. /\ format' # <<>> <=> n < 5
      /\ n < 5 => format'[1] = format[1] /\ format'[2] = n
  BY <1>2
<1>4. /\ \A q : InWork(q) <=> unread # <<>> /\ q = pl
      /\ \A q : Again(q) <=> unread = <<>> /\ q = pl
      /\ \A q : InWork(q)' <=> n < 5 /\ unread # <<>> /\ q = pl
      /\ \A q : Again(q)' <=> n < 5 /\ unread = <<>> /\ q = pl
  BY <1>1, <1>3 DEF InWork, Again, Place
<1>5. PICK k \in 0..5 :
        /\ WrittenAt(pl) = Stage(k)
        /\ pl \in cut => k \in 1..4 /\ unread = <<>>
        /\ pl \notin cut /\ unread = <<>> => k \in {0, 5}
        /\ unread # <<>> => k = n - 1
        /\ unread = <<>> => k > 0 /\ n - 1 <= k
  BY <1>1, <1>4 DEF DiskInv, PlaceInv
<1>6. Parts[n] \in Range(Parts)
  BY <1>1, StageIs DEF Range, Parts
<1>7. WrittenAt(pl)' = Stage(k) \cup {Parts[n]}
  BY <1>2, <1>5, <1>6 DEF WrittenAt
<1>8. \A q : q # pl => WrittenAt(q)' = WrittenAt(q)
  BY <1>2 DEF WrittenAt
<1>9. /\ \A q : q # pl => (q \in cut' <=> q \in cut)
      /\ pl \in cut' <=> n < 5 /\ pl \in cut
  <2>1. CASE n < 5
    BY <1>2, <2>1, Zenon
  <2>2. CASE ~(n < 5)
    BY <1>2, <2>2, Zenon
  <2> QED BY <2>1, <2>2, Zenon
<1>10. ASSUME NEW q PROVE PlaceInv(q)'
  <2>1. CASE q # pl
    BY <1>4, <1>8, <1>9, <2>1 DEF DiskInv, PlaceInv
  <2>2. CASE q = pl /\ n = k + 1
    <3>1. WrittenAt(q)' = Stage(n)
      <4>1. k \in 0..4 /\ n = k + 1
        BY <1>1, <1>5, <2>2
      <4>2. Stage(k + 1) = Stage(k) \cup {Parts[k + 1]}
        BY <4>1, StageNext
      <4> QED BY <1>7, <2>2, <4>2, Zenon
    <3>2. q \in cut' => n \in 1..4 /\ ~InWork(q)'
      BY <1>1, <1>4, <1>5, <1>9, <2>2
    <3>3. q \notin cut' /\ ~InWork(q)' => n \in {0, 5}
      <4>1. CASE unread # <<>>
        BY <1>1, <1>4, <2>2, <4>1
      <4>2. CASE unread = <<>>
        BY <1>1, <1>5, <1>9, <2>2, <4>2
      <4> QED BY <4>1, <4>2
    <3>4. (InWork(q)' => n = format'[2]) /\ (Again(q)' => n > 0 /\ format'[2] <= n)
      BY <1>1, <1>3, <1>4
    <3>5. n \in 0..5
      BY <1>1
    <3> QED BY <3>1, <3>2, <3>3, <3>4, <3>5 DEF PlaceInv
  <2>3. CASE q = pl /\ n # k + 1
    <3>1. unread = <<>> /\ n <= k /\ k > 0
      BY <1>1, <1>5, <2>3
    <3>2. WrittenAt(q)' = Stage(k)
      <4>1. Parts[n] \in Stage(k)
        BY <1>1, <3>1 DEF Stage
      <4> QED BY <1>7, <2>3, <4>1
    <3>3. q \in cut' => k \in 1..4
      BY <1>5, <1>9, <2>3
    <3>4. q \notin cut' => k \in {0, 5}
      BY <1>1, <1>5, <1>9, <2>3, <3>1
    <3>5. ~InWork(q)' /\ (Again(q)' => k > 0 /\ format'[2] <= k)
      BY <1>3, <1>4, <3>1
    <3> QED BY <3>2, <3>3, <3>4, <3>5 DEF PlaceInv
  <2> QED BY <2>1, <2>2, <2>3
<1>11. \A p : HasMagic(p) => HasMagic(p)'
  BY <1>2 DEF HasMagic, Written, Place
<1>12. \A p \in mounted' : HasMagic(p)' /\ ~InWork(Place(p))'
  <2>1. \A p : Place(p)' = Place(p)
    BY DEF Place
  <2>2. \A p : InWork(Place(p))' => InWork(Place(p))
    BY <1>4, <2>1
  <2> QED BY <1>1, <1>11, <2>2 DEF DiskInv
<1>13. started' => \A p \in Ptn' : p \in Range(unread') \/ HasMagic(p)'
  BY <1>1, <1>11 DEF DiskInv, Ptn, scanvars
<1>14. format' # <<>> => started' /\ format'[2] \in 0..4
  BY <1>1, <1>3
<1> QED BY <1>10, <1>12, <1>13, <1>14 DEF DiskInv

\* A restart: the first format at work, once it has written the super block, is
\* cut short and no longer at work.
LEMMA RestartKeeps ==
    ASSUME DiskInv, Reboot
    PROVE  DiskInv'
<1>1. /\ started' = FALSE /\ format' = <<>> /\ mounted' = {} /\ UNCHANGED disk
      /\ cut' = IF format # <<>> /\ unread # <<>> /\ format[2] > 0
                THEN cut \cup {Place(format[1])} ELSE cut
  BY DEF Reboot
<1>2. \A q : ~InWork(q)' /\ ~Again(q)' /\ WrittenAt(q)' = WrittenAt(q)
  BY <1>1 DEF InWork, Again, WrittenAt
<1>3. \A q : q \in cut' <=> q \in cut \/ (InWork(q) /\ format[2] > 0)
  BY <1>1 DEF InWork
<1>4. ASSUME NEW q PROVE PlaceInv(q)'
  <2>1. PICK k \in 0..5 :
          /\ WrittenAt(q) = Stage(k)
          /\ q \in cut => k \in 1..4 /\ ~InWork(q)
          /\ q \notin cut /\ ~InWork(q) => k \in {0, 5}
          /\ InWork(q) => k = format[2]
    BY DEF DiskInv, PlaceInv
  <2>2. InWork(q) => format[2] \in 0..4
    BY DEF InWork, DiskInv
  <2>3. (q \in cut' => k \in 1..4) /\ (q \notin cut' => k \in {0, 5})
    BY <1>3, <2>1, <2>2
  <2> QED BY <1>2, <2>1, <2>3 DEF PlaceInv
<1> QED BY <1>1, <1>4 DEF DiskInv

LEMMA DiskStep ==
    ASSUME DiskInv, InodeInv, BootInv, [Next]_vars
    PROVE  DiskInv'
<1>1. (format # <<>> => started) /\ (unread # <<>> => started)
  BY DEF DiskInv, BootInv
<1>2. CASE Scan /\ UNCHANGED <<diskvars, bootvars, ramvars>>
  <2>1. ~ScanDone
    BY <1>2, DrivesAssumption DEF Scan, ide_ch_init, SkipUnused, EnterExtended, Record, EndOfTable,
                                  AtEntry, ScanDone
  <2>2. ~started
    BY <2>1 DEF InodeInv, BasesOfList
  <2> QED BY <1>1, <1>2, <2>2, DiskStays DEF diskvars, bootvars, ramvars, DiskInv
<1>3. CASE root_dir_init
  <2>1. Ptn' = Range(unread') /\ UNCHANGED <<disk, cut, format, mounted>> /\ ~started
    BY <1>3 DEF root_dir_init, Ptn, scanvars, diskvars
  <2> QED BY <1>1, <2>1, DiskStays DEF DiskInv
<1>4. CASE fs_init
  <2>1. /\ unread # <<>> /\ format = <<>> /\ UNCHANGED <<scanvars, disk, cut, started>> /\ Ptn' = Ptn
    BY <1>4 DEF fs_init, diskvars, scanvars, Ptn
  <2>2. CASE ~HasMagic(Head(unread))
    BY <1>1, <1>4, <2>1, <2>2, StartKeeps DEF fs_init, ramvars
  <2>3. CASE HasMagic(Head(unread))
    <3>1. /\ unread' = Tail(unread) /\ format' = <<>>
          /\ mounted' \subseteq mounted \cup {Head(unread)}
      BY <1>4, <2>1, <2>3 DEF fs_init, Mount, DiskInv
    <3>2. \A p \in Range(unread) : p = Head(unread) \/ p \in Range(unread')
      <4>1. unread \in Seq(DOMAIN inode_base)
        BY DEF InodeInv, BasesOfList
      <4>2. /\ Len(unread) \in Nat \ {0} /\ DOMAIN unread = 1..Len(unread)
            /\ Len(Tail(unread)) = Len(unread) - 1
            /\ \A i \in 1..(Len(unread) - 1) : Tail(unread)[i] = unread[i + 1]
            /\ DOMAIN Tail(unread) = 1..Len(Tail(unread)) /\ Head(unread) = unread[1]
        BY <2>1, <4>1, HeadTailProperties
      <4>3. ASSUME NEW i \in 1..Len(unread), i # 1 PROVE unread[i] \in Range(Tail(unread))
        <5>1. i - 1 \in 1..(Len(unread) - 1) /\ (i - 1) + 1 = i
          BY <4>2, <4>3
        <5>2. Tail(unread)[i - 1] = unread[i] /\ i - 1 \in DOMAIN Tail(unread)
          BY <4>2, <5>1
        <5> QED BY <5>2 DEF Range
      <4> QED BY <3>1, <4>2, <4>3 DEF Range
    <3>3. \A p \in mounted' : HasMagic(p)
      BY <2>3, <3>1 DEF DiskInv
    <3>4. started' => \A p \in Ptn' : p \in Range(unread') \/ HasMagic(p)
      BY <2>1, <2>3, <3>2 DEF DiskInv
    <3> QED BY <2>1, <3>1, <3>3, <3>4, DiskStays
  <2> QED BY <2>2, <2>3
<1>5. ASSUME NEW p \in Ptn, fs_mount(p) \/ fs_unmount(p) PROVE DiskInv'
  <2>1. /\ started /\ unread = <<>> /\ format = <<>>
        /\ UNCHANGED <<scanvars, disk, cut, started, unread, format>> /\ Ptn' = Ptn
        /\ mounted' \subseteq mounted \cup {p}
    BY <1>5 DEF fs_mount, fs_unmount, Mount, Ready, diskvars, bootvars, scanvars, Ptn, DiskInv
  <2>2. p \notin Range(unread)
    BY <2>1 DEF Range
  <2> QED BY <2>1, <2>2, DiskStays DEF DiskInv
<1>6. CASE UNCHANGED vars
  <2>1. /\ UNCHANGED <<disk, cut, format, unread, mounted, started>> /\ Ptn' = Ptn
    BY <1>6 DEF vars, scanvars, diskvars, bootvars, ramvars, Ptn
  <2>2. \A q : PlaceInv(q)'
    BY <2>1 DEF DiskInv, PlaceInv, InWork, Again, WrittenAt, Place
  <2>3. \A p : (HasMagic(p)' <=> HasMagic(p)) /\ (InWork(Place(p))' <=> InWork(Place(p)))
    BY <2>1 DEF InWork, HasMagic, Written, Place
  <2> QED BY <2>1, <2>2, <2>3 DEF DiskInv
<1> QED BY <1>2, <1>3, <1>4, <1>5, <1>6, AgainKeeps, FormatKeeps, RestartKeeps DEF Next

LEMMA DiskStart == Init => DiskInv
<1> SUFFICES ASSUME Init PROVE DiskInv
  OBVIOUS
<1>1. disk = {} /\ cut = {} /\ format = <<>> /\ started = FALSE /\ mounted = {}
  BY DEF Init
<1>2. ASSUME NEW pl PROVE PlaceInv(pl)
  <2>1. WrittenAt(pl) = Stage(0) /\ ~InWork(pl) /\ ~Again(pl) /\ pl \notin cut /\ 0 \in 0..5
    BY <1>1, StageIs DEF WrittenAt, InWork, Again
  <2> QED BY <2>1 DEF PlaceInv
<1> QED BY <1>1, <1>2 DEF DiskInv

\* Every place of the disk has what some number of writes of fs_format leave,
\* and a number other than none or all only where a format is at work or a
\* restart cut one short.
THEOREM DiskInvariant == Spec => [](DiskInv /\ InodeInv /\ BootInv)
<1>1. Init /\ [][Next]_vars /\ [](InodeInv /\ BootInv) => []DiskInv
  BY DiskStart, DiskStep, PTL
<1> QED BY <1>1, InodeInvariant, PTL DEF Spec

\* A mounted partition is formatted completely, except where a restart came
\* between the super block and the end of its first format and nobody formatted
\* it since (fs.c:48, fs.c:344-350, test_fs.c:27): for any drives, any number of
\* partitions, restarts and formats, and partitions of two tables that lie at
\* the same place.
THEOREM FormattedUnlessCutHolds == Spec => []FormattedUnlessCut
<1>1. ASSUME DiskInv, NEW p \in mounted
      PROVE  Written(p) = Range(Parts) <=> Place(p) \notin cut
  <2>1. PICK k \in 0..5 :
          /\ Written(p) = Stage(k)
          /\ Place(p) \in cut => k \in 1..4
          /\ Place(p) \notin cut => k \in {0, 5}
    BY <1>1, WrittenIs DEF DiskInv, PlaceInv
  <2>2. k # 0
    BY <1>1, <2>1, StageNext DEF DiskInv, HasMagic
  <2>3. Stage(k) = Range(Parts) <=> k = 5
    BY StageIs, StageSize
  <2> QED BY <2>1, <2>2, <2>3
<1>2. Range(Parts) = {"super", "inode_btmp", "inode_table", "blk_btmp", "root"}
  BY StageIs
<1>3. DiskInv => FormattedUnlessCut
  BY <1>1, <1>2 DEF FormattedUnlessCut
<1> QED BY <1>3, DiskInvariant, PTL

\* fs_init never formats over a file system, nor over a part of one, whatever
\* restarts and formats came before.
THEOREM FormatsOnlyBlankHolds == Spec => FormatsOnlyBlank
<1>1. ASSUME DiskInv, BootInv, [Next]_vars, unread # <<>>, format = <<>>, format' # <<>>
      PROVE  Written(format'[1]) = {}
  <2>1. fs_init
    BY <1>1 DEF Next, vars, bootvars, root_dir_init, fs_format, fs_mount, fs_unmount, FormatAgain,
                Ready, Reboot
  <2>2. /\ started /\ ~HasMagic(Head(unread)) /\ format' = <<Head(unread), 0>>
        /\ UNCHANGED <<scanvars, disk, cut, started, unread, mounted>>
    BY <1>1, <2>1 DEF fs_init, diskvars, ramvars, BootInv
  <2>3. Written(Head(unread)) = {}
    BY <1>1, <2>2, StartKeeps
  <2> QED BY <2>2, <2>3
<1>2. DiskInv /\ BootInv /\ [Next]_vars =>
         [(unread # <<>> /\ format = <<>> /\ format' # <<>>) => Written(format'[1]) = {}]_vars
  BY <1>1
<1> QED BY <1>2, DiskInvariant, PTL DEF Spec, FormatsOnlyBlank

-----------------------------------------------------------------------------
(* The root directory.                                                     *)

LEMMA NatOrder == \E R : IsWellFoundedOn(R, Nat) /\ \A x, y \in Nat : x < y => <<x, y>> \in R
<1>1. \A x, y \in Nat : x < y => <<x, y>> \in OpToRel(<, Nat)
  BY DEF OpToRel
<1> QED BY <1>1, NatLessThanWellFounded

LEMMA MinIsLeast ==
    ASSUME NEW S, S \subseteq Nat, S # {}
    PROVE  Min(S) \in S /\ \A n \in S : Min(S) <= n
<1>1. PICK R : IsWellFoundedOn(R, Nat) /\ \A x, y \in Nat : x < y => <<x, y>> \in R
  BY NatOrder
<1>2. IsWellFoundedOn(R, Nat)
  BY <1>1
<1>3. \E x \in S : \A y \in S : <<y, x>> \notin R
  BY <1>2, WFMin
<1>4. \A x, y \in S : x \in Nat /\ y \in Nat /\ (x <= y \/ y < x)
  OBVIOUS
<1>5. \E m \in S : \A n \in S : m <= n
  BY <1>1, <1>3, <1>4
<1> QED BY <1>5 DEF Min

Live == {i \in Slots : root_blk[i].f_type = "FT_DIR"}

\* A mounted partition has the first of the entries with its name, and all the
\* others with it are free: what an unmount before left behind.
HasEntry(p, i) ==
    /\ root_blk[i] = Dirent(p.name, inode_base[p], "FT_DIR")
    /\ \A j \in Slots : j # i /\ root_blk[j].filename = p.name => i < j /\ root_blk[j].f_type = "FT_UNKNOWN"
BlockShape ==
    /\ root_blk = [i \in Slots |-> Dirent(root_blk[i].filename, root_blk[i].i_no, root_blk[i].f_type)]
    /\ \A i \in Slots : root_blk[i].f_type \in {"FT_DIR", "FT_UNKNOWN"}
DotEntries == \A i \in 1..2 : root_blk[i].filename = NoName /\ root_blk[i].f_type = "FT_DIR"
LiveMounted == \A i \in Live : i > 2 => \E p \in mounted : root_blk[i].filename = p.name
MountedLive == \A p \in mounted : \E i \in Slots : HasEntry(p, i)
SizeCounts == i_size = Cardinality(Live) /\ i_size = Cardinality(mounted) + 2
FullIfPanicked == panicked => i_size = ROOT_DIR_MAX /\ Len(ptn_list) > ROOT_DIR_MAX - 2
RootInv == BlockShape /\ DotEntries /\ LiveMounted /\ MountedLive /\ SizeCounts /\ FullIfPanicked

\* The turns of fs_init: what is still to mount is not mounted, and is there once.
TurnInv ==
    /\ mounted \subseteq Ptn
    /\ unread \in Seq(Ptn \ mounted)
    /\ \A i, j \in 1..Len(unread) : unread[i] = unread[j] => i = j
    /\ ~started => unread = <<>> /\ mounted = {} /\ ~panicked

NamesApart ==
    /\ \A p, q \in Ptn : p.name = q.name => p = q
    /\ \A p \in Ptn : p.name # NoName

LEMMA NamesAreApart == ListInv => NamesApart
<1> SUFFICES ASSUME ListInv PROVE NamesApart
  OBVIOUS
<1>1. \A p, q \in Ptn : p.name = q.name => p = q
  BY DEF ListInv, Ptn, Range
<1>2. ASSUME NEW p \in Ptn PROVE p.name # NoName
  <2>1. PICK h : p.name = <<Hds[h], p.name[2]>>
    BY DEF ListInv, Given
  <2> QED BY <2>1 DEF NoName
<1> QED BY <1>1, <1>2 DEF NamesApart

\* There are no more partitions than elements of the list.
LEMMA PtnCount ==
    ASSUME ListIsSeq
    PROVE  /\ IsFiniteSet(Ptn) /\ Len(ptn_list) \in Nat
           /\ Cardinality(Ptn) \in Nat /\ Cardinality(Ptn) <= Len(ptn_list)
<1>1. Len(ptn_list) \in Nat /\ ptn_list \in [1..Len(ptn_list) -> Ptn] /\ DOMAIN ptn_list = 1..Len(ptn_list)
  BY DEF ListIsSeq
<1> PICK n \in Nat : n = Len(ptn_list)
  BY <1>1
<1>2. ptn_list \in Surjection(1..n, Ptn)
  <2>1. \A p \in Ptn : \E i \in 1..n : ptn_list[i] = p
    BY <1>1 DEF Ptn, Range
  <2> QED BY <1>1, <2>1 DEF Surjection
<1>3. IsFiniteSet(1..n) /\ Cardinality(1..n) = n
  <2>1. \A a, b \in Int : IsFiniteSet(a..b) /\ Cardinality(a..b) = IF a > b THEN 0 ELSE b - a + 1
    BY FS_Interval
  <2>2. 1 \in Int /\ n \in Int /\ n = IF 1 > n THEN 0 ELSE n - 1 + 1
    OBVIOUS
  <2> QED BY <2>1, <2>2, Zenon
<1>4. IsFiniteSet(Ptn) /\ Cardinality(Ptn) <= Cardinality(1..n)
  BY <1>2, <1>3, FS_Surjection
<1> QED BY <1>1, <1>3, <1>4, FS_CardinalityType

LEMMA SlotCount ==
    /\ IsFiniteSet(Slots) /\ Cardinality(Slots) = ROOT_DIR_MAX
    /\ ROOT_DIR_MAX \in Nat /\ 1 \in Slots /\ 2 \in Slots /\ Slots \subseteq Nat
    /\ IsFiniteSet(Live) /\ Cardinality(Live) \in Nat
<1>1. ROOT_DIR_MAX \in Nat /\ ROOT_DIR_MAX >= 2
  BY FsAssumption
<1>2. IsFiniteSet(Slots) /\ Cardinality(Slots) = ROOT_DIR_MAX
  BY <1>1, FS_Interval DEF Slots
<1>3. IsFiniteSet(Live)
  BY <1>2, FS_Subset DEF Live
<1> QED BY <1>1, <1>2, <1>3, FS_CardinalityType DEF Slots

\* The directory that root_dir_init builds.
FreshRoot == root_blk = EmptyRoot /\ i_size = 2 /\ mounted = {} /\ ~panicked

LEMMA FreshIsRoot == FreshRoot => RootInv
<1> SUFFICES ASSUME FreshRoot PROVE RootInv
  OBVIOUS
<1> USE DEF FreshRoot
<1>1. ASSUME NEW i \in Slots
      PROVE  /\ root_blk[i] = Dirent(root_blk[i].filename, root_blk[i].i_no, root_blk[i].f_type)
             /\ root_blk[i].filename = NoName /\ root_blk[i].f_type \in {"FT_DIR", "FT_UNKNOWN"}
             /\ root_blk[i].f_type = "FT_DIR" <=> i <= 2
  <2> PICK t : t = IF i <= 2 THEN "FT_DIR" ELSE "FT_UNKNOWN"
    OBVIOUS
  <2>1. root_blk[i] = Dirent(NoName, 0, t)
    BY DEF EmptyRoot
  <2> QED BY <2>1 DEF Dirent
<1>2. BlockShape
  <2>1. root_blk = [i \in Slots |-> root_blk[i]]
    BY DEF EmptyRoot
  <2> QED BY <1>1, <2>1 DEF BlockShape
<1>4. Live = {1, 2}
  <2>1. \A i \in Slots : i <= 2 <=> i = 1 \/ i = 2
    <3>1. ROOT_DIR_MAX \in Nat
      BY SlotCount
    <3> QED BY <3>1 DEF Slots
  <2>2. \A i : i \in Live <=> i \in Slots /\ (i = 1 \/ i = 2)
    BY <1>1, <2>1 DEF Live
  <2> QED BY <2>2, SlotCount
<1>5. Cardinality(Live) = 2
  <2>1. IsFiniteSet({1}) /\ Cardinality({1}) = 1
    BY FS_Singleton
  <2>2. Cardinality({1} \cup {2}) = 2
    BY <2>1, FS_AddElement
  <2>3. {1} \cup {2} = {1, 2}
    OBVIOUS
  <2> QED BY <1>4, <2>2, <2>3
<1>6. DotEntries
  BY <1>1, SlotCount DEF DotEntries
<1>7. LiveMounted
  BY <1>4 DEF LiveMounted
<1> QED BY <1>2, <1>5, <1>6, <1>7, FS_EmptySet DEF RootInv, MountedLive, SizeCounts, FullIfPanicked

\* The base of a mounted partition outlives the mount of another.
LEMMA BasesStay ==
    ASSUME InodeInv, NEW p, p \notin mounted, AssignBase(p)
    PROVE  \A q \in mounted : inode_base'[q] = inode_base[q]
BY DEF InodeInv, BasesApart, AssignBase

\* The first free entry becomes the partition's.
LEMMA MountRoot ==
    ASSUME RootInv, InodeInv, NamesApart, mounted \subseteq Ptn, NEW p \in Ptn, p \notin mounted,
           Mount(p), UNCHANGED ptn_list, ~panicked
    PROVE  RootInv'
<1> DEFINE free == {i \in Slots : root_blk[i].f_type = "FT_UNKNOWN"}
<1>1. /\ IsFiniteSet(Ptn) /\ IsFiniteSet(mounted) /\ Cardinality(mounted) \in Nat
      /\ Cardinality(mounted \cup {p}) = Cardinality(mounted) + 1
      /\ Cardinality(mounted \cup {p}) <= Len(ptn_list) /\ Len(ptn_list) \in Nat
  <2>1. IsFiniteSet(Ptn) /\ Cardinality(Ptn) \in Nat /\ Cardinality(Ptn) <= Len(ptn_list) /\ Len(ptn_list) \in Nat
    BY PtnCount DEF InodeInv
  <2>2. IsFiniteSet(mounted)
    BY <2>1, FS_Subset
  <2>3. Cardinality(mounted) \in Nat /\ Cardinality(mounted \cup {p}) = Cardinality(mounted) + 1
    BY <2>2, FS_AddElement, FS_CardinalityType
  <2>4. mounted \cup {p} \in SUBSET Ptn
    OBVIOUS
  <2>5. Cardinality(mounted \cup {p}) <= Cardinality(Ptn)
    BY <2>1, <2>4, FS_Subset
  <2> QED BY <2>1, <2>2, <2>3, <2>5
<1>2. \A i \in Slots : i \in Live <=> i \notin free
  BY DEF RootInv, BlockShape, Live
<1>3. CASE free = {}
  <2>1. panicked' = TRUE /\ UNCHANGED <<root_blk, i_size, mounted, ptn_list>>
        /\ \A q \in mounted : inode_base'[q] = inode_base[q]
    BY <1>3, BasesStay DEF Mount
  <2>2. Live = Slots
    BY <1>2, <1>3 DEF Live
  <2>3. i_size = ROOT_DIR_MAX /\ Len(ptn_list) > ROOT_DIR_MAX - 2
    <3>1. i_size = ROOT_DIR_MAX /\ i_size = Cardinality(mounted) + 2
      BY <2>2, SlotCount DEF RootInv, SizeCounts
    <3> QED BY <1>1, <3>1, SlotCount
  <2>4. Live' = Live
    BY <2>1 DEF Live
  <2>5. \A q \in mounted : \A i \in Slots : HasEntry(q, i) => HasEntry(q, i)'
    BY <2>1 DEF HasEntry
  <2> QED BY <2>1, <2>3, <2>4, <2>5
          DEF RootInv, BlockShape, DotEntries, LiveMounted, MountedLive, SizeCounts, FullIfPanicked
<1>4. CASE free # {}
  <2> PICK m : m = Min(free)
    OBVIOUS
  <2>1. m \in free /\ \A j \in free : m <= j
    BY <1>4, SlotCount, MinIsLeast
  <2> PICK e : e = Dirent(p.name, inode_base'[p], "FT_DIR")
    OBVIOUS
  <2>2. /\ root_blk' = [root_blk EXCEPT ![m] = e] /\ i_size' = i_size + 1
        /\ mounted' = mounted \cup {p} /\ panicked' = panicked
        /\ \A q \in mounted : inode_base'[q] = inode_base[q]
    BY <1>4, BasesStay DEF Mount
  <2>3. m \in Slots /\ m \in Nat /\ root_blk[m].f_type = "FT_UNKNOWN" /\ m \notin Live
    BY <2>1, SlotCount DEF Live
  <2>4. e.filename = p.name /\ e.f_type = "FT_DIR" /\ e = Dirent(e.filename, e.i_no, e.f_type)
    BY DEF Dirent
  <2>5. DOMAIN root_blk = Slots /\ DOMAIN root_blk' = Slots /\ root_blk' = [i \in Slots |-> root_blk'[i]]
    BY <2>2 DEF RootInv, BlockShape
  <2>6. root_blk'[m] = e /\ \A i \in Slots : i # m => root_blk'[i] = root_blk[i]
    BY <2>2, <2>3, <2>5
  <2>7. BlockShape'
    <3>1. \A i \in Slots : root_blk[i] = Dirent(root_blk[i].filename, root_blk[i].i_no, root_blk[i].f_type)
      BY DEF RootInv, BlockShape
    <3>2. \A i \in Slots : root_blk'[i] = Dirent(root_blk'[i].filename, root_blk'[i].i_no, root_blk'[i].f_type)
      BY <2>4, <2>6, <3>1
    <3>3. \A i \in Slots : root_blk'[i].f_type \in {"FT_DIR", "FT_UNKNOWN"}
      BY <2>4, <2>6 DEF RootInv, BlockShape
    <3> QED BY <2>5, <3>2, <3>3 DEF BlockShape, Slots
  <2>8. Live' = Live \cup {m}
    BY <2>3, <2>4, <2>6 DEF Live
  <2>9. Cardinality(Live') = Cardinality(Live) + 1
    BY <2>3, <2>8, SlotCount, FS_AddElement
  <2>10. m > 2
    <3>1. m # 1 /\ m # 2
      BY <2>3 DEF RootInv, DotEntries
    <3>2. m # 0
      BY <2>3 DEF Slots
    <3> QED BY <2>3, <3>1, <3>2
  <2>11. DotEntries'
    <3>1. \A i \in 1..2 : i \in Slots /\ root_blk'[i] = root_blk[i]
      BY <2>6, <2>10, SlotCount
    <3> QED BY <3>1 DEF RootInv, DotEntries
  <2>12. LiveMounted'
    <3>1. \A i \in Live : i # m /\ i \in Slots /\ root_blk'[i] = root_blk[i]
      BY <2>3, <2>6 DEF Live
    <3>2. root_blk'[m].filename = p.name /\ p \in mounted'
      BY <2>2, <2>4, <2>6
    <3> QED BY <2>2, <2>8, <3>1, <3>2 DEF RootInv, LiveMounted
  <2>13. HasEntry(p, m)'
    <3>1. ASSUME NEW j \in Slots, j # m, root_blk'[j].filename = p.name
          PROVE  m < j /\ root_blk'[j].f_type = "FT_UNKNOWN"
      <4>1. root_blk'[j] = root_blk[j]
        BY <2>6, <3>1
      <4>2. j \notin Live
        <5> SUFFICES ASSUME j \in Live PROVE FALSE
          OBVIOUS
        <5>1. CASE j > 2
          BY <3>1, <4>1, <5>1 DEF RootInv, LiveMounted, NamesApart
        <5>2. CASE ~(j > 2)
          <6>1. j \in 1..2
            BY <5>2 DEF Slots
          <6> QED BY <3>1, <4>1, <6>1 DEF RootInv, DotEntries, NamesApart
        <5> QED BY <5>1, <5>2
      <4>3. j \in free /\ j \in Nat
        BY <1>2, <4>2, SlotCount
      <4> QED BY <2>1, <2>3, <3>1, <4>1, <4>3
    <3> QED BY <2>6, <3>1 DEF HasEntry, Slots
  <2>14. ASSUME NEW q \in mounted, NEW i \in Slots, HasEntry(q, i)
         PROVE  HasEntry(q, i)'
    <3>1. root_blk[i].f_type = "FT_DIR" /\ i # m
      BY <2>3, <2>14 DEF HasEntry, Dirent
    <3>2. p.name # q.name
      BY DEF NamesApart
    <3>3. \A j \in Slots : j # i /\ root_blk'[j].filename = q.name =>
              i < j /\ root_blk'[j].f_type = "FT_UNKNOWN"
      BY <2>4, <2>6, <2>14, <3>2 DEF HasEntry
    <3> QED BY <2>2, <2>6, <2>14, <3>1, <3>3 DEF HasEntry, Slots
  <2>15. MountedLive'
    BY <2>2, <2>3, <2>13, <2>14 DEF RootInv, MountedLive, Slots
  <2>16. SizeCounts'
    <3>1. i_size = Cardinality(Live) /\ i_size = Cardinality(mounted) + 2
      BY DEF RootInv, SizeCounts
    <3>2. Cardinality(Live') = i_size + 1
      BY <2>9, <3>1
    <3>3. Cardinality(mounted') = Cardinality(mounted) + 1
      BY <1>1, <2>2
    <3>4. i_size + 1 = (Cardinality(mounted) + 1) + 2
      BY <1>1, <3>1
    <3> QED BY <2>2, <3>2, <3>3, <3>4 DEF SizeCounts
  <2> QED BY <2>2, <2>7, <2>11, <2>12, <2>15, <2>16 DEF RootInv, FullIfPanicked
<1> QED BY <1>3, <1>4

\* The first entry with the partition's name is the live one; it becomes free.
LEMMA UnmountRoot ==
    ASSUME RootInv, NamesApart, mounted \subseteq Ptn, ListIsSeq, NEW p \in mounted,
           fs_unmount(p)
    PROVE  RootInv'
<1> DEFINE found == {i \in Slots : root_blk[i].filename = p.name}
<1>1. PICK m \in Slots : HasEntry(p, m)
  BY DEF RootInv, MountedLive
<1>2. root_blk[m].filename = p.name /\ root_blk[m].f_type = "FT_DIR" /\ m \in Live /\ m \in Nat
  BY <1>1, SlotCount DEF HasEntry, Dirent, Live
<1>3. Min(found) = m
  <2>1. found \subseteq Nat /\ found # {} /\ m \in found
    BY <1>1, <1>2, SlotCount
  <2>2. \A j \in found : j \in Slots /\ (j # m => m < j)
    BY <1>1 DEF HasEntry
  <2> PICK n : n = Min(found)
    OBVIOUS
  <2> HIDE DEF found
  <2>3. n \in found /\ n <= m /\ n \in Nat
    BY <2>1, MinIsLeast
  <2>4. n # m => m < n
    BY <2>2, <2>3
  <2> QED BY <1>2, <2>3, <2>4
<1>4. /\ root_blk' = [root_blk EXCEPT ![m].f_type = "FT_UNKNOWN"] /\ i_size' = i_size - 1
      /\ mounted' = mounted \ {p} /\ UNCHANGED <<inode_base, panicked>> /\ UNCHANGED ptn_list /\ ~panicked
  BY <1>3 DEF fs_unmount, scanvars, Ready
<1>5. \A i \in Slots : root_blk[i] = Dirent(root_blk[i].filename, root_blk[i].i_no, root_blk[i].f_type)
  BY DEF RootInv, BlockShape
<1> PICK e : e = Dirent(root_blk[m].filename, root_blk[m].i_no, "FT_UNKNOWN")
  OBVIOUS
<1>6. e.filename = p.name /\ e.f_type = "FT_UNKNOWN" /\ e = Dirent(e.filename, e.i_no, e.f_type)
  BY <1>2 DEF Dirent
<1>7. root_blk' = [root_blk EXCEPT ![m] = e]
  <2>1. [root_blk[m] EXCEPT !.f_type = "FT_UNKNOWN"] = e
    <3> PICK f, n : f = root_blk[m].filename /\ n = root_blk[m].i_no
      OBVIOUS
    <3>1. root_blk[m] = Dirent(f, n, root_blk[m].f_type) /\ e = Dirent(f, n, "FT_UNKNOWN")
      BY <1>5
    <3> QED BY <3>1 DEF Dirent
  <2> QED BY <1>4, <2>1
<1>8. /\ root_blk' = [i \in Slots |-> root_blk'[i]] /\ root_blk'[m] = e
      /\ \A i \in Slots : i # m => root_blk'[i] = root_blk[i]
  BY <1>7 DEF RootInv, BlockShape
<1>9. BlockShape'
  <2>1. \A i \in Slots : root_blk'[i] = Dirent(root_blk'[i].filename, root_blk'[i].i_no, root_blk'[i].f_type)
    BY <1>5, <1>6, <1>8
  <2>2. \A i \in Slots : root_blk'[i].f_type \in {"FT_DIR", "FT_UNKNOWN"}
    BY <1>6, <1>8 DEF RootInv, BlockShape
  <2> QED BY <1>8, <2>1, <2>2 DEF BlockShape, Slots
<1>10. Live' = Live \ {m}
  BY <1>6, <1>8 DEF Live
<1>11. DotEntries'
  <2>1. \A i \in 1..2 : i \in Slots /\ i # m
    BY <1>2, SlotCount DEF RootInv, DotEntries, NamesApart
  <2> QED BY <1>8, <2>1 DEF RootInv, DotEntries
<1>12. LiveMounted'
  <2>1. ASSUME NEW i \in Live', i > 2
        PROVE  \E q \in mounted' : root_blk'[i].filename = q.name
    <3>1. i \in Live /\ i # m /\ i \in Slots /\ root_blk'[i] = root_blk[i] /\ root_blk[i].f_type = "FT_DIR"
      BY <1>8, <1>10, <2>1 DEF Live
    <3>2. PICK q \in mounted : root_blk[i].filename = q.name
      BY <2>1, <3>1 DEF RootInv, LiveMounted
    <3>3. q # p
      BY <1>1, <3>1, <3>2 DEF HasEntry
    <3> QED BY <1>4, <3>1, <3>2, <3>3
  <2> QED BY <2>1 DEF LiveMounted
<1>13. MountedLive'
  <2>1. ASSUME NEW q \in mounted, q # p, NEW i \in Slots, HasEntry(q, i)
        PROVE  HasEntry(q, i)'
    <3>1. p.name # q.name
      BY <2>1 DEF NamesApart
    <3>2. root_blk[i].filename = q.name /\ i # m
      BY <1>2, <2>1, <3>1 DEF HasEntry, Dirent
    <3>3. \A j \in Slots : j # i /\ root_blk'[j].filename = q.name =>
              i < j /\ root_blk'[j].f_type = "FT_UNKNOWN"
      BY <1>6, <1>8, <2>1, <3>1 DEF HasEntry
    <3> QED BY <1>4, <1>8, <2>1, <3>2, <3>3 DEF HasEntry, Slots
  <2> QED BY <1>4, <2>1 DEF RootInv, MountedLive, Slots
<1>14. SizeCounts'
  <2>1. i_size = Cardinality(Live) /\ i_size = Cardinality(mounted) + 2
    BY DEF RootInv, SizeCounts
  <2>2. Cardinality(Live') = Cardinality(Live) - 1
    BY <1>2, <1>10, SlotCount, FS_RemoveElement
  <2>3. IsFiniteSet(mounted)
    BY PtnCount, FS_Subset
  <2>4. Cardinality(mounted') = Cardinality(mounted) - 1 /\ Cardinality(mounted) \in Nat
    BY <1>4, <2>3, FS_RemoveElement, FS_CardinalityType
  <2> PICK n \in Nat : n = Cardinality(mounted)
    BY <2>4
  <2>5. n + 2 - 1 = Cardinality(mounted') + 2 /\ n + 2 - 1 = Cardinality(Live')
    <3>1. Cardinality(mounted') = n - 1 /\ Cardinality(Live') = (n + 2) - 1
      BY <2>1, <2>2, <2>4
    <3>2. n + 2 - 1 = (n - 1) + 2
      OBVIOUS
    <3> QED BY <3>1, <3>2
  <2> QED BY <1>4, <2>1, <2>5 DEF SizeCounts
<1> QED BY <1>4, <1>9, <1>11, <1>12, <1>13, <1>14 DEF RootInv, FullIfPanicked

\* What touches neither the directory nor the list, once that is complete.
LEMMA RootStays ==
    ASSUME RootInv, UNCHANGED <<root_blk, i_size, inode_base, panicked, mounted>>,
           panicked => UNCHANGED ptn_list
    PROVE  RootInv'
<1>1. Live' = Live
  BY DEF Live
<1>2. \A p \in mounted : \A i \in Slots : HasEntry(p, i)' <=> HasEntry(p, i)
  BY DEF HasEntry, Slots
<1> QED BY <1>1, <1>2
    DEF RootInv, BlockShape, DotEntries, LiveMounted, MountedLive, SizeCounts, FullIfPanicked, Slots

\* The turns: the first of what is left, which occurs there once, is mounted.
LEMMA TurnStep ==
    ASSUME TurnInv, InodeInv, ListInv, [Next]_vars
    PROVE  TurnInv'
<1>1. CASE Scan /\ UNCHANGED <<diskvars, bootvars, ramvars>>
  <2>1. ~ScanDone
    BY <1>1, DrivesAssumption DEF Scan, ide_ch_init, SkipUnused, EnterExtended, Record, EndOfTable,
                                  AtEntry, ScanDone
  <2>2. ~started /\ UNCHANGED <<started, unread, panicked, mounted>>
    BY <1>1, <2>1 DEF InodeInv, BasesOfList, bootvars, ramvars
  <2> QED BY <2>2 DEF TurnInv
<1>2. CASE root_dir_init
  <2>1. /\ unread' = ptn_list /\ mounted' = {} /\ started' /\ Ptn' = Ptn
    BY <1>2 DEF root_dir_init, TurnInv, Ptn, scanvars
  <2>2. unread' \in Seq(Ptn' \ mounted')
    BY <2>1 DEF InodeInv, ListIsSeq
  <2>3. \A i, j \in 1..Len(unread') : unread'[i] = unread'[j] => i = j
    BY <2>1 DEF ListInv, InodeInv, ListIsSeq
  <2> QED BY <2>1, <2>2, <2>3 DEF TurnInv
<1>3. CASE fs_init
  <2>1. unread # <<>> /\ UNCHANGED started /\ Ptn' = Ptn /\ started /\ unread \in Seq(Ptn \ mounted)
    BY <1>3 DEF fs_init, scanvars, Ptn, TurnInv
  <2>2. CASE UNCHANGED <<unread, ramvars>>
    BY <2>1, <2>2 DEF TurnInv, ramvars
  <2>3. CASE Mount(Head(unread)) /\ unread' = Tail(unread)
    <3> PICK p : p = Head(unread)
      OBVIOUS
    <3>1. mounted' \subseteq mounted \cup {p} /\ p \in Ptn /\ mounted' \subseteq Ptn
      BY <2>1, <2>3 DEF Mount, TurnInv
    <3>2. /\ Len(unread) \in Nat \ {0} /\ p = unread[1] /\ Len(unread') = Len(unread) - 1
          /\ \A i \in 1..Len(unread') : unread'[i] = unread[i + 1]
          /\ unread' \in Seq(Ptn \ mounted)
      BY <2>1, <2>3, HeadTailProperties
    <3>3. \A i \in 1..Len(unread') : i + 1 \in 1..Len(unread) /\ i + 1 # 1 /\ 1 \in 1..Len(unread)
      BY <3>2
    <3>4. \A i \in 1..Len(unread') : unread'[i] \in Ptn \ mounted'
      BY <3>1, <3>2, <3>3 DEF TurnInv
    <3>5. unread' \in Seq(Ptn \ mounted')
      BY <3>2, <3>4, SeqDef
    <3>6. ASSUME NEW i \in 1..Len(unread'), NEW j \in 1..Len(unread'), unread'[i] = unread'[j]
          PROVE  i = j
      <4>1. i + 1 = j + 1
        BY <3>2, <3>3, <3>6 DEF TurnInv
      <4> QED BY <4>1
    <3> QED BY <2>1, <3>1, <3>5, <3>6 DEF TurnInv
  <2> QED BY <1>3, <2>2, <2>3 DEF fs_init
<1>4. ASSUME NEW p \in Ptn, fs_mount(p) \/ fs_unmount(p) PROVE TurnInv'
  <2>1. unread' = <<>> /\ started' /\ Ptn' = Ptn /\ mounted' \subseteq mounted \cup {p}
    BY <1>4 DEF fs_mount, fs_unmount, Mount, Ready, bootvars, scanvars, Ptn
  <2> QED BY <2>1 DEF TurnInv
<1>5. CASE Reboot
  <2>1. unread' = <<>> /\ ~started' /\ mounted' = {} /\ ~panicked'
    BY <1>5 DEF Reboot
  <2> QED BY <2>1 DEF TurnInv
<1>6. CASE fs_format \/ (\E p \in Ptn : FormatAgain(p)) \/ UNCHANGED vars
  BY <1>6 DEF fs_format, FormatAgain, vars, scanvars, bootvars, ramvars, TurnInv, Ptn
<1> QED BY <1>1, <1>2, <1>3, <1>4, <1>5, <1>6 DEF Next

LEMMA RootStep ==
    ASSUME RootInv, TurnInv, InodeInv, ListInv, [Next]_vars
    PROVE  RootInv'
<1>0. FreshRoot' => RootInv'
  BY FreshIsRoot, PTL
<1>1. NamesApart /\ ListIsSeq /\ mounted \subseteq Ptn
  BY NamesAreApart DEF InodeInv, TurnInv
<1>2. CASE Scan /\ UNCHANGED <<diskvars, bootvars, ramvars>>
  <2>1. ~ScanDone
    BY <1>2, DrivesAssumption DEF Scan, ide_ch_init, SkipUnused, EnterExtended, Record, EndOfTable,
                                  AtEntry, ScanDone
  <2>2. ~panicked
    BY <2>1 DEF InodeInv, BasesOfList, TurnInv
  <2> QED BY <1>2, <2>2, RootStays DEF ramvars
<1>3. CASE root_dir_init
  <2>1. FreshRoot'
    BY <1>3 DEF root_dir_init, TurnInv, FreshRoot, EmptyRoot, Slots
  <2> QED BY <1>0, <2>1
<1>4. CASE fs_init
  <2>1. UNCHANGED ptn_list /\ ~panicked /\ Head(unread) \in Ptn \ mounted
    BY <1>4 DEF fs_init, scanvars, TurnInv
  <2>2. CASE UNCHANGED ramvars
    BY <2>1, <2>2, RootStays DEF ramvars
  <2>3. CASE Mount(Head(unread))
    BY <1>1, <2>1, <2>3, MountRoot
  <2> QED BY <1>4, <2>2, <2>3 DEF fs_init
<1>5. ASSUME NEW p \in Ptn, fs_mount(p) PROVE RootInv'
  <2>1. UNCHANGED ptn_list /\ ~panicked /\ p \notin mounted /\ Mount(p)
    BY <1>5 DEF fs_mount, scanvars, Ready
  <2> QED BY <1>1, <2>1, MountRoot
<1>6. ASSUME NEW p \in Ptn, fs_unmount(p) PROVE RootInv'
  <2>1. p \in mounted
    BY <1>6 DEF fs_unmount
  <2> QED BY <1>1, <1>6, <2>1, UnmountRoot
<1>7. CASE Reboot
  <2>1. FreshRoot'
    BY <1>7 DEF Reboot, FreshRoot, EmptyRoot, Slots
  <2> QED BY <1>0, <2>1
<1>8. CASE fs_format \/ (\E p \in Ptn : FormatAgain(p)) \/ UNCHANGED vars
  BY <1>8, RootStays DEF fs_format, FormatAgain, vars, scanvars, ramvars
<1> QED BY <1>2, <1>3, <1>4, <1>5, <1>6, <1>7, <1>8 DEF Next

LEMMA RootStart == Init => RootInv /\ TurnInv
<1> SUFFICES ASSUME Init PROVE RootInv /\ TurnInv
  OBVIOUS
<1>1. /\ root_blk = EmptyRoot /\ i_size = 2 /\ mounted = {} /\ panicked = FALSE
      /\ started = FALSE /\ unread = <<>>
  BY DEF Init
<1> QED BY <1>1, FreshIsRoot DEF TurnInv, FreshRoot

\* A mounted partition has one live entry, with its inode number, and an
\* unmounted one none.
LEMMA RootImplied ==
    ASSUME RootInv, TurnInv, NamesApart
    PROVE  DirectoryTracksMounts
<1>1. ASSUME NEW p \in mounted
      PROVE  \E i \in Slots : LiveOf(p.name) = {i} /\ root_blk[i].i_no = inode_base[p]
  <2>1. PICK i \in Slots : HasEntry(p, i)
    BY DEF RootInv, MountedLive
  <2>2. /\ root_blk[i].filename = p.name /\ root_blk[i].f_type = "FT_DIR"
        /\ root_blk[i].i_no = inode_base[p]
    BY <2>1 DEF HasEntry, Dirent
  <2>3. LiveOf(p.name) = {i}
    BY <2>1, <2>2 DEF HasEntry, LiveOf
  <2> QED BY <2>2, <2>3
<1>2. ASSUME NEW p \in Ptn \ mounted PROVE LiveOf(p.name) = {}
  <2> SUFFICES ASSUME NEW i \in LiveOf(p.name) PROVE FALSE
    OBVIOUS
  <2>1. i \in Slots /\ i \in Live /\ root_blk[i].filename = p.name
    BY DEF LiveOf, Live
  <2>2. CASE i > 2
    BY <2>1, <2>2 DEF RootInv, LiveMounted, TurnInv, NamesApart
  <2>3. CASE ~(i > 2)
    <3>1. i \in 1..2
      BY <2>1, <2>3 DEF Slots
    <3> QED BY <2>1, <3>1 DEF RootInv, DotEntries, NamesApart
  <2> QED BY <2>2, <2>3
<1> QED BY <1>1, <1>2 DEF DirectoryTracksMounts, RootInv, SizeCounts, FullIfPanicked, Live

\* The root directory and the turns of fs_init, through every history of mounts,
\* unmounts, formats and restarts.
THEOREM RootInvariant == Spec => [](RootInv /\ TurnInv /\ ScanInv)
<1>1. ScanInv => ListInv
  BY DEF ScanInv
<1>2. Init /\ [][Next]_vars /\ [](InodeInv /\ ListInv) => [](RootInv /\ TurnInv)
  BY RootStart, RootStep, TurnStep, PTL
<1> QED BY <1>1, <1>2, ScanInvariant, PTL DEF Spec

\* The root directory has one live entry for each mounted partition and none
\* for the others, although fs_unmount takes the first entry that has the name
\* (fs.c:298-313); the kernel stops with the directory full and only then
\* (fs.c:287): for a directory of any size and any number of partitions.
THEOREM DirectoryTracksMountsHolds == Spec => []DirectoryTracksMounts
<1>1. RootInv /\ TurnInv /\ ScanInv => DirectoryTracksMounts
  BY NamesAreApart, RootImplied DEF ScanInv
<1> QED BY <1>1, RootInvariant, PTL

-----------------------------------------------------------------------------
(* The channel.                                                            *)
(* Three invariants: who is at work, which no drive can disturb; where the  *)
(* drive is in a call it has kept up with; and how many permits there are   *)
(* while no command was for several sectors.                                *)

\* Where a thread holds the channel, and where it is at work on its drive.
Holding == {"chunk", "down", "poll", "data"}
Active(c) == c.pc \notin {"idle", "lock"}
Clean == Contents \ {Junk}

\* The locals of a thread in the driver.
Locals == [pc : {"idle", "lock"} \cup Holding \cup IdSteps, op : {"read", "write"},
           hd : Dev, lba : Sector, cnt : 0..MaxCnt, cnt_done : 0..MaxCnt,
           cnt_each : Nat, sec : Nat, buf : Seq(Contents)]

\* n sectors are whole chunks; where in a chunk sector i of a call is.
Whole(n) == n % Chunk = 0
Offset(i) == (i - 1) % Chunk

\* A round of the loop: whole chunks are done, and a chunk or the rest comes.
Round(c) == /\ c.cnt_each \in 1..Chunk /\ c.cnt_done + c.cnt_each <= c.cnt
            /\ Whole(c.cnt_done)
            /\ c.cnt_each = Chunk \/ c.cnt_done + c.cnt_each = c.cnt

\* What a call has done with its own state: a buffer of cnt sectors.
CallOK(c) ==
    /\ c.lba + c.cnt <= Sectors
    /\ c.cnt_done <= c.cnt
    /\ Whole(c.cnt_done) \/ c.cnt_done = c.cnt
    /\ Len(c.buf) = c.cnt
    /\ c.op = "write" => c.buf \in Seq(Clean)
    /\ c.pc \in Holding \cup {"lock", "id_down", "id_data"} => c.hd \in Present
    /\ c.pc \in {"down", "poll", "data"} => Round(c)
    /\ c.pc = "data" => c.sec < c.cnt_each
    /\ c.pc = "poll" \/ (c.pc = "down" /\ c.op = "read") => c.sec = 0
    /\ c.pc = "down" /\ c.op = "write" => c.sec = c.cnt_each
    /\ c.pc = "lock" => c.cnt_done = 0

\* A drive with nothing to do is as it was at the start; one at work has the
\* sectors it still moves on its disk.
DriveOK(dr) ==
    \/ dr = DriveIdle
    \/ /\ dr = [stat |-> dr.stat, cmd |-> dr.cmd, hd |-> dr.hd, at |-> dr.at, left |-> dr.left,
                in |-> dr.in]
       /\ dr.stat \in {"BSY", "DRQ"} /\ dr.hd \in Dev
       /\ dr.at \in Nat /\ dr.left \in Nat \ {0} /\ dr.at + dr.left <= Sectors
       /\ dr.in \in Clean \cup {<<>>}
       /\ dr.stat = "DRQ" => dr.in = <<>>

SemaOK ==
    /\ sema \in Nat /\ late \in Nat /\ wait_list \in Seq(Thread)
    /\ down \in [Thread -> {"call", "section", "parked", "asleep", "stuck"}]

\* The state is typed, and only drives that exist are used.
Typed ==
    /\ SemaOK /\ intr \in BOOLEAN /\ kept \in BOOLEAN /\ calm \in BOOLEAN
    /\ valid \in [Dev -> BOOLEAN] /\ \A d \in Dev : valid[d] => d \in Present
    /\ media \in [Dev -> [Sector -> Clean]]
    /\ DriveOK(drive)
Kinds ==
    /\ owner \in Thread \cup {NULL}
    /\ Typed
    /\ call \in [Thread -> Locals] /\ \A t \in Thread : CallOK(call[t])

\* One thread at most is at work, and inside a transfer it holds the mutex.
OneAtWork ==
    /\ \A t \in Thread : call[t].pc \in Holding <=> owner = t
    /\ \A t, u \in Thread : Active(call[t]) /\ Active(call[u]) => t = u
    /\ \A t, u \in Thread : call[t].pc \in IdSteps /\ u # t => call[u].pc = "idle"

\* The drive at sector k of the chunk of a call.
AtSector(c, cmd, k, stat, in) ==
    [stat |-> stat, cmd |-> cmd, hd |-> c.hd, at |-> c.lba + k, left |-> c.cnt_each - k, in |-> in]
StoredIn(dr, m, dev, s) == IF dr.in # <<>> /\ dr.hd = dev /\ dr.at = s THEN dr.in ELSE m[dev][s]

\* The sectors a call has moved through the data port.
Progress(c) == IF c.pc = "chunk" THEN c.cnt_done ELSE c.cnt_done + c.sec

\* A read: what is in the buffer, and the sector the drive has or gets.
ReadData(c, dr, m) ==
    /\ \A i \in 1..Progress(c) : c.buf[i] = m[c.hd][c.lba + Offset(i)]
    /\ c.pc = "chunk" => dr = DriveIdle
    /\ c.pc \in {"down", "poll", "data"} =>
          /\ dr \in {AtSector(c, "read", c.sec, "BSY", <<>>), AtSector(c, "read", c.sec, "DRQ", <<>>)}
          /\ c.pc = "data" /\ c.sec = 0 => dr.stat = "DRQ"

\* A write: what is on the disk, or in the drive on its way there.
WriteData(c, dr, m) ==
    /\ \A i \in 1..Progress(c) :
          i + Chunk > Progress(c) => StoredIn(dr, m, c.hd, c.lba + Offset(i)) = c.buf[i]
    /\ c.pc \in {"chunk", "down"} =>
          dr = DriveIdle \/ (dr.stat = "BSY" /\ dr.left = 1 /\ dr.in # <<>>)
    /\ c.pc \in {"poll", "data"} /\ c.sec = 0 =>
          /\ dr \in {AtSector(c, "write", 0, "BSY", <<>>), AtSector(c, "write", 0, "DRQ", <<>>)}
          /\ c.pc = "data" => dr.stat = "DRQ"
    /\ c.pc = "data" /\ c.sec > 0 =>
          dr \in {AtSector(c, "write", c.sec - 1, "BSY", c.buf[Progress(c)]),
                  AtSector(c, "write", c.sec, "DRQ", <<>>)}

\* The drive is where the code takes it to be.
DataOK(c, dr, m) ==
    /\ c.op = "read" => ReadData(c, dr, m)
    /\ c.op = "write" => WriteData(c, dr, m)

\* Permits that are there or on their way; a call at its end leaves none.
Permits == sema + late
Rests(dr, p) == dr = DriveIdle /\ p = 0

IdDrive(c, stat) ==
    [stat |-> stat, cmd |-> "identify", hd |-> c.hd, at |-> 0, left |-> 1, in |-> <<>>]

\* Identification: at most one permit, and none before the drive has answered.
IdCalm(c, dr, p, line) ==
    /\ c.pc = "identify" => Rests(dr, p)
    /\ c.pc = "id_poll" => IF c.hd \in Present
                           THEN \/ dr = IdDrive(c, "BSY") /\ p = 0 /\ ~line
                                \/ dr = IdDrive(c, "DRQ") /\ p <= 1
                           ELSE Rests(dr, p)
    /\ c.pc = "id_down" => dr = IdDrive(c, "DRQ") /\ p <= 1
    /\ c.pc = "id_data" => dr = IdDrive(c, "DRQ") /\ p = 0

\* The same of a transfer: a command of one sector has one permit, at the end.
TransferCalm(c, dr, p, line) ==
    /\ c.pc = "chunk" => Rests(dr, p)
    /\ c.pc = "down" => p <= 1 /\ (dr.stat = "BSY" => p = 0 /\ ~line)
    /\ c.pc \in {"poll", "data"} /\ c.op = "read" => dr.stat = "DRQ" /\ p = 0
    /\ c.pc \in {"poll", "data"} /\ c.op = "write" => p = 0 /\ ~line

Calm(c, dr, p, line, k) ==
    /\ IdCalm(c, dr, p, line)
    /\ c.pc \in Holding =>
          /\ k
          /\ c.pc # "chunk" => c.cnt_each = 1
          /\ TransferCalm(c, dr, p, line)

\* Both, of the thread at work.
Phase(c, dr, m, p, line, k, q) ==
    /\ k /\ c.pc \in Holding => DataOK(c, dr, m)
    /\ q => Calm(c, dr, p, line, k)

InPhase ==
    /\ \A t \in Thread : Active(call[t]) => Phase(call[t], drive, media, Permits, intr, kept, calm)
    /\ calm /\ (\A t \in Thread : ~Active(call[t])) => Rests(drive, Permits)

\* The inductive invariant of the channel.
IdeInv == Kinds /\ OneAtWork /\ InPhase

-----------------------------------------------------------------------------
\* Whole chunks, and the place of a sector in its chunk.
LEMMA ChunkSum ==
    ASSUME NEW n \in Nat, NEW s \in Nat, Whole(n), s < Chunk
    PROVE  (n + s) % Chunk = s /\ Whole(n + Chunk)
<1>1. Chunk \in Nat \ {0}
  BY IdeAssumption
<1> DEFINE q == n \div Chunk
<1>2. n = Chunk * q + (n % Chunk) /\ q \in Int
  BY <1>1, SMT
<1>3. n + s = q * Chunk + s /\ n + Chunk = (q + 1) * Chunk + 0
  BY <1>1, <1>2, SMT DEF Whole
<1> HIDE DEF q
<1>4. ASSUME NEW a \in Int, NEW b \in Nat \ {0}, NEW k \in Int, NEW r \in Nat, r < b, a = k * b + r
      PROVE  a % b = r
  BY <1>4, SMT
<1>5. n + Chunk \in Int /\ q + 1 \in Int /\ n + s \in Int /\ 0 < Chunk /\ 0 \in Nat
  BY <1>1, <1>2
<1>6. (n + Chunk) % Chunk = 0 /\ (n + s) % Chunk = s
  BY <1>1, <1>2, <1>3, <1>4, <1>5
<1> QED
  BY <1>6 DEF Whole

LEMMA WholeZero == Whole(0)
  BY IdeAssumption, SMT DEF Whole

LEMMA OffsetOf ==
    ASSUME NEW n \in Nat, NEW s \in Nat, Whole(n), s < Chunk
    PROVE  Offset(n + s + 1) = s
<1>1. (n + s + 1) - 1 = n + s
  OBVIOUS
<1> QED
  BY <1>1, ChunkSum DEF Offset

LEMMA OffsetBound ==
    ASSUME NEW n \in Nat \ {0}
    PROVE  Offset(n) \in Nat /\ Offset(n) < Chunk /\ Offset(n) <= n - 1
<1>1. n - 1 \in Nat /\ Chunk \in Nat \ {0}
  BY IdeAssumption
<1>2. ASSUME NEW a \in Nat, NEW b \in Nat \ {0}
      PROVE  a % b \in Nat /\ a % b < b /\ a % b <= a
  BY <1>2, SMT
<1> QED
  BY <1>1, <1>2 DEF Offset

\* Sectors less than a chunk apart are at different places.
LEMMA OffsetApart ==
    ASSUME NEW i \in Nat \ {0}, NEW j \in Nat \ {0}, i < j, j < i + Chunk
    PROVE  Offset(i) # Offset(j)
<1>1. i - 1 \in Nat /\ j - 1 \in Nat /\ Chunk \in Nat \ {0} /\ (j - 1) - (i - 1) \in 1..(Chunk - 1)
  BY IdeAssumption
<1>2. ASSUME NEW a \in Nat, NEW c \in Nat, NEW b \in Nat \ {0}, c - a \in 1..(b - 1)
      PROVE  a % b # c % b
  <2>1. /\ a = b * (a \div b) + (a % b) /\ c = b * (c \div b) + (c % b)
        /\ a \div b \in Int /\ c \div b \in Int
    BY SMT
  <2> SUFFICES ASSUME a % b = c % b PROVE FALSE
    OBVIOUS
  <2> DEFINE k == (c \div b) - (a \div b)
  <2>2. k \in Int /\ c - a = b * k
    BY <2>1, SMT
  <2> HIDE DEF k
  <2>3. k > 0
    BY <1>2, <2>2, SMT
  <2>4. b * k >= b
    BY <2>2, <2>3, SMT
  <2> QED
    BY <1>2, <2>2, <2>4, SMT
<1> QED
  BY <1>1, <1>2 DEF Offset

-----------------------------------------------------------------------------
\* The locals of a thread that has moved nothing.
LEMMA AtZero ==
    ASSUME NEW pc \in {"idle", "identify"}, NEW dev \in Dev
    PROVE  LET c == [pc |-> pc, op |-> "read", hd |-> dev, lba |-> 0, cnt |-> 0,
                     cnt_done |-> 0, cnt_each |-> 0, sec |-> 0, buf |-> <<>>]
           IN  c \in Locals /\ CallOK(c)
<1> DEFINE c == [pc |-> pc, op |-> "read", hd |-> dev, lba |-> 0, cnt |-> 0,
                 cnt_done |-> 0, cnt_each |-> 0, sec |-> 0, buf |-> <<>>]
<1>1. 0 \in Sector /\ 0 \in 0..MaxCnt /\ 0 \in Nat /\ 0 + 0 <= Sectors
  BY IdeAssumption, SMT DEF Sector
<1>2. <<>> \in Seq(Contents) /\ Len(<<>>) = 0
  BY Zenon, EmptySeq
<1>3. pc \in {"idle", "lock"} \cup Holding \cup IdSteps
  BY SMT DEF IdSteps
<1>4. c \in Locals
  BY <1>1, <1>2, <1>3 DEF Locals
<1>5. CallOK(c)
  BY <1>1, <1>2, <1>3, WholeZero, SMT DEF CallOK, Holding
<1> QED
  BY <1>4, <1>5, Zenon

\* A thread that has not called the driver, and one that identifies drive dev.
LEMMA NotCallingOK ==
    /\ NotCalling \in Locals /\ CallOK(NotCalling) /\ NotCalling.pc = "idle"
    /\ Identifying \in Locals /\ CallOK(Identifying)
    /\ Identifying.pc = "identify" /\ Identifying.op = "read"
<1>1. NotCalling = [pc |-> "idle", op |-> "read", hd |-> 0, lba |-> 0, cnt |-> 0,
                    cnt_done |-> 0, cnt_each |-> 0, sec |-> 0, buf |-> <<>>]
  BY DEF NotCalling
<1>2. Identifying = [pc |-> "identify", op |-> "read", hd |-> 0, lba |-> 0, cnt |-> 0,
                     cnt_done |-> 0, cnt_each |-> 0, sec |-> 0, buf |-> <<>>]
  BY <1>1 DEF Identifying
<1>3. 0 \in Dev
  BY DEF Dev
<1>4. NotCalling \in Locals /\ CallOK(NotCalling)
  BY <1>1, <1>3, AtZero, Zenon
<1>5. Identifying \in Locals /\ CallOK(Identifying)
  BY <1>2, <1>3, AtZero, Zenon
<1> QED
  BY <1>1, <1>2, <1>4, <1>5

\* Drive 1 is identified after drive 0.
LEMMA NextDrive ==
    ASSUME NEW dev \in Dev, dev = 0
    PROVE  /\ AfterIdentify(dev) \in Locals /\ CallOK(AfterIdentify(dev))
           /\ AfterIdentify(dev).pc = "identify" /\ AfterIdentify(dev).op = "read"
<1>1. AfterIdentify(dev) =
         [pc |-> "identify", op |-> "read", hd |-> 1, lba |-> 0, cnt |-> 0,
          cnt_done |-> 0, cnt_each |-> 0, sec |-> 0, buf |-> <<>>]
  BY DEF AfterIdentify, Identifying, NotCalling
<1>2. 1 \in Dev
  BY DEF Dev
<1>3. AfterIdentify(dev) \in Locals /\ CallOK(AfterIdentify(dev))
  BY <1>1, <1>2, AtZero, Zenon
<1> QED
  BY <1>1, <1>3

\* A step of the thread at work, which stays at work.
LEMMA WorkKeeps ==
    ASSUME Kinds, OneAtWork, NEW t \in Thread, NEW d,
           Active(call[t]), call' = [call EXCEPT ![t] = d],
           d \in Locals, CallOK(d), Active(d),
           d.pc \in Holding <=> call[t].pc \in Holding,
           d.pc \in IdSteps => call[t].pc \in IdSteps,
           UNCHANGED owner, Typed',
           Phase(d, drive', media', Permits', intr', kept', calm')
    PROVE  IdeInv'
<1>1. call'[t] = d /\ \A u \in Thread : u # t => call'[u] = call[u] /\ ~Active(call[u])
  BY SMT DEF Kinds, OneAtWork
<1>2. Kinds'
  BY <1>1, SMT DEF Kinds
<1>3. OneAtWork'
  BY <1>1, SMT DEF OneAtWork, Active, Holding, IdSteps
<1>4. InPhase'
  BY <1>1, Zenon DEF InPhase
<1> QED
  BY <1>2, <1>3, <1>4 DEF IdeInv

\* The thread at work ends: it lets go of the channel, or has identified.
LEMMA LeaveKeeps ==
    ASSUME Kinds, OneAtWork, NEW t \in Thread, Active(call[t]),
           call' = [call EXCEPT ![t] = NotCalling],
           owner' = NULL \/ (UNCHANGED owner /\ call[t].pc \in IdSteps),
           Typed', calm' => Rests(drive', Permits')
    PROVE  IdeInv'
<1>1. NotCalling \in Locals /\ CallOK(NotCalling) /\ NotCalling.pc = "idle"
  BY NotCallingOK, Zenon
<1>2. call'[t] = NotCalling /\ \A u \in Thread : u # t => call'[u] = call[u] /\ ~Active(call[u])
  BY SMT DEF Kinds, OneAtWork
<1>4. \A u \in Thread : ~Active(call'[u])
  BY <1>1, <1>2 DEF Active
<1>5. owner' = NULL
  BY SMT DEF Kinds, OneAtWork, IdSteps, Holding
<1>3. Kinds'
  BY <1>1, <1>2, <1>5, SMT DEF Kinds
<1>6. OneAtWork'
  BY <1>1, <1>2, <1>4, <1>5, IdeAssumption, SMT DEF OneAtWork, Active, Holding, IdSteps
<1>7. InPhase'
  BY <1>4, Zenon DEF InPhase
<1> QED
  BY <1>3, <1>6, <1>7 DEF IdeInv

\* What is not a step of a thread's call: the drive, a handler, a wait.
LEMMA DeviceKeeps ==
    ASSUME Kinds, OneAtWork, UNCHANGED <<owner, call>>, Typed',
           \A t \in Thread : Active(call[t]) =>
              Phase(call[t], drive', media', Permits', intr', kept', calm'),
           calm' /\ (\A t \in Thread : ~Active(call[t])) => Rests(drive', Permits')
    PROVE  IdeInv'
<1>1. Kinds'
  BY Zenon DEF Kinds
<1>2. OneAtWork'
  BY Zenon DEF OneAtWork
<1>3. InPhase'
  BY Zenon DEF InPhase
<1> QED
  BY <1>1, <1>2, <1>3 DEF IdeInv

-----------------------------------------------------------------------------
\* What a sector holds is never the empty buffer of the drive.
LEMMA NotEmpty ==
    ASSUME NEW x \in Clean
    PROVE  x # <<>>
<1>1. CASE x = Blank
  BY <1>1 DEF Blank
<1>2. CASE x \in Thread \X (1..MaxCnt)
  <2>1. PICK t \in Thread, i \in 1..MaxCnt : x = <<t, i>>
    BY <1>2
  <2> QED
    BY <2>1
<1> QED
  BY <1>1, <1>2 DEF Contents, Clean

\* At first the thread that boots identifies the drives, which rest.
LEMMA IdeInitOK == IdeInit => IdeInv
<1> SUFFICES ASSUME IdeInit PROVE IdeInv
  OBVIOUS
<1>1. PICK boot \in Thread :
         call = [t \in Thread |-> IF t = boot THEN Identifying ELSE NotCalling]
  BY DEF IdeInit
<1>2. Identifying.pc = "identify" /\ NotCalling.pc = "idle"
  BY NotCallingOK, Zenon
<1>3. \A t \in Thread : call[t].pc = IF t = boot THEN "identify" ELSE "idle"
  BY <1>1, <1>2
<1>4. Blank \in Clean
  BY DEF Contents, Blank, Junk, Clean
<1>5. Kinds
  <2>1. call \in [Thread -> Locals] /\ \A t \in Thread : CallOK(call[t])
    BY <1>1, NotCallingOK
  <2>2. media \in [Dev -> [Sector -> Clean]]
    BY <1>4 DEF IdeInit
  <2>3. valid \in [Dev -> BOOLEAN] /\ \A d \in Dev : valid[d] => d \in Present
    BY DEF IdeInit
  <2>4. owner \in Thread \cup {NULL} /\ sema \in Nat /\ late \in Nat
    BY SMT DEF IdeInit
  <2>5. intr \in BOOLEAN /\ kept \in BOOLEAN /\ calm \in BOOLEAN
    BY Zenon DEF IdeInit
  <2>6. wait_list \in Seq(Thread)
    BY EmptySeq, Zenon DEF IdeInit
  <2>7. down \in [Thread -> {"call", "section", "parked", "asleep", "stuck"}]
    BY DEF IdeInit
  <2>8. DriveOK(drive)
    BY Zenon DEF IdeInit, DriveOK
  <2> QED
    BY <2>1, <2>2, <2>3, <2>4, <2>5, <2>6, <2>7, <2>8, Zenon DEF Kinds, Typed, SemaOK
<1>6. OneAtWork
  BY <1>3, IdeAssumption, SMT DEF IdeInit, OneAtWork, Active, Holding, IdSteps
<1>7. InPhase
  <2>1. Rests(drive, Permits)
    BY DEF IdeInit, Rests, Permits
  <2>2. \A t \in Thread : Active(call[t]) => call[t] = Identifying
    BY <1>1, <1>2 DEF Active
  <2>3. Phase(Identifying, drive, media, Permits, intr, kept, calm)
    BY <2>1, NotCallingOK, SMT DEF Phase, Calm, IdCalm, Holding
  <2> QED
    BY <2>1, <2>2, <2>3, Zenon DEF InPhase
<1> QED
  BY <1>5, <1>6, <1>7 DEF IdeInv

\* What the invariant says of the thread at work.
LEMMA AtWork ==
    ASSUME IdeInv, NEW t \in Thread, Active(call[t])
    PROVE  /\ Kinds /\ OneAtWork /\ Typed
           /\ call[t] \in Locals /\ CallOK(call[t])
           /\ Phase(call[t], drive, media, Permits, intr, kept, calm)
  BY Zenon DEF IdeInv, Kinds, InPhase

\* The locals of a call as numbers.
LEMMA LocalNumbers ==
    ASSUME NEW c \in Locals, CallOK(c)
    PROVE  /\ c.lba \in Nat /\ c.cnt \in Nat /\ c.cnt_done \in Nat /\ c.cnt_each \in Nat
           /\ c.sec \in Nat /\ c.hd \in Dev /\ c.op \in {"read", "write"}
           /\ c.cnt <= MaxCnt /\ c.lba + c.cnt <= Sectors /\ c.cnt_done <= c.cnt
           /\ Sectors \in Nat \ {0} /\ Chunk \in Nat \ {0} /\ MaxCnt \in Nat
           /\ Len(c.buf) = c.cnt /\ c.buf \in Seq(Contents)
           /\ c.op = "write" => c.buf \in Seq(Clean)
<1>1. Sectors \in Nat \ {0} /\ Chunk \in Nat \ {0} /\ MaxCnt \in Nat
  BY IdeAssumption, SMT
<1>2. c.lba \in Nat
  BY <1>1 DEF Locals, Sector
<1>3. c.cnt \in Nat /\ c.cnt_done \in Nat /\ c.cnt <= MaxCnt
  BY <1>1 DEF Locals
<1> QED
  BY <1>1, <1>2, <1>3 DEF Locals, CallOK

\* The sectors a call has moved are sectors it was asked for, less than a chunk
\* from where it began.
LEMMA ProgressBound ==
    ASSUME NEW c \in Locals, CallOK(c), c.pc \in Holding
    PROVE  /\ Progress(c) \in Nat /\ Progress(c) <= c.cnt
           /\ \A i \in 1..Progress(c) :
                 i \in Nat \ {0} /\ i \in 1..Len(c.buf) /\ c.lba + Offset(i) \in Sector
<1>1. Progress(c) \in Nat /\ Progress(c) <= c.cnt
  BY LocalNumbers, SMT DEF Progress, CallOK, Round, Holding
<1>2. ASSUME NEW i \in 1..Progress(c)
      PROVE  i \in Nat \ {0} /\ i \in 1..Len(c.buf) /\ c.lba + Offset(i) \in Sector
  <2>1. i \in Nat \ {0} /\ i <= c.cnt
    BY <1>1, LocalNumbers, SMT
  <2>2. Offset(i) \in Nat /\ Offset(i) <= i - 1
    BY <2>1, OffsetBound
  <2> QED
    BY <2>1, <2>2, LocalNumbers, SMT DEF Sector
<1> QED
  BY <1>1, <1>2

-----------------------------------------------------------------------------
(* The semaphore and the drive.                                            *)

LEMMA SemaUp ==
    ASSUME SemaOK, sema_up
    PROVE  /\ sema' = sema + 1 /\ wait_list' \in Seq(Thread)
           /\ down' \in [Thread -> {"call", "section", "parked", "asleep", "stuck"}]
<1>1. sema' = sema + 1
  BY DEF sema_up
<1>2. CASE wait_list = <<>>
  BY <1>1, <1>2 DEF sema_up, SemaOK
<1>3. CASE wait_list # <<>>
  <2>1. wait_list' = Tail(wait_list) /\ wait_list' \in Seq(Thread)
    BY <1>3, HeadTailProperties DEF sema_up, SemaOK
  <2>2. down' \in [Thread -> {"call", "section", "parked", "asleep", "stuck"}]
    BY <1>3 DEF sema_up, SemaOK
  <2> QED
    BY <1>1, <2>1, <2>2
<1> QED
  BY <1>2, <1>3

\* An interrupt gives a permit, now or when the spinlock is free, unless it
\* hangs; only an edge does.
LEMMA RaiseGives ==
    ASSUME SemaOK, intr \in BOOLEAN, Raise
    PROVE  /\ SemaOK' /\ intr' = TRUE
           /\ Permits' = Permits \/ (~intr /\ Permits' = Permits + 1)
<1>1. intr' = TRUE
  BY DEF Raise
<1>2. CASE intr
  BY <1>1, <1>2 DEF Raise, semavars, SemaOK, Permits
<1>3. CASE ~intr /\ ~SlockHeld
  <2>1. sema_up /\ late' = late
    BY <1>3 DEF Raise, ide_handler
  <2>2. /\ sema' = sema + 1 /\ wait_list' \in Seq(Thread)
        /\ down' \in [Thread -> {"call", "section", "parked", "asleep", "stuck"}]
    BY <2>1, SemaUp
  <2> QED
    BY <1>1, <1>3, <2>1, <2>2, SMT DEF SemaOK, Permits
<1>4. CASE ~intr /\ SlockHeld
  <2>1. UNCHANGED <<sema, wait_list>>
    BY <1>4 DEF Raise, ide_handler
  <2>2. CASE late' = late + 1 /\ UNCHANGED down
    BY <1>1, <1>4, <2>1, <2>2, SMT DEF SemaOK, Permits
  <2>3. CASE /\ \E t \in Thread : down[t] = "section" /\ down' = [down EXCEPT ![t] = "stuck"]
             /\ UNCHANGED late
    <3>1. down' \in [Thread -> {"call", "section", "parked", "asleep", "stuck"}]
      BY <2>3 DEF SemaOK
    <3> QED
      BY <1>1, <2>1, <2>3, <3>1, SMT DEF SemaOK, Permits
  <2> QED
    BY <1>4, <2>2, <2>3 DEF Raise, ide_handler
<1> QED
  BY <1>2, <1>3, <1>4

\* The drive after it has stored the sector in its buffer.
AfterStore(dr) == IF dr.left = 1 THEN DriveIdle
                  ELSE [dr EXCEPT !.stat = "DRQ", !.at = @ + 1, !.left = @ - 1, !.in = <<>>]

LEMMA DriveStepsOK ==
    ASSUME NEW dr, DriveOK(dr), dr.stat = "BSY"
    PROVE  /\ dr.in = <<>> => DriveOK([dr EXCEPT !.stat = "DRQ"])
           /\ dr.in # <<>> => DriveOK(AfterStore(dr))
           /\ dr.in # <<>> => dr.hd \in Dev /\ dr.at \in Sector /\ dr.in \in Clean
<1>1. dr # DriveIdle
  BY DEF DriveIdle
<1>2. /\ dr = [stat |-> dr.stat, cmd |-> dr.cmd, hd |-> dr.hd, at |-> dr.at, left |-> dr.left,
               in |-> dr.in]
      /\ dr.hd \in Dev /\ dr.at \in Nat /\ dr.left \in Nat \ {0} /\ dr.at + dr.left <= Sectors
      /\ dr.in \in Clean \cup {<<>>} /\ Sectors \in Nat
  BY <1>1, IdeAssumption DEF DriveOK
<1>3. ASSUME dr.in = <<>>
      PROVE  DriveOK([dr EXCEPT !.stat = "DRQ"])
  <2> DEFINE e == [stat |-> "DRQ", cmd |-> dr.cmd, hd |-> dr.hd, at |-> dr.at, left |-> dr.left,
                   in |-> dr.in]
  <2>1. [dr EXCEPT !.stat = "DRQ"] = e
    BY <1>2
  <2>2. DriveOK(e)
    BY <1>2, <1>3, SMT DEF DriveOK
  <2> QED
    BY <2>1, <2>2
<1>4. ASSUME dr.in # <<>>
      PROVE  DriveOK(AfterStore(dr)) /\ dr.at \in Sector /\ dr.in \in Clean
  <2>1. dr.at \in Sector /\ dr.in \in Clean
    BY <1>2, <1>4, SMT DEF Sector
  <2>2. CASE dr.left = 1
    BY <2>1, <2>2 DEF AfterStore, DriveOK
  <2>3. CASE dr.left # 1
    <3> DEFINE e == [stat |-> "DRQ", cmd |-> dr.cmd, hd |-> dr.hd, at |-> dr.at + 1,
                     left |-> dr.left - 1, in |-> <<>>]
    <3>1. AfterStore(dr) = e
      BY <1>2, <2>3 DEF AfterStore
    <3>2. DriveOK(e)
      BY <1>2, <2>3, SMT DEF DriveOK
    <3> QED
      BY <2>1, <3>1, <3>2
  <2> QED
    BY <2>2, <2>3
<1> QED
  BY <1>2, <1>3, <1>4

\* A drive that fetches a sector, or has room for one.
LEMMA DataReady ==
    ASSUME NEW c \in Locals, CallOK(c), c.pc \in Holding, NEW dr, NEW m, DataOK(c, dr, m),
           dr.stat = "BSY", dr.in = <<>>, NEW e, e = [dr EXCEPT !.stat = "DRQ"]
    PROVE  DataOK(c, e, m)
<1>1. CASE c.op = "read"
  <2>1. ReadData(c, dr, m)
    BY <1>1 DEF DataOK
  <2>2. c.pc # "chunk"
    BY <2>1 DEF ReadData, DriveIdle
  <2>3. dr = AtSector(c, "read", c.sec, "BSY", <<>>)
    BY <2>1, <2>2, SMT DEF ReadData, AtSector, Holding
  <2>4. e = AtSector(c, "read", c.sec, "DRQ", <<>>) /\ e.stat = "DRQ"
    BY <2>3 DEF AtSector
  <2>5. ReadData(c, e, m)
    BY <2>1, <2>2, <2>4 DEF ReadData
  <2> QED
    BY <1>1, <2>5 DEF DataOK
<1>2. CASE c.op = "write"
  <2>1. WriteData(c, dr, m)
    BY <1>2 DEF DataOK
  <2>2. c.pc \in {"poll", "data"}
    BY <2>1 DEF WriteData, DriveIdle, Holding
  <2>3. ~(c.pc = "data" /\ c.sec > 0)
    <3> SUFFICES ASSUME c.pc = "data", c.sec > 0 PROVE FALSE
      OBVIOUS
    <3>1. Progress(c) \in 1..Len(c.buf)
      BY LocalNumbers, ProgressBound, SMT DEF Progress
    <3>2. c.buf \in Seq(Clean)
      BY <1>2, LocalNumbers
    <3>3. c.buf[Progress(c)] # <<>>
      <4>1. c.buf[Progress(c)] \in Clean
        BY <3>1, <3>2, ElementOfSeq
      <4> QED
        BY <4>1, NotEmpty
    <3>4. dr \in {AtSector(c, "write", c.sec - 1, "BSY", c.buf[Progress(c)]),
                  AtSector(c, "write", c.sec, "DRQ", <<>>)}
      BY <2>1 DEF WriteData
    <3> QED
      BY <3>3, <3>4 DEF AtSector
  <2>4. c.sec = 0
    BY <2>2, <2>3, LocalNumbers, SMT DEF CallOK
  <2>5. dr = AtSector(c, "write", 0, "BSY", <<>>)
    BY <2>1, <2>2, <2>4 DEF WriteData, AtSector
  <2>6. e = AtSector(c, "write", 0, "DRQ", <<>>) /\ e.stat = "DRQ" /\ e.in = <<>>
    BY <2>5 DEF AtSector
  <2>7. \A d, s : StoredIn(e, m, d, s) = StoredIn(dr, m, d, s)
    BY <2>6 DEF StoredIn
  <2>8. WriteData(c, e, m)
    BY <2>1, <2>2, <2>4, <2>6, <2>7 DEF WriteData
  <2> QED
    BY <1>2, <2>8 DEF DataOK
<1> QED
  BY <1>1, <1>2, LocalNumbers

\* A drive that stores the sector it was given.
LEMMA DataStores ==
    ASSUME NEW c \in Locals, CallOK(c), c.pc \in Holding, NEW dr, DriveOK(dr),
           NEW m \in [Dev -> [Sector -> Clean]], DataOK(c, dr, m),
           dr.stat = "BSY", dr.in # <<>>
    PROVE  DataOK(c, AfterStore(dr), [m EXCEPT ![dr.hd][dr.at] = dr.in])
<1> DEFINE e == AfterStore(dr)  n == [m EXCEPT ![dr.hd][dr.at] = dr.in]
<1>1. c.op = "write"
  <2> SUFFICES ASSUME c.op = "read" PROVE FALSE
    BY LocalNumbers
  <2> QED
    BY SMT DEF DataOK, ReadData, AtSector, DriveIdle, Holding
<1>2. WriteData(c, dr, m)
  BY <1>1 DEF DataOK
<1>3. dr.hd \in Dev /\ dr.at \in Sector /\ dr.in \in Clean
  BY DriveStepsOK
<1>4. e.in = <<>>
  <2>1. CASE dr.left = 1
    BY <2>1 DEF AfterStore, DriveIdle
  <2>2. CASE dr.left # 1
    <3>1. dr # DriveIdle
      BY DEF DriveIdle
    <3>2. dr = [stat |-> dr.stat, cmd |-> dr.cmd, hd |-> dr.hd, at |-> dr.at, left |-> dr.left,
                in |-> dr.in]
      BY <3>1 DEF DriveOK
    <3> QED
      BY <2>2, <3>2 DEF AfterStore
  <2> QED
    BY <2>1, <2>2
<1>5. ASSUME NEW s \in Sector
      PROVE  StoredIn(e, n, c.hd, s) = StoredIn(dr, m, c.hd, s)
  <2>1. c.hd \in Dev
    BY LocalNumbers
  <2>2. StoredIn(e, n, c.hd, s) = n[c.hd][s]
    BY <1>4 DEF StoredIn
  <2> HIDE DEF e
  <2>3. CASE dr.hd = c.hd /\ dr.at = s
    <3>1. n[c.hd][s] = dr.in
      BY <1>3, <2>1, <2>3
    <3> QED
      BY <2>2, <2>3, <3>1 DEF StoredIn
  <2>4. CASE ~(dr.hd = c.hd /\ dr.at = s)
    <3>1. n[c.hd][s] = m[c.hd][s]
      BY <1>3, <2>1, <2>4
    <3> QED
      BY <2>2, <2>4, <3>1 DEF StoredIn
  <2> QED
    BY <2>3, <2>4
<1> HIDE DEF n
<1>6. \A i \in 1..Progress(c) :
          i + Chunk > Progress(c) => StoredIn(e, n, c.hd, c.lba + Offset(i)) = c.buf[i]
  BY <1>2, <1>5, ProgressBound DEF WriteData
<1>7. CASE c.pc \in {"chunk", "down"}
  <2>1. dr.left = 1
    BY <1>2, <1>7 DEF WriteData, DriveIdle
  <2>2. e = DriveIdle
    BY <2>1 DEF AfterStore
  <2>3. WriteData(c, e, n)
    BY <1>6, <1>7, <2>2, Zenon DEF WriteData
  <2> QED
    BY <1>1, <2>3 DEF DataOK, n
<1>8. CASE c.pc \notin {"chunk", "down"}
  <2>1. c.pc \in {"poll", "data"} /\ ~(c.sec = 0)
    BY <1>2, <1>8 DEF WriteData, AtSector, Holding
  <2>2. c.pc = "data" /\ c.sec > 0
    BY <2>1, LocalNumbers, SMT DEF CallOK
  <2>3. dr = AtSector(c, "write", c.sec - 1, "BSY", c.buf[Progress(c)])
    BY <1>2, <2>2 DEF WriteData, AtSector
  <2>4. c.sec < c.cnt_each
    BY <2>2 DEF CallOK
  <2>5. /\ dr.left = c.cnt_each - (c.sec - 1) /\ dr.left # 1 /\ dr.left - 1 = c.cnt_each - c.sec
        /\ dr.at = c.lba + (c.sec - 1) /\ dr.at + 1 = c.lba + c.sec
    BY <2>3, <2>4, LocalNumbers, SMT DEF AtSector
  <2>6. e = [dr EXCEPT !.stat = "DRQ", !.at = dr.at + 1, !.left = dr.left - 1, !.in = <<>>]
    BY <2>5 DEF AfterStore
  <2>7. e = AtSector(c, "write", c.sec, "DRQ", <<>>)
    BY <2>3, <2>5, <2>6 DEF AtSector
  <2>8. WriteData(c, e, n)
    BY <1>6, <2>2, <2>7, SMT DEF WriteData
  <2> QED
    BY <1>1, <2>8 DEF DataOK, n
<1> QED
  BY <1>7, <1>8

\* A drive that answers gives the permit of its command.
LEMMA CalmReady ==
    ASSUME NEW c \in Locals, CallOK(c), NEW dr, NEW m, NEW p \in Nat, NEW line, NEW k,
           Calm(c, dr, p, line, k), k /\ c.pc \in Holding => DataOK(c, dr, m),
           dr.stat = "BSY", dr.in = <<>>, NEW e, e = [dr EXCEPT !.stat = "DRQ"],
           NEW p2 \in Nat, NEW line2,
           (dr.cmd = "write" /\ p2 = p /\ line2 = line) \/ (dr.cmd # "write" /\ p2 <= p + 1)
    PROVE  Calm(c, e, p2, line2, k)
<1>1. CASE c.pc \in IdSteps
  <2>1. c.pc = "id_poll" /\ c.hd \in Present /\ dr = IdDrive(c, "BSY") /\ p = 0
    BY <1>1 DEF Calm, IdCalm, Rests, DriveIdle, IdDrive, IdSteps
  <2>2. e = IdDrive(c, "DRQ") /\ dr.cmd # "write"
    BY <2>1 DEF IdDrive
  <2>3. p2 <= 1
    BY <2>1, <2>2
  <2> QED
    BY <2>1, <2>2, <2>3 DEF Calm, IdCalm, Holding
<1>2. CASE c.pc \in Holding
  <2>1. /\ k /\ DataOK(c, dr, m) /\ TransferCalm(c, dr, p, line)
        /\ c.pc # "chunk" => c.cnt_each = 1
    BY <1>2 DEF Calm
  <2>2. IdCalm(c, e, p2, line2)
    BY <1>2 DEF IdCalm, Holding
  <2>3. c.pc # "chunk"
    BY <2>1 DEF TransferCalm, Rests, DriveIdle
  <2>4. CASE c.op = "read"
    <3>1. c.pc = "down" /\ p = 0
      BY <1>2, <2>1, <2>3, <2>4 DEF TransferCalm, Holding
    <3>2. dr = AtSector(c, "read", c.sec, "BSY", <<>>)
      BY <2>1, <2>4, <3>1 DEF DataOK, ReadData, AtSector
    <3>3. e.stat = "DRQ" /\ dr.cmd # "write"
      BY <3>2 DEF AtSector
    <3>4. p2 <= 1
      BY <3>1, <3>3
    <3> QED
      BY <2>1, <2>2, <3>1, <3>3, <3>4 DEF Calm, TransferCalm
  <2>5. CASE c.op = "write"
    <3>1. WriteData(c, dr, m)
      BY <2>1, <2>5 DEF DataOK
    <3>2. c.pc # "down"
      BY <3>1 DEF WriteData, DriveIdle
    <3>3. c.pc \in {"poll", "data"} /\ c.sec = 0
      BY <1>2, <2>1, <2>3, <3>2, LocalNumbers, SMT DEF CallOK, Holding
    <3>4. dr = AtSector(c, "write", 0, "BSY", <<>>)
      BY <3>1, <3>3 DEF WriteData, AtSector
    <3>5. p2 = p /\ line2 = line
      BY <3>4 DEF AtSector
    <3> QED
      BY <2>1, <2>2, <2>5, <3>3, <3>5 DEF Calm, TransferCalm
  <2> QED
    BY <2>4, <2>5, LocalNumbers
<1>3. CASE c.pc \in {"idle", "lock"}
  BY <1>3 DEF Calm, IdCalm, Holding
<1> QED
  BY <1>1, <1>2, <1>3 DEF Locals

LEMMA CalmStores ==
    ASSUME NEW c \in Locals, CallOK(c), NEW dr, NEW m, NEW p \in Nat, NEW line, NEW k,
           Calm(c, dr, p, line, k), k /\ c.pc \in Holding => DataOK(c, dr, m),
           dr.stat = "BSY", dr.in # <<>>,
           NEW p2 \in Nat, NEW line2, p2 <= p + 1
    PROVE  Calm(c, AfterStore(dr), p2, line2, k)
<1> DEFINE e == AfterStore(dr)
<1>1. c.pc \notin IdSteps
  BY DEF Calm, IdCalm, Rests, DriveIdle, IdDrive, IdSteps
<1>2. CASE c.pc \in Holding
  <2>1. /\ k /\ DataOK(c, dr, m) /\ TransferCalm(c, dr, p, line)
        /\ c.pc # "chunk" => c.cnt_each = 1
    BY <1>2 DEF Calm
  <2>2. IdCalm(c, e, p2, line2)
    BY <1>2 DEF IdCalm, Holding
  <2>3. c.pc # "chunk"
    BY <2>1 DEF TransferCalm, Rests, DriveIdle
  <2>4. c.op = "write"
    <3> SUFFICES ASSUME c.op = "read" PROVE FALSE
      BY LocalNumbers
    <3> QED
      BY <1>2, <2>1, <2>3, SMT DEF DataOK, ReadData, AtSector, Holding
  <2>5. WriteData(c, dr, m)
    BY <2>1, <2>4 DEF DataOK
  <2>6. c.pc = "down"
    <3> SUFFICES ASSUME c.pc \in {"poll", "data"} PROVE FALSE
      BY <1>2, <2>3 DEF Holding
    <3>1. c.sec = 0
      BY <2>1, LocalNumbers, SMT DEF CallOK
    <3> QED
      BY <2>5, <3>1 DEF WriteData, AtSector
  <2>7. dr.left = 1
    BY <2>5, <2>6 DEF WriteData, DriveIdle
  <2>8. e = DriveIdle
    BY <2>7 DEF AfterStore
  <2>9. p2 <= 1
    BY <2>1, <2>6, SMT DEF TransferCalm
  <2> HIDE DEF e
  <2>10. e.stat # "BSY"
    BY <2>8 DEF DriveIdle
  <2> QED
    BY <2>1, <2>2, <2>6, <2>9, <2>10 DEF Calm, TransferCalm, e
<1>3. CASE c.pc \in {"idle", "lock"}
  BY <1>3 DEF Calm, IdCalm, Holding
<1> QED
  BY <1>1, <1>2, <1>3 DEF Locals

\* No thread at work and no command of several sectors: a busy drive is at none.
LEMMA BusyForSomeone ==
    ASSUME IdeInv, drive.stat = "BSY", calm
    PROVE  ~(\A t \in Thread : ~Active(call[t]))
  BY DEF IdeInv, InPhase, Rests, DriveIdle

LEMMA DriveReadyOK == IdeInv /\ DriveReady => IdeInv'
<1> SUFFICES ASSUME IdeInv, DriveReady PROVE IdeInv'
  OBVIOUS
<1>1. Kinds /\ OneAtWork /\ Typed
  BY DEF IdeInv, Kinds
<1>2. /\ drive.stat = "BSY" /\ drive.in = <<>> /\ drive' = [drive EXCEPT !.stat = "DRQ"]
      /\ UNCHANGED <<owner, valid, call, media, calls, kept, calm>>
  BY DEF DriveReady, history
<1>3. /\ SemaOK' /\ intr' \in BOOLEAN /\ Permits \in Nat /\ Permits' \in Nat
      /\ \/ drive.cmd = "write" /\ Permits' = Permits /\ intr' = intr
         \/ drive.cmd # "write" /\ Permits' <= Permits + 1
  <2>1. Permits \in Nat /\ SemaOK /\ intr \in BOOLEAN
    BY <1>1 DEF Typed, SemaOK, Permits
  <2>2. CASE drive.cmd = "write"
    <3>1. UNCHANGED <<semavars, intr>>
      BY <2>2 DEF DriveReady
    <3> QED
      BY <2>1, <2>2, <3>1, Zenon DEF semavars, SemaOK, Permits
  <2>3. CASE drive.cmd # "write"
    <3>1. Raise
      BY <2>3 DEF DriveReady
    <3>2. SemaOK' /\ intr' = TRUE /\ (Permits' = Permits \/ Permits' = Permits + 1)
      BY <2>1, <3>1, RaiseGives
    <3>3. Permits' \in Nat /\ Permits' <= Permits + 1
      BY <2>1, <3>2, SMT
    <3>4. intr' \in BOOLEAN
      BY <3>2, Zenon
    <3> QED
      BY <2>1, <2>3, <3>2, <3>3, <3>4, Zenon
  <2> QED
    BY <2>2, <2>3
<1>4. DriveOK(drive')
  BY <1>1, <1>2, DriveStepsOK DEF Typed
<1>5. Typed'
  BY <1>1, <1>2, <1>3, <1>4, Zenon DEF Typed
<1>6. ASSUME NEW t \in Thread, Active(call[t])
      PROVE  Phase(call[t], drive', media', Permits', intr', kept', calm')
  <2> DEFINE c == call[t]
  <2>1. c \in Locals /\ CallOK(c) /\ Phase(c, drive, media, Permits, intr, kept, calm)
    BY <1>6, AtWork, Zenon
  <2> HIDE DEF c
  <2>2. kept /\ c.pc \in Holding => DataOK(c, drive', media)
    BY <1>2, <2>1, DataReady DEF Phase
  <2>3. calm => Calm(c, drive', Permits', intr', kept)
    <3> SUFFICES ASSUME calm PROVE Calm(c, drive', Permits', intr', kept)
      OBVIOUS
    <3>1. Calm(c, drive, Permits, intr, kept) /\ (kept /\ c.pc \in Holding => DataOK(c, drive, media))
      BY <2>1 DEF Phase
    <3> QED
      BY <1>2, <1>3, <2>1, <3>1, CalmReady
  <2> QED
    BY <1>2, <2>2, <2>3, Zenon DEF Phase, c
<1>7. ~(calm' /\ (\A t \in Thread : ~Active(call[t])))
  BY <1>2, BusyForSomeone
<1> QED
  BY <1>1, <1>2, <1>5, <1>6, <1>7, DeviceKeeps

LEMMA DriveStoresOK == IdeInv /\ DriveStores => IdeInv'
<1> SUFFICES ASSUME IdeInv, DriveStores PROVE IdeInv'
  OBVIOUS
<1>1. Kinds /\ OneAtWork /\ Typed /\ DriveOK(drive) /\ media \in [Dev -> [Sector -> Clean]]
  BY DEF IdeInv, Kinds, Typed
<1>2. /\ drive.stat = "BSY" /\ drive.in # <<>>
      /\ drive' = AfterStore(drive)
      /\ media' = [media EXCEPT ![drive.hd][drive.at] = drive.in]
      /\ UNCHANGED <<owner, valid, call, calls, kept, calm>> /\ Raise
  BY DEF DriveStores, history, AfterStore
<1>3. SemaOK' /\ intr' \in BOOLEAN /\ Permits \in Nat /\ Permits' \in Nat /\ Permits' <= Permits + 1
  <2>1. Permits \in Nat /\ SemaOK /\ intr \in BOOLEAN
    BY <1>1 DEF Typed, SemaOK, Permits
  <2>2. SemaOK' /\ intr' = TRUE /\ (Permits' = Permits \/ Permits' = Permits + 1)
    BY <1>2, <2>1, RaiseGives
  <2> QED
    BY <2>1, <2>2
<1>4. DriveOK(drive') /\ drive.hd \in Dev /\ drive.at \in Sector /\ drive.in \in Clean
  BY <1>1, <1>2, DriveStepsOK
<1>8. media' \in [Dev -> [Sector -> Clean]]
  BY <1>1, <1>2, <1>4
<1>5. Typed'
  BY <1>1, <1>2, <1>3, <1>4, <1>8, Zenon DEF Typed
<1>6. ASSUME NEW t \in Thread, Active(call[t])
      PROVE  Phase(call[t], drive', media', Permits', intr', kept', calm')
  <2> DEFINE c == call[t]
  <2>1. c \in Locals /\ CallOK(c) /\ Phase(c, drive, media, Permits, intr, kept, calm)
    BY <1>6, AtWork, Zenon
  <2> HIDE DEF c
  <2>2. kept /\ c.pc \in Holding => DataOK(c, drive', media')
    BY <1>1, <1>2, <2>1, DataStores DEF Phase
  <2>3. calm => Calm(c, drive', Permits', intr', kept)
    <3> SUFFICES ASSUME calm PROVE Calm(c, drive', Permits', intr', kept)
      OBVIOUS
    <3>1. Calm(c, drive, Permits, intr, kept) /\ (kept /\ c.pc \in Holding => DataOK(c, drive, media))
      BY <2>1 DEF Phase
    <3> QED
      BY <1>2, <1>3, <2>1, <3>1, CalmStores
  <2> QED
    BY <1>2, <2>2, <2>3, Zenon DEF Phase, c
<1>7. ~(calm' /\ (\A t \in Thread : ~Active(call[t])))
  BY <1>2, BusyForSomeone
<1> QED
  BY <1>1, <1>2, <1>5, <1>6, <1>7, DeviceKeeps

\* The waits of sema_down, and a handler whose permit was on its way, leave the
\* number of permits as it was.
LEMMA QueueOK ==
    ASSUME IdeInv, UNCHANGED <<owner, valid, call, drive, intr, media, kept, calm>>,
           SemaOK', Permits' = Permits
    PROVE  IdeInv'
<1>1. Kinds /\ OneAtWork /\ Typed /\ InPhase
  BY DEF IdeInv, Kinds
<1>2. Typed'
  BY <1>1, Zenon DEF Typed
<1>3. /\ \A t \in Thread : Active(call[t]) =>
            Phase(call[t], drive', media', Permits', intr', kept', calm')
      /\ calm' /\ (\A t \in Thread : ~Active(call[t])) => Rests(drive', Permits')
  BY <1>1, Zenon DEF InPhase
<1> QED
  BY <1>1, <1>2, <1>3, DeviceKeeps, Zenon

LEMMA LateUpOK ==
    ASSUME IdeInv, LateUp
    PROVE  IdeInv'
<1>1. SemaOK
  BY DEF IdeInv, Kinds, Typed
<1>2. /\ late > 0 /\ sema_up /\ late' = late - 1
      /\ UNCHANGED <<owner, valid, call, drive, intr, media, kept, calm>>
  BY DEF LateUp, history
<1>3. /\ sema' = sema + 1 /\ wait_list' \in Seq(Thread)
      /\ down' \in [Thread -> {"call", "section", "parked", "asleep", "stuck"}]
  BY <1>1, <1>2, SemaUp
<1>4. SemaOK' /\ Permits' = Permits
  BY <1>1, <1>2, <1>3, SMT DEF SemaOK, Permits
<1> QED
  BY <1>2, <1>4, QueueOK, Zenon

LEMMA WaitingOK ==
    ASSUME IdeInv, NEW t \in Thread, Waiting(t)
    PROVE  IdeInv'
<1>1. SemaOK
  BY DEF IdeInv, Kinds, Typed
<1>2. /\ UNCHANGED <<owner, sema, late, valid, call, drive, intr, media, kept, calm>>
      /\ wait_list' = wait_list \/ wait_list' = Append(wait_list, t)
      /\ \E s \in {"section", "parked", "asleep"} : down' = [down EXCEPT ![t] = s]
  BY DEF Waiting, SemaEnter, SemaPark, SemaBlock, history
<1>3. wait_list' \in Seq(Thread)
  <2>1. wait_list \in Seq(Thread)
    BY <1>1 DEF SemaOK
  <2>2. Append(wait_list, t) \in Seq(Thread)
    BY <2>1, AppendProperties
  <2> QED
    BY <1>2, <2>1, <2>2, Zenon
<1>4. down' \in [Thread -> {"call", "section", "parked", "asleep", "stuck"}]
  BY <1>1, <1>2 DEF SemaOK
<1>5. SemaOK' /\ Permits' = Permits
  BY <1>1, <1>2, <1>3, <1>4 DEF SemaOK, Permits
<1> QED
  BY <1>2, <1>5, QueueOK, Zenon

\* The end of sema_down takes a permit.
LEMMA TakeOne ==
    ASSUME SemaOK, NEW t \in Thread, SemaTake(t)
    PROVE  SemaOK' /\ Permits' = Permits - 1 /\ Permits \in Nat /\ Permits > 0
<1>1. /\ sema > 0 /\ sema' = sema - 1 /\ UNCHANGED <<wait_list, late>>
      /\ down' = [down EXCEPT ![t] = "call"]
  BY DEF SemaTake
<1>2. down' \in [Thread -> {"call", "section", "parked", "asleep", "stuck"}]
  BY <1>1 DEF SemaOK
<1> QED
  BY <1>1, <1>2, SMT DEF SemaOK, Permits

\* The drive after the data port was read, or written.
LEMMA AfterReadOK == DriveOK(drive) => DriveOK(AfterRead)
<1> SUFFICES ASSUME DriveOK(drive), drive.stat = "DRQ", drive.cmd # "write", drive.left # 1
             PROVE  DriveOK(AfterRead)
  BY DEF AfterRead, DriveOK
<1>1. drive # DriveIdle
  BY DEF DriveIdle
<1>2. /\ drive = [stat |-> drive.stat, cmd |-> drive.cmd, hd |-> drive.hd, at |-> drive.at,
                  left |-> drive.left, in |-> drive.in]
      /\ drive.hd \in Dev /\ drive.at \in Nat /\ drive.left \in Nat \ {0}
      /\ drive.at + drive.left <= Sectors /\ Sectors \in Nat /\ drive.in = <<>>
  BY <1>1, IdeAssumption DEF DriveOK
<1> DEFINE e == [stat |-> "BSY", cmd |-> drive.cmd, hd |-> drive.hd, at |-> drive.at + 1,
                 left |-> drive.left - 1, in |-> drive.in]
<1>3. AfterRead = e
  BY <1>2 DEF AfterRead
<1>4. DriveOK(e)
  BY <1>2, SMT DEF DriveOK
<1> QED
  BY <1>3, <1>4

LEMMA AfterWriteOK ==
    ASSUME DriveOK(drive), NEW x \in Clean
    PROVE  DriveOK(AfterWrite(x))
<1> SUFFICES ASSUME drive.stat = "DRQ", drive.cmd = "write"
             PROVE  DriveOK(AfterWrite(x))
  BY DEF AfterWrite
<1>1. drive # DriveIdle
  BY DEF DriveIdle
<1>2. /\ drive = [stat |-> drive.stat, cmd |-> drive.cmd, hd |-> drive.hd, at |-> drive.at,
                  left |-> drive.left, in |-> drive.in]
      /\ drive.hd \in Dev /\ drive.at \in Nat /\ drive.left \in Nat \ {0}
      /\ drive.at + drive.left <= Sectors
  BY <1>1 DEF DriveOK
<1> DEFINE e == [stat |-> "BSY", cmd |-> drive.cmd, hd |-> drive.hd, at |-> drive.at,
                 left |-> drive.left, in |-> x]
<1>3. AfterWrite(x) = e
  BY <1>2 DEF AfterWrite
<1>4. DriveOK(e)
  BY <1>2, SMT DEF DriveOK
<1> QED
  BY <1>3, <1>4

-----------------------------------------------------------------------------
(* Identification.                                                         *)

\* Another place in the same function, with the same locals.
LEMMA GotoLocals ==
    ASSUME NEW c \in Locals, NEW pc \in {"idle", "lock"} \cup Holding \cup IdSteps
    PROVE  LET d == [c EXCEPT !.pc = pc]
           IN  /\ d \in Locals
               /\ d.pc = pc /\ d.op = c.op /\ d.hd = c.hd /\ d.lba = c.lba /\ d.cnt = c.cnt
               /\ d.cnt_done = c.cnt_done /\ d.cnt_each = c.cnt_each /\ d.sec = c.sec
               /\ d.buf = c.buf
  BY SMT DEF Locals

\* The other locals, one at a time.
LEMMA SetLocals ==
    ASSUME NEW c \in Locals
    PROVE  /\ \A x \in {"idle", "lock"} \cup Holding \cup IdSteps : [c EXCEPT !.pc = x] \in Locals
           /\ \A x \in {"read", "write"} : [c EXCEPT !.op = x] \in Locals
           /\ \A x \in Dev : [c EXCEPT !.hd = x] \in Locals
           /\ \A x \in Sector : [c EXCEPT !.lba = x] \in Locals
           /\ \A x \in 0..MaxCnt : [c EXCEPT !.cnt = x] \in Locals
           /\ \A x \in 0..MaxCnt : [c EXCEPT !.cnt_done = x] \in Locals
           /\ \A x \in Nat : [c EXCEPT !.cnt_each = x] \in Locals
           /\ \A x \in Nat : [c EXCEPT !.sec = x] \in Locals
           /\ \A x \in Seq(Contents) : [c EXCEPT !.buf = x] \in Locals
  BY SMT DEF Locals

\* The next drive, or the end, of the thread that identifies.
LEMMA NextDeviceKeeps ==
    ASSUME Kinds, OneAtWork, NEW t \in Thread, call[t].pc \in IdSteps,
           call' = [call EXCEPT ![t] = AfterIdentify(call[t].hd)],
           UNCHANGED owner, Typed', calm' => Rests(drive', Permits')
    PROVE  IdeInv'
<1> DEFINE c == call[t]  d == AfterIdentify(c.hd)
<1>1. c.hd \in Dev
  BY SMT DEF Kinds, Locals
<1>2. Active(c) /\ c.pc \notin Holding
  BY SMT DEF Active, IdSteps, Holding
<1>3. CASE c.hd = 0
  <2>1. d \in Locals /\ CallOK(d) /\ d.pc = "identify" /\ d.op = "read"
    BY <1>1, <1>3, NextDrive, Zenon
  <2> HIDE DEF d
  <2>2. Phase(d, drive', media', Permits', intr', kept', calm')
    BY <2>1, SMT DEF Phase, Calm, IdCalm, Holding
  <2>3. Active(d) /\ d.pc \notin Holding
    BY <2>1, SMT DEF Active, Holding
  <2>4. call' = [call EXCEPT ![t] = d]
    BY DEF d
  <2> QED
    BY <1>2, <2>1, <2>2, <2>3, <2>4, WorkKeeps, Zenon
<1>4. CASE c.hd # 0
  <2>1. d = NotCalling
    BY <1>4 DEF AfterIdentify
  <2> QED
    BY <1>2, <2>1, LeaveKeeps, Zenon
<1> QED
  BY <1>3, <1>4, Zenon

\* ide_get_identify.
LEMMA IdentifyOK ==
    ASSUME IdeInv, NEW t \in Thread, Identification(t)
    PROVE  IdeInv'
<1> DEFINE c == call[t]
<1>1. c.pc \in IdSteps
  BY SMT DEF Identification, Identify, IdentifyPoll, IdentifyDown, IdentifyData, Goto, IdSteps
<1>2. Active(c) /\ c.pc \notin Holding
  BY <1>1, SMT DEF Active, IdSteps, Holding
<1>3. /\ Kinds /\ OneAtWork /\ Typed /\ c \in Locals /\ CallOK(c)
      /\ calm => IdCalm(c, drive, Permits, intr)
  BY <1>2, AtWork, Zenon DEF Phase, Calm
<1>4. /\ SemaOK /\ Permits \in Nat /\ DriveOK(drive) /\ c.hd \in Dev /\ calm \in BOOLEAN
      /\ 0 \in Nat /\ 1 \in Nat
  BY <1>3, LocalNumbers DEF Typed, SemaOK, Permits
<1>5. ASSUME NEW pc \in {"id_poll", "id_down", "id_data"}, call' = [call EXCEPT ![t].pc = pc],
             pc # "id_poll" => c.hd \in Present,
             UNCHANGED owner, Typed', UNCHANGED calm,
             calm => \A d : d.pc = pc /\ d.op = c.op /\ d.hd = c.hd =>
                               IdCalm(d, drive', Permits', intr')
      PROVE  IdeInv'
  <2> DEFINE d == [c EXCEPT !.pc = pc]
  <2>1. pc \in {"idle", "lock"} \cup Holding \cup IdSteps /\ pc \in IdSteps
    BY DEF IdSteps
  <2>2. /\ d \in Locals /\ d.pc = pc /\ d.op = c.op /\ d.hd = c.hd /\ d.lba = c.lba
        /\ d.cnt_done = c.cnt_done /\ d.cnt = c.cnt /\ d.buf = c.buf
    BY <1>3, <2>1, GotoLocals
  <2>3. call' = [call EXCEPT ![t] = d]
    BY <1>5, Zenon
  <2> HIDE DEF d
  <2>4. CallOK(d)
    BY <1>3, <1>5, <2>2, SMT DEF CallOK, IdSteps, Holding
  <2>5. Active(d) /\ d.pc \notin Holding
    BY <2>2, SMT DEF Active, IdSteps, Holding
  <2>6. Phase(d, drive', media', Permits', intr', kept', calm')
    BY <1>5, <2>2, <2>5, Zenon DEF Phase, Calm
  <2> QED
    BY <1>1, <1>2, <1>3, <1>5, <2>2, <2>3, <2>4, <2>5, <2>6, WorkKeeps, Zenon
<1>6. CASE Identify(t)
  <2>1. /\ c.pc = "identify" /\ call' = [call EXCEPT ![t].pc = "id_poll"]
        /\ UNCHANGED <<owner, semavars, valid, media, kept, calm>>
        /\ Command("identify", c.hd, 0, 1)
    BY <1>6 DEF Identify, Goto, history
  <2>2. SemaOK' /\ Permits' = Permits
    BY <1>4, <2>1, Zenon DEF SemaOK, Permits, semavars
  <2>3. CASE c.hd \in Present /\ drive.stat = "ready"
    <3>1. drive' = IdDrive(c, "BSY") /\ intr' = FALSE
      BY <2>1, <2>3 DEF Command, IdDrive
    <3>2. DriveOK(drive')
      <4>1. 0 + 1 <= Sectors
        BY IdeAssumption
      <4> QED
        BY <1>4, <3>1, <4>1 DEF DriveOK, IdDrive
    <3>3. Typed'
      BY <1>3, <2>1, <2>2, <3>1, <3>2, Zenon DEF Typed
    <3>4. calm => \A d : d.pc = "id_poll" /\ d.op = c.op /\ d.hd = c.hd =>
                            IdCalm(d, drive', Permits', intr')
      BY <1>3, <2>1, <2>2, <2>3, <3>1, SMT DEF IdCalm, IdDrive, Rests
    <3> QED
      BY <1>5, <2>1, <3>3, <3>4, Zenon
  <2>4. CASE ~(c.hd \in Present /\ drive.stat = "ready")
    <3>1. UNCHANGED <<drive, intr>>
      BY <2>1, <2>4, Zenon DEF Command
    <3>2. Typed'
      BY <1>3, <2>1, <2>2, <3>1, Zenon DEF Typed
    <3>3. calm => \A d : d.pc = "id_poll" /\ d.op = c.op /\ d.hd = c.hd =>
                            IdCalm(d, drive', Permits', intr')
      BY <1>3, <2>1, <2>2, <2>4, <3>1, SMT DEF IdCalm, Rests, DriveIdle
    <3> QED
      BY <1>5, <2>1, <3>2, <3>3, Zenon
  <2> QED
    BY <2>3, <2>4, Zenon
<1>7. CASE IdentifyPoll(t)
  <2>1. /\ c.pc = "id_poll" /\ intr' = FALSE
        /\ UNCHANGED <<owner, semavars, valid, drive, media, kept, calm>>
    BY <1>7 DEF IdentifyPoll, history
  <2>2. SemaOK' /\ Permits' = Permits
    BY <1>4, <2>1, Zenon DEF SemaOK, Permits, semavars
  <2>3. Typed'
    BY <1>3, <2>1, <2>2, Zenon DEF Typed
  <2>4. CASE c.hd \notin Present
    <3>1. call' = [call EXCEPT ![t] = AfterIdentify(c.hd)]
      BY <1>7, <2>4, Zenon DEF IdentifyPoll
    <3>2. calm' => Rests(drive', Permits')
      BY <1>3, <2>1, <2>2, <2>4, Zenon DEF IdCalm
    <3> QED
      BY <1>1, <1>3, <2>1, <2>3, <3>1, <3>2, NextDeviceKeeps, Zenon
  <2>5. CASE c.hd \in Present /\ drive.stat = "BSY"
    <3>1. call' = [call EXCEPT ![t].pc = "id_poll"]
      <4>1. call' = [call EXCEPT ![t] = c]
        BY <1>7, <2>5, Zenon DEF IdentifyPoll
      <4>2. c = [c EXCEPT !.pc = "id_poll"]
        BY <1>3, <2>1, SMT DEF Locals
      <4> QED
        BY <4>1, <4>2, Zenon
    <3>2. calm => \A d : d.pc = "id_poll" /\ d.op = c.op /\ d.hd = c.hd =>
                            IdCalm(d, drive', Permits', intr')
      BY <1>3, <2>1, <2>2, <2>5, SMT DEF IdCalm, IdDrive
    <3> QED
      BY <1>5, <2>1, <2>3, <3>1, <3>2, Zenon
  <2>6. CASE c.hd \in Present /\ drive.stat # "BSY"
    <3>1. call' = [call EXCEPT ![t].pc = "id_down"]
      BY <1>7, <2>6, Zenon DEF IdentifyPoll
    <3>2. calm => \A d : d.pc = "id_down" /\ d.op = c.op /\ d.hd = c.hd =>
                            IdCalm(d, drive', Permits', intr')
      BY <1>3, <2>1, <2>2, <2>6, SMT DEF IdCalm, IdDrive
    <3> QED
      BY <1>5, <2>1, <2>3, <2>6, <3>1, <3>2, Zenon
  <2> QED
    BY <2>4, <2>5, <2>6, Zenon
<1>8. CASE IdentifyDown(t)
  <2>1. /\ c.pc = "id_down" /\ call' = [call EXCEPT ![t].pc = "id_data"] /\ SemaTake(t)
        /\ UNCHANGED <<owner, valid, drive, intr, media, kept, calm>>
    BY <1>8 DEF IdentifyDown, Goto, history
  <2>2. SemaOK' /\ Permits' = Permits - 1 /\ Permits > 0
    BY <1>4, <2>1, TakeOne
  <2>3. Typed'
    BY <1>3, <2>1, <2>2, Zenon DEF Typed
  <2>4. c.hd \in Present
    BY <1>3, <2>1 DEF CallOK
  <2>5. calm => \A d : d.pc = "id_data" /\ d.op = c.op /\ d.hd = c.hd =>
                            IdCalm(d, drive', Permits', intr')
    <3> SUFFICES ASSUME calm PROVE \A d : d.pc = "id_data" /\ d.op = c.op /\ d.hd = c.hd =>
                                             IdCalm(d, drive', Permits', intr')
      OBVIOUS
    <3>1. drive = IdDrive(c, "DRQ") /\ Permits <= 1
      BY <1>3, <2>1 DEF IdCalm
    <3>2. Permits' = 0
      BY <1>4, <2>2, <3>1, SMT
    <3> QED
      BY <2>1, <3>1, <3>2, SMT DEF IdCalm, IdDrive
  <2> QED
    BY <1>5, <2>1, <2>3, <2>4, <2>5, Zenon
<1>9. CASE IdentifyData(t)
  <2>1. /\ c.pc = "id_data" /\ drive' = AfterRead
        /\ valid' = [valid EXCEPT ![c.hd] = TRUE]
        /\ call' = [call EXCEPT ![t] = AfterIdentify(c.hd)]
        /\ UNCHANGED <<owner, semavars, intr, media, kept, calm>>
    BY <1>9, Zenon DEF IdentifyData, history
  <2>2. SemaOK' /\ Permits' = Permits
    BY <1>4, <2>1, Zenon DEF SemaOK, Permits, semavars
  <2>3. valid' \in [Dev -> BOOLEAN] /\ \A e \in Dev : valid'[e] => e \in Present
    <3>1. c.hd \in Present
      BY <1>3, <2>1 DEF CallOK
    <3> QED
      BY <1>3, <1>4, <2>1, <3>1, Zenon DEF Typed
  <2>4. DriveOK(drive')
    BY <1>4, <2>1, AfterReadOK
  <2>5. Typed'
    BY <1>3, <2>1, <2>2, <2>3, <2>4, Zenon DEF Typed
  <2>6. calm' => Rests(drive', Permits')
    <3> SUFFICES ASSUME calm PROVE Rests(drive', Permits')
      BY <2>1
    <3>1. drive = IdDrive(c, "DRQ") /\ Permits = 0
      BY <1>3, <2>1 DEF IdCalm
    <3>2. AfterRead = DriveIdle
      BY <3>1 DEF AfterRead, IdDrive
    <3> QED
      BY <2>1, <2>2, <3>1, <3>2 DEF Rests
  <2> QED
    BY <1>1, <1>3, <2>1, <2>5, <2>6, NextDeviceKeeps, Zenon
<1> QED
  BY <1>6, <1>7, <1>8, <1>9, Zenon DEF Identification

-----------------------------------------------------------------------------
(* Transfers.                                                              *)

\* The buffer a caller brings.
LEMMA NewBuffer ==
    ASSUME NEW t \in Thread, NEW op, NEW cnt \in 1..MaxCnt
    PROVE  LET b == [i \in 1..cnt |-> IF op = "read" THEN Blank ELSE <<t, i>>]
           IN  /\ b \in Seq(Contents) /\ Len(b) = cnt
               /\ op = "write" => b \in Seq(Clean)
<1> DEFINE b == [i \in 1..cnt |-> IF op = "read" THEN Blank ELSE <<t, i>>]
<1>1. cnt \in Nat /\ \A i \in 1..cnt : i \in 1..MaxCnt
  BY IdeAssumption, SMT
<1>2. \A i \in 1..cnt : <<t, i>> \in Clean
  <2> TAKE i \in 1..cnt
  <2>1. <<t, i>> \in Contents
    BY <1>1 DEF Contents
  <2>2. <<t, i>> # Junk
    BY IdeAssumption DEF Junk
  <2> QED
    BY <2>1, <2>2 DEF Clean
<1>3. Blank \in Contents /\ \A x \in Clean : x \in Contents
  BY DEF Contents, Clean
<1>4. b \in [1..cnt -> Contents] /\ (op = "write" => b \in [1..cnt -> Clean])
  <2> HIDE DEF Contents, Clean
  <2> QED
    BY <1>2, <1>3, Zenon
<1> HIDE DEF b, Contents
<1>5. b \in Seq(Contents) /\ (op = "write" => b \in Seq(Clean))
  BY <1>1, <1>4, SeqDef
<1>6. Len(b) = cnt
  <2>1. DOMAIN b = 1..cnt /\ DOMAIN b = 1..Len(b) /\ Len(b) \in Nat
    BY <1>4, <1>5, LenProperties
  <2> QED
    BY <1>1, <2>1, SMT
<1> QED
  BY <1>5, <1>6 DEF b

\* A thread calls ide_read or ide_write.
LEMMA StartOK ==
    ASSUME IdeInv, NEW t \in Thread, NEW op \in {"read", "write"}, NEW dev \in Dev,
           NEW lba \in Sector, NEW cnt \in 1..MaxCnt, Start(t, op, dev, lba, cnt)
    PROVE  IdeInv'
<1> DEFINE d == Transfer(t, op, dev, lba, cnt)
           b == [i \in 1..cnt |-> IF op = "read" THEN Blank ELSE <<t, i>>]
<1>1. Kinds /\ OneAtWork /\ InPhase
  BY DEF IdeInv
<1>2. /\ Booted /\ call[t].pc = "idle" /\ call' = [call EXCEPT ![t] = d]
      /\ UNCHANGED <<owner, semavars, valid, drive, intr, media, kept, calm>>
  BY Zenon DEF Start, history
<1>3. dev \in Present
  BY <1>1, Zenon DEF Start, Kinds, Typed
<1>4. b \in Seq(Contents) /\ Len(b) = cnt /\ (op = "write" => b \in Seq(Clean))
  BY NewBuffer
<1>5. d = [NotCalling EXCEPT !.pc = "lock", !.op = op, !.hd = dev, !.lba = lba, !.cnt = cnt,
                             !.buf = b]
  BY Zenon DEF Transfer
<1> HIDE DEF b, d
<1>6. cnt \in 0..MaxCnt /\ 0 <= cnt /\ lba + cnt <= Sectors
  BY IdeAssumption, SMT DEF Start
<1>7. d \in Locals
  <2> DEFINE d1 == [NotCalling EXCEPT !.pc = "lock"]  d2 == [d1 EXCEPT !.op = op]
             d3 == [d2 EXCEPT !.hd = dev]  d4 == [d3 EXCEPT !.lba = lba]
             d5 == [d4 EXCEPT !.cnt = cnt]
  <2>1. d = [d5 EXCEPT !.buf = b]
    BY <1>5, Zenon
  <2>2. "lock" \in {"idle", "lock"} \cup Holding \cup IdSteps
    OBVIOUS
  <2>3. d1 \in Locals
    BY <2>2, NotCallingOK, SetLocals, Zenon
  <2> HIDE DEF d1
  <2>4. d2 \in Locals
    BY <2>3, SetLocals, Zenon
  <2> HIDE DEF d2
  <2>5. d3 \in Locals
    BY <2>4, SetLocals, Zenon
  <2> HIDE DEF d3
  <2>6. d4 \in Locals
    BY <2>5, SetLocals, Zenon
  <2> HIDE DEF d4
  <2>7. d5 \in Locals
    BY <1>6, <2>6, SetLocals, Zenon
  <2> HIDE DEF d5
  <2> QED
    BY <1>4, <2>1, <2>7, SetLocals, Zenon
<1>8. CallOK(d) /\ d.pc = "lock"
  <2>1. /\ d.pc = "lock" /\ d.op = op /\ d.hd = dev /\ d.lba = lba /\ d.cnt = cnt /\ d.cnt_done = 0
        /\ d.sec = 0 /\ d.buf = b
    BY <1>5, SMT DEF NotCalling
  <2> QED
    BY <1>3, <1>4, <1>6, <2>1, WholeZero, SMT DEF CallOK, Holding
<1>9. call'[t] = d /\ \A u \in Thread : u # t => call'[u] = call[u]
  BY <1>1, <1>2, Zenon DEF Kinds
<1>14. SemaOK' /\ Permits' = Permits
  BY <1>1, <1>2, Zenon DEF Kinds, Typed, SemaOK, Permits, semavars
<1>15. Typed'
  BY <1>1, <1>2, <1>14, Zenon DEF Kinds, Typed
<1>10. Kinds'
  BY <1>1, <1>2, <1>7, <1>8, <1>9, <1>15, SMT DEF Kinds
<1>11. OneAtWork'
  BY <1>1, <1>2, <1>8, <1>9, SMT DEF OneAtWork, Booted, Active, Holding, IdSteps
<1>12. \A u \in Thread : Active(call'[u]) <=> Active(call[u])
  BY <1>2, <1>8, <1>9, SMT DEF Active
<1>13. InPhase'
  BY <1>1, <1>2, <1>8, <1>9, <1>12, <1>14, Zenon DEF InPhase, Active
<1> QED
  BY <1>10, <1>11, <1>13 DEF IdeInv

\* The thread that gets the mutex finds out whether the drive is at rest.
LEMMA LockOK ==
    ASSUME IdeInv, NEW t \in Thread, Lock(t)
    PROVE  IdeInv'
<1> DEFINE c == call[t]  d == [c EXCEPT !.pc = "chunk"]
<1>1. Kinds /\ OneAtWork /\ InPhase /\ c \in Locals /\ CallOK(c)
  BY Zenon DEF IdeInv, Kinds
<1>2. /\ c.pc = "lock" /\ owner = NULL /\ owner' = t /\ call' = [call EXCEPT ![t] = d]
      /\ UNCHANGED <<semavars, valid, drive, intr, media>>
      /\ kept' = AtRest /\ calm' = (calm \/ AtRest)
  BY Zenon DEF Lock, Goto
<1>3. \A u \in Thread : ~Active(call[u])
  <2> TAKE u \in Thread
  <2>1. call[u].pc \notin Holding
    BY <1>1, <1>2, IdeAssumption, Zenon DEF OneAtWork
  <2>2. call[u].pc \notin IdSteps
    BY <1>1, <1>2, SMT DEF OneAtWork, IdSteps
  <2>3. call[u].pc \in {"idle", "lock"} \cup Holding \cup IdSteps
    BY <1>1 DEF Kinds, Locals
  <2> QED
    BY <2>1, <2>2, <2>3 DEF Active
<1>4. /\ SemaOK' /\ Permits' = Permits /\ Typed'
      /\ calm \in BOOLEAN /\ SemaOK /\ DriveOK(drive)
  <2>1. SemaOK' /\ Permits' = Permits
    BY <1>1, <1>2, Zenon DEF Kinds, Typed, SemaOK, Permits, semavars
  <2>2. kept' \in BOOLEAN /\ calm' \in BOOLEAN
    BY <1>2 DEF AtRest
  <2> QED
    BY <1>1, <1>2, <2>1, <2>2, Zenon DEF Kinds, Typed
<1>13. AtRest => Rests(drive, Permits)
  <2> SUFFICES ASSUME AtRest PROVE Rests(drive, Permits)
    OBVIOUS
  <2>1. drive = DriveIdle
    BY <1>4 DEF DriveOK, AtRest
  <2>2. Permits = 0
    BY DEF Permits, AtRest
  <2> QED
    BY <2>1, <2>2 DEF Rests
<1>14. Rests(drive, Permits) => AtRest
  BY <1>4, SMT DEF Rests, Permits, AtRest, DriveIdle, SemaOK
<1>15. calm' => AtRest
  BY <1>1, <1>2, <1>3, <1>14 DEF InPhase
<1>5. "chunk" \in {"idle", "lock"} \cup Holding \cup IdSteps
  BY DEF Holding
<1>6. /\ d \in Locals
      /\ d.pc = "chunk" /\ d.op = c.op /\ d.hd = c.hd /\ d.lba = c.lba /\ d.cnt = c.cnt
      /\ d.cnt_done = c.cnt_done /\ d.cnt_each = c.cnt_each /\ d.sec = c.sec
      /\ d.buf = c.buf
  BY <1>1, <1>5, GotoLocals
<1> HIDE DEF d
<1>7. CallOK(d) /\ d.cnt_done = 0
  BY <1>1, <1>2, <1>6, SMT DEF CallOK, Holding
<1>8. Phase(d, drive', media', Permits', intr', kept', calm')
  <2>1. kept' => drive = DriveIdle
    BY <1>2, <1>13 DEF Rests
  <2>2. Progress(d) = 0
    BY <1>6, <1>7 DEF Progress
  <2>3. kept' => DataOK(d, drive', media')
    BY <1>2, <1>6, <2>1, <2>2, SMT DEF DataOK, ReadData, WriteData
  <2>4. calm' => Calm(d, drive', Permits', intr', kept')
    BY <1>2, <1>4, <1>6, <1>13, <1>15, SMT DEF Calm, IdCalm, TransferCalm, Holding
  <2> QED
    BY <2>3, <2>4, Zenon DEF Phase
<1>9. call'[t] = d /\ \A u \in Thread : u # t => call'[u] = call[u] /\ ~Active(call'[u])
  BY <1>1, <1>2, <1>3, Zenon DEF Kinds
<1>10. Kinds'
  BY <1>1, <1>2, <1>4, <1>6, <1>7, <1>9, SMT DEF Kinds
<1>11. OneAtWork'
  BY <1>2, <1>6, <1>9, SMT DEF OneAtWork, Active, Holding, IdSteps
<1>12. InPhase'
  BY <1>6, <1>8, <1>9, SMT DEF InPhase, Active
<1> QED
  BY <1>10, <1>11, <1>12 DEF IdeInv

-----------------------------------------------------------------------------
(* Inside a call.                                                          *)

LEMMA InsideFacts ==
    ASSUME IdeInv, NEW t \in Thread, call[t].pc \in Holding
    PROVE  /\ Kinds /\ OneAtWork /\ Typed /\ SemaOK /\ Permits \in Nat /\ DriveOK(drive)
           /\ media \in [Dev -> [Sector -> Clean]]
           /\ call[t] \in Locals /\ CallOK(call[t]) /\ call[t].hd \in Present
           /\ intr \in BOOLEAN /\ kept \in BOOLEAN /\ calm \in BOOLEAN
           /\ kept => DataOK(call[t], drive, media)
           /\ calm => /\ kept /\ TransferCalm(call[t], drive, Permits, intr)
                      /\ call[t].pc # "chunk" => call[t].cnt_each = 1
<1>1. Active(call[t])
  BY SMT DEF Active, Holding
<1>2. /\ Kinds /\ OneAtWork /\ Typed /\ call[t] \in Locals /\ CallOK(call[t])
      /\ Phase(call[t], drive, media, Permits, intr, kept, calm)
  BY <1>1, AtWork, Zenon
<1>3. /\ SemaOK /\ DriveOK(drive) /\ media \in [Dev -> [Sector -> Clean]]
      /\ intr \in BOOLEAN /\ kept \in BOOLEAN /\ calm \in BOOLEAN
  BY <1>2, Zenon DEF Typed
<1>4. Permits \in Nat
  BY <1>3 DEF SemaOK, Permits
<1>5. call[t].hd \in Present
  BY <1>2, Zenon DEF CallOK
<1>6. /\ kept => DataOK(call[t], drive, media)
      /\ calm => /\ kept /\ TransferCalm(call[t], drive, Permits, intr)
                 /\ call[t].pc # "chunk" => call[t].cnt_each = 1
  BY <1>2, Zenon DEF Phase, Calm
<1> QED
  BY <1>2, <1>3, <1>4, <1>5, <1>6, Zenon

LEMMA InsideKeeps ==
    ASSUME Kinds, OneAtWork, NEW t \in Thread, call[t].pc \in Holding,
           NEW d, call' = [call EXCEPT ![t] = d],
           d \in Locals, CallOK(d), d.pc \in Holding, UNCHANGED owner, Typed',
           kept' => DataOK(d, drive', media'),
           calm' => /\ kept' /\ TransferCalm(d, drive', Permits', intr')
                    /\ d.pc # "chunk" => d.cnt_each = 1
    PROVE  IdeInv'
<1>1. /\ Active(call[t]) /\ Active(d) /\ d.pc \notin IdSteps
      /\ d.pc \notin {"identify", "id_poll", "id_down", "id_data"}
  BY SMT DEF Active, Holding, IdSteps
<1>2. calm' => IdCalm(d, drive', Permits', intr')
  BY <1>1, SMT DEF IdCalm
<1>3. Phase(d, drive', media', Permits', intr', kept', calm')
  BY <1>2, Zenon DEF Phase, Calm
<1> QED
  BY <1>1, <1>3, WorkKeeps, Zenon

\* A round begins: the command is for a chunk, or for the rest.
LEMMA ChunkStartOK ==
    ASSUME IdeInv, NEW t \in Thread, ChunkStart(t)
    PROVE  IdeInv'
<1> DEFINE c == call[t]  next == IF c.op = "read" THEN "down" ELSE "poll"
           each == IF c.cnt - c.cnt_done >= Chunk THEN Chunk ELSE c.cnt - c.cnt_done
           d == [c EXCEPT !.pc = next, !.cnt_each = each, !.sec = 0]
<1>1. c.pc = "chunk" /\ c.cnt_done < c.cnt /\ c.pc \in Holding
  BY SMT DEF ChunkStart, Holding
<1>2. /\ Kinds /\ OneAtWork /\ Typed /\ SemaOK /\ Permits \in Nat /\ DriveOK(drive)
      /\ c \in Locals /\ CallOK(c) /\ c.hd \in Present
      /\ calm \in BOOLEAN
      /\ kept => DataOK(c, drive, media)
      /\ calm => kept /\ TransferCalm(c, drive, Permits, intr)
  BY <1>1, InsideFacts, Zenon
<1>3. /\ c.lba \in Nat /\ c.cnt \in Nat /\ c.cnt_done \in Nat /\ c.hd \in Dev
      /\ c.op \in {"read", "write"} /\ c.lba + c.cnt <= Sectors
      /\ Sectors \in Nat /\ Chunk \in Nat \ {0}
  BY <1>2, LocalNumbers
<1>4. /\ each \in Nat /\ each \in 1..Chunk /\ c.cnt_done + each <= c.cnt
      /\ each = Chunk \/ c.cnt_done + each = c.cnt
  BY <1>1, <1>3, SMT
<1>5. /\ call' = [call EXCEPT ![t].pc = next, ![t].cnt_each = each, ![t].sec = 0]
      /\ Command(c.op, c.hd, c.lba, Decoded(SectorCount(each)))
      /\ kept' = (kept /\ drive.stat = "ready") /\ calm' = (calm /\ each = 1)
      /\ UNCHANGED <<owner, semavars, valid, media>>
  BY Zenon DEF ChunkStart
<1> HIDE DEF each
<1>6. Decoded(SectorCount(each)) = each
  BY <1>3, <1>4, SMT DEF Decoded, SectorCount
<1>7. call' = [call EXCEPT ![t] = d]
  <2> HIDE DEF next
  <2> QED
    BY <1>2, <1>5, Zenon
<1>8. /\ d \in Locals /\ d.pc = next /\ d.cnt_each = each /\ d.sec = 0
      /\ d.op = c.op /\ d.hd = c.hd /\ d.lba = c.lba /\ d.cnt = c.cnt
      /\ d.cnt_done = c.cnt_done /\ d.buf = c.buf
  <2>1. next \in Holding
    BY DEF Holding
  <2> HIDE DEF next
  <2> DEFINE d1 == [c EXCEPT !.pc = next]  d2 == [d1 EXCEPT !.cnt_each = each]
  <2>2. d = [d2 EXCEPT !.sec = 0]
    BY Zenon
  <2>3. 0 \in Nat /\ next \in {"idle", "lock"} \cup Holding \cup IdSteps
    BY <2>1
  <2>4. d1 \in Locals
    BY <1>2, <2>3, SetLocals, Zenon
  <2> HIDE DEF d1
  <2>5. d2 \in Locals
    BY <1>4, <2>4, SetLocals, Zenon
  <2> HIDE DEF d2
  <2>6. d \in Locals
    BY <2>2, <2>3, <2>5, SetLocals, Zenon
  <2>7. /\ d.pc = next /\ d.cnt_each = each /\ d.sec = 0
        /\ d.op = c.op /\ d.hd = c.hd /\ d.lba = c.lba /\ d.cnt = c.cnt
        /\ d.cnt_done = c.cnt_done /\ d.buf = c.buf
    BY <1>2, SMT DEF Locals
  <2> QED
    BY <2>6, <2>7, Zenon
<1> HIDE DEF d
<1>9. CallOK(d) /\ d.pc \in Holding
  <2>1. Whole(c.cnt_done)
    BY <1>1, <1>2, <1>3, SMT DEF CallOK
  <2>2. Round(d)
    BY <1>4, <1>8, <2>1, SMT DEF Round
  <2> QED
    BY <1>1, <1>2, <1>3, <1>8, <2>2, SMT DEF CallOK, Holding
<1>10. SemaOK' /\ Permits' = Permits
  BY <1>2, <1>5, Zenon DEF SemaOK, Permits, semavars
<1>11. CASE drive.stat = "ready"
  <2>1. drive = DriveIdle
    BY <1>2, <1>11 DEF DriveOK
  <2>2. drive' = AtSector(d, c.op, 0, "BSY", <<>>) /\ intr' = FALSE
    <3>1. each - 0 = each /\ c.lba + 0 = c.lba
      BY <1>3, <1>4, SMT
    <3> QED
      BY <1>2, <1>5, <1>6, <1>8, <1>11, <3>1 DEF Command, AtSector
  <2>3. /\ drive'.stat = "BSY" /\ drive'.cmd = c.op /\ drive'.hd = c.hd
        /\ drive'.at = c.lba + 0 /\ drive'.left = each - 0 /\ drive'.in = <<>>
    BY <1>8, <2>2 DEF AtSector
  <2>4. DriveOK(drive')
    <3> DEFINE e == AtSector(d, c.op, 0, "BSY", <<>>)
    <3>1. e = [stat |-> e.stat, cmd |-> e.cmd, hd |-> e.hd, at |-> e.at, left |-> e.left,
               in |-> e.in]
      BY DEF AtSector
    <3>2. /\ e.at \in Nat /\ e.left \in Nat \ {0} /\ e.at + e.left <= Sectors
          /\ e.stat = "BSY" /\ e.in = <<>> /\ e.hd \in Dev
      BY <1>3, <1>4, <1>8, SMT DEF AtSector
    <3> HIDE DEF e
    <3>3. DriveOK(e)
      BY <3>1, <3>2, SMT DEF DriveOK
    <3> QED
      BY <2>2, <3>3 DEF e
  <2>5. Typed'
    <3>1. kept' \in BOOLEAN /\ calm' \in BOOLEAN /\ intr' \in BOOLEAN
      BY <1>5, <2>2
    <3> QED
      BY <1>2, <1>5, <1>10, <2>4, <3>1, Zenon DEF Typed
  <2>6. Progress(d) = c.cnt_done /\ Progress(c) = c.cnt_done
    BY <1>1, <1>3, <1>8, SMT DEF Progress
  <2>7. kept' => DataOK(d, drive', media')
    <3> SUFFICES ASSUME kept' PROVE DataOK(d, drive', media')
      OBVIOUS
    <3>1. DataOK(c, drive, media) /\ media' = media
      BY <1>2, <1>5
    <3>2. CASE c.op = "read"
      <4>1. ReadData(c, drive, media)
        BY <3>1, <3>2 DEF DataOK
      <4>2. drive' = AtSector(d, "read", d.sec, "BSY", <<>>)
        BY <1>8, <2>2, <3>2
      <4>3. ReadData(d, drive', media)
        BY <1>8, <2>6, <3>2, <4>1, <4>2, SMT DEF ReadData
      <4> QED
        BY <1>8, <3>1, <3>2, <4>3 DEF DataOK
    <3>3. CASE c.op = "write"
      <4>1. WriteData(c, drive, media)
        BY <3>1, <3>3 DEF DataOK
      <4>2. drive' = AtSector(d, "write", 0, "BSY", <<>>)
        BY <2>2, <3>3
      <4>3. drive.in = <<>>
        BY <2>1 DEF DriveIdle
      <4>4. \A h, s : StoredIn(drive', media, h, s) = StoredIn(drive, media, h, s)
        BY <2>3, <4>3, Zenon DEF StoredIn
      <4>5. WriteData(d, drive', media)
        BY <1>8, <2>6, <3>3, <4>1, <4>2, <4>4, SMT DEF WriteData
      <4> QED
        BY <1>8, <3>1, <3>3, <4>5 DEF DataOK
    <3> QED
      BY <1>3, <3>2, <3>3
  <2>8. calm' => /\ kept' /\ TransferCalm(d, drive', Permits', intr')
                 /\ d.pc # "chunk" => d.cnt_each = 1
    <3> SUFFICES ASSUME calm' PROVE /\ kept' /\ TransferCalm(d, drive', Permits', intr')
                                    /\ d.pc # "chunk" => d.cnt_each = 1
      OBVIOUS
    <3>1. calm /\ each = 1 /\ kept /\ Permits = 0
      BY <1>1, <1>2, <1>5 DEF TransferCalm, Rests
    <3>2. Permits' = 0
      BY <1>10, <3>1, Zenon
    <3>3. TransferCalm(d, drive', Permits', intr')
      BY <1>8, <2>2, <3>2, SMT DEF TransferCalm
    <3> QED
      BY <1>5, <1>8, <1>11, <3>1, <3>3, Zenon
  <2> QED
    BY <1>1, <1>2, <1>5, <1>7, <1>8, <1>9, <2>5, <2>7, <2>8, InsideKeeps, Zenon
<1>12. CASE drive.stat # "ready"
  <2>1. UNCHANGED <<drive, intr>>
    BY <1>5, <1>12, Zenon DEF Command
  <2>2. kept' = FALSE
    BY <1>5, <1>12
  <2>3. calm' = FALSE
    BY <1>1, <1>2, <1>5, <1>12 DEF TransferCalm, Rests, DriveIdle
  <2>4. Typed'
    BY <1>2, <1>5, <1>10, <2>1, <2>2, <2>3, Zenon DEF Typed
  <2> QED
    BY <1>1, <1>2, <1>5, <1>7, <1>8, <1>9, <2>2, <2>3, <2>4, InsideKeeps, Zenon
<1> QED
  BY <1>11, <1>12

\* The end of the wait takes the permit of the interrupt.
LEMMA DownOK ==
    ASSUME IdeInv, NEW t \in Thread, Down(t)
    PROVE  IdeInv'
<1> DEFINE c == call[t]
<1>1. c.pc = "down" /\ c.pc \in Holding
  BY SMT DEF Down, Holding
<1>2. /\ Kinds /\ OneAtWork /\ Typed /\ SemaOK /\ Permits \in Nat /\ DriveOK(drive)
      /\ c \in Locals /\ CallOK(c) /\ c.hd \in Present
      /\ kept \in BOOLEAN /\ calm \in BOOLEAN
      /\ kept => DataOK(c, drive, media)
      /\ calm => kept /\ TransferCalm(c, drive, Permits, intr)
      /\ calm => c.cnt_each = 1
  BY <1>1, InsideFacts, Zenon
<1>3. /\ SemaTake(t) /\ call' = [call EXCEPT ![t] = AfterDown(c)]
      /\ UNCHANGED <<owner, valid, drive, intr, media, kept, calm>>
  BY Zenon DEF Down, history
<1>4. SemaOK' /\ Permits' = Permits - 1 /\ Permits > 0
  BY <1>2, <1>3, TakeOne
<1>5. Typed'
  BY <1>2, <1>3, <1>4, Zenon DEF Typed
<1>6. /\ c.lba \in Nat /\ c.cnt \in Nat /\ c.cnt_done \in Nat /\ c.cnt_each \in Nat
      /\ c.sec \in Nat /\ c.hd \in Dev /\ c.op \in {"read", "write"} /\ c.cnt <= MaxCnt
      /\ MaxCnt \in Nat /\ Chunk \in Nat
  BY <1>2, LocalNumbers
<1>7. "poll" \in {"idle", "lock"} \cup Holding \cup IdSteps
      /\ "chunk" \in {"idle", "lock"} \cup Holding \cup IdSteps
      /\ "poll" \in Holding /\ "chunk" \in Holding
  BY DEF Holding
<1>8. calm => kept /\ Permits' = 0 /\ DataOK(c, drive, media) /\ drive.stat # "BSY"
  <2> SUFFICES ASSUME calm PROVE kept /\ Permits' = 0 /\ DataOK(c, drive, media) /\ drive.stat # "BSY"
    OBVIOUS
  <2>1. Permits <= 1 /\ (drive.stat = "BSY" => Permits = 0)
    BY <1>1, <1>2 DEF TransferCalm
  <2>2. Permits' = 0 /\ drive.stat # "BSY"
    BY <1>2, <1>4, <2>1, SMT
  <2> QED
    BY <1>2, <2>2
<1>9. CASE c.op = "read"
  <2> DEFINE d == [c EXCEPT !.pc = "poll"]
  <2>1. /\ d \in Locals
        /\ d.pc = "poll" /\ d.op = c.op /\ d.hd = c.hd /\ d.lba = c.lba /\ d.cnt = c.cnt
        /\ d.cnt_done = c.cnt_done /\ d.cnt_each = c.cnt_each /\ d.sec = c.sec
        /\ d.buf = c.buf
    BY <1>2, <1>7, GotoLocals
  <2>2. call' = [call EXCEPT ![t] = d]
    BY <1>3, <1>9, Zenon DEF AfterDown
  <2> HIDE DEF d
  <2>3. CallOK(d)
    <3>1. Round(d)
      BY <1>1, <1>2, <2>1, Zenon DEF CallOK, Round
    <3> QED
      BY <1>1, <1>2, <1>9, <2>1, <3>1, SMT DEF CallOK, Holding
  <2>4. Progress(d) = Progress(c)
    BY <1>1, <2>1, Zenon DEF Progress
  <2>5. kept' => DataOK(d, drive', media')
    <3> SUFFICES ASSUME kept PROVE DataOK(d, drive, media)
      BY <1>3
    <3>1. ReadData(c, drive, media)
      BY <1>2, <1>9 DEF DataOK
    <3>2. ReadData(d, drive, media)
      BY <1>1, <2>1, <2>4, <3>1, SMT DEF ReadData, AtSector
    <3> QED
      BY <1>9, <2>1, <3>2 DEF DataOK
  <2>6. calm' => /\ kept' /\ TransferCalm(d, drive', Permits', intr')
                 /\ d.pc # "chunk" => d.cnt_each = 1
    <3> SUFFICES ASSUME calm PROVE /\ kept /\ TransferCalm(d, drive, Permits', intr)
                                   /\ d.cnt_each = 1
      BY <1>3
    <3>1. drive.stat = "DRQ"
      <4>1. ReadData(c, drive, media)
        BY <1>8, <1>9 DEF DataOK
      <4> QED
        BY <1>1, <1>8, <4>1 DEF ReadData, AtSector
    <3> QED
      BY <1>2, <1>8, <1>9, <2>1, <3>1, SMT DEF TransferCalm
  <2> QED
    BY <1>1, <1>2, <1>3, <1>5, <1>7, <2>1, <2>2, <2>3, <2>5, <2>6, InsideKeeps, Zenon
<1>10. CASE c.op = "write"
  <2> DEFINE n == c.cnt_done + c.cnt_each
             e == [c EXCEPT !.pc = "chunk"]  d == [e EXCEPT !.cnt_done = n]
  <2>1. Round(c) /\ c.sec = c.cnt_each
    BY <1>1, <1>2, <1>10 DEF CallOK
  <2>2. n \in 0..MaxCnt /\ n \in Nat /\ n <= c.cnt /\ n = c.cnt_done + c.sec
    BY <1>6, <2>1, SMT DEF Round
  <2>3. Whole(n) \/ n = c.cnt
    <3>1. CASE c.cnt_each = Chunk
      BY <1>6, <2>1, <3>1, ChunkSum, IdeAssumption DEF Round
    <3>2. CASE c.cnt_each # Chunk
      BY <2>1, <3>2 DEF Round
    <3> QED
      BY <3>1, <3>2
  <2>4. call' = [call EXCEPT ![t] = d]
    BY <1>3, <1>10, Zenon DEF AfterDown
  <2> HIDE DEF n
  <2>5. /\ d.pc = "chunk" /\ d.op = c.op /\ d.hd = c.hd /\ d.lba = c.lba /\ d.cnt = c.cnt
        /\ d.cnt_done = n /\ d.buf = c.buf
    BY <1>2, SMT DEF Locals
  <2>6. d \in Locals
    <3>1. e \in Locals
      BY <1>2, <1>7, SetLocals, Zenon
    <3> HIDE DEF e
    <3> QED
      BY <2>2, <3>1, SetLocals, Zenon
  <2> HIDE DEF d
  <2>7. CallOK(d)
    BY <1>1, <1>2, <1>10, <2>2, <2>3, <2>5, SMT DEF CallOK, Holding
  <2>8. Progress(d) = Progress(c)
    BY <1>1, <2>2, <2>5, Zenon DEF Progress
  <2>9. kept' => DataOK(d, drive', media')
    <3> SUFFICES ASSUME kept PROVE DataOK(d, drive, media)
      BY <1>3
    <3>1. WriteData(c, drive, media)
      BY <1>2, <1>10 DEF DataOK
    <3>2. WriteData(d, drive, media)
      BY <1>1, <2>5, <2>8, <3>1, SMT DEF WriteData
    <3> QED
      BY <1>10, <2>5, <3>2 DEF DataOK
  <2>10. calm' => /\ kept' /\ TransferCalm(d, drive', Permits', intr')
                  /\ d.pc # "chunk" => d.cnt_each = 1
    <3> SUFFICES ASSUME calm PROVE kept /\ TransferCalm(d, drive, Permits', intr)
      BY <1>3, <2>5
    <3>1. drive = DriveIdle
      <4>1. WriteData(c, drive, media)
        BY <1>8, <1>10 DEF DataOK
      <4> QED
        BY <1>1, <1>8, <4>1 DEF WriteData
    <3> QED
      BY <1>8, <2>5, <3>1, SMT DEF TransferCalm, Rests
  <2> QED
    BY <1>1, <1>2, <1>3, <1>5, <1>7, <2>4, <2>5, <2>6, <2>7, <2>9, <2>10, InsideKeeps, Zenon
<1> QED
  BY <1>6, <1>9, <1>10

\* The look at the status lowers the interrupt line.
LEMMA PollOK ==
    ASSUME IdeInv, NEW t \in Thread, Poll(t)
    PROVE  IdeInv'
<1> DEFINE c == call[t]  next == IF drive.stat = "DRQ" THEN "data" ELSE "poll"
           d == [c EXCEPT !.pc = next]
<1>1. c.pc = "poll" /\ c.pc \in Holding
  BY SMT DEF Poll, Holding
<1>2. /\ Kinds /\ OneAtWork /\ Typed /\ SemaOK /\ c \in Locals /\ CallOK(c)
      /\ kept => DataOK(c, drive, media)
      /\ calm => kept /\ TransferCalm(c, drive, Permits, intr)
      /\ calm => c.cnt_each = 1
  BY <1>1, InsideFacts, Zenon
<1>3. /\ call' = [call EXCEPT ![t] = d] /\ intr' = FALSE
      /\ UNCHANGED <<owner, semavars, valid, drive, media, kept, calm>>
  BY Zenon DEF Poll, history
<1>4. next \in {"idle", "lock"} \cup Holding \cup IdSteps /\ next \in Holding
  BY DEF Holding
<1>5. /\ d \in Locals
      /\ d.pc = next /\ d.op = c.op /\ d.hd = c.hd /\ d.lba = c.lba /\ d.cnt = c.cnt
      /\ d.cnt_done = c.cnt_done /\ d.cnt_each = c.cnt_each /\ d.sec = c.sec
      /\ d.buf = c.buf
  <2> HIDE DEF next
  <2> QED
    BY <1>2, <1>4, GotoLocals
<1> HIDE DEF d
<1>6. CallOK(d)
  <2>1. Round(c) /\ c.sec = 0
    BY <1>1, <1>2 DEF CallOK
  <2>2. Round(d)
    BY <1>5, <2>1, Zenon DEF Round
  <2>3. d.sec = 0 /\ d.sec < d.cnt_each
    BY <1>5, <2>1, IdeAssumption, SMT DEF Round
  <2> QED
    BY <1>1, <1>2, <1>5, <2>2, <2>3, SMT DEF CallOK, Holding
<1>7. SemaOK' /\ Permits' = Permits
  BY <1>2, <1>3, Zenon DEF SemaOK, Permits, semavars
<1>8. Typed'
  BY <1>2, <1>3, <1>7, Zenon DEF Typed
<1>9. Progress(d) = Progress(c)
  BY <1>1, <1>5, Zenon DEF Progress
<1>10. kept' => DataOK(d, drive', media')
  <2> SUFFICES ASSUME kept PROVE DataOK(d, drive, media)
    BY <1>3
  <2>1. CASE d.op = "read"
    <3>1. ReadData(c, drive, media)
      BY <1>2, <1>5, <2>1 DEF DataOK
    <3>2. ReadData(d, drive, media)
      BY <1>1, <1>5, <1>9, <3>1, SMT DEF ReadData, AtSector
    <3> QED
      BY <2>1, <3>2 DEF DataOK
  <2>2. CASE d.op # "read"
    <3>1. d.op = "write" => WriteData(c, drive, media)
      BY <1>2, <1>5 DEF DataOK
    <3>2. c.sec = 0 /\ d.sec = 0
      BY <1>1, <1>2, <1>5 DEF CallOK
    <3>3. d.op = "write" => WriteData(d, drive, media)
      BY <1>1, <1>5, <1>9, <3>1, <3>2, SMT DEF WriteData, AtSector
    <3> QED
      BY <2>2, <3>3 DEF DataOK
  <2> QED
    BY <2>1, <2>2
<1>11. calm' => /\ kept' /\ TransferCalm(d, drive', Permits', intr')
                /\ d.pc # "chunk" => d.cnt_each = 1
  <2> SUFFICES ASSUME calm PROVE /\ kept /\ TransferCalm(d, drive, Permits, FALSE)
                                 /\ d.cnt_each = 1
    BY <1>3, <1>7
  <2> QED
    BY <1>1, <1>2, <1>5, SMT DEF TransferCalm
<1> QED
  BY <1>1, <1>2, <1>3, <1>4, <1>5, <1>6, <1>8, <1>10, <1>11, InsideKeeps, Zenon

\* mutex_unlock.
LEMMA UnlockOK ==
    ASSUME IdeInv, NEW t \in Thread, Unlock(t)
    PROVE  IdeInv'
<1> DEFINE c == call[t]
<1>1. c.pc = "chunk" /\ c.pc \in Holding /\ Active(c)
  BY SMT DEF Unlock, Holding, Active
<1>2. /\ Kinds /\ OneAtWork /\ Typed /\ SemaOK
      /\ calm => kept /\ TransferCalm(c, drive, Permits, intr)
  BY <1>1, InsideFacts, Zenon
<1>3. /\ call' = [call EXCEPT ![t] = NotCalling] /\ owner' = NULL
      /\ UNCHANGED <<semavars, valid, drive, intr, media, kept, calm>>
  BY DEF Unlock, history
<1>4. SemaOK' /\ Permits' = Permits
  BY <1>2, <1>3, Zenon DEF SemaOK, Permits, semavars
<1>5. Typed'
  BY <1>2, <1>3, <1>4, Zenon DEF Typed
<1>6. calm' => Rests(drive', Permits')
  BY <1>1, <1>2, <1>3, <1>4, Zenon DEF TransferCalm
<1> QED
  BY <1>1, <1>2, <1>3, <1>5, <1>6, LeaveKeeps, Zenon

\* Where a call is after it has moved one more sector.
LEMMA Moved ==
    ASSUME NEW c \in Locals, CallOK(c), c.pc = "data", NEW d,
           d.pc = IF c.sec + 1 = c.cnt_each THEN (IF c.op = "read" THEN "chunk" ELSE "down") ELSE "data",
           d.op = c.op, d.hd = c.hd, d.lba = c.lba, d.cnt = c.cnt, d.cnt_each = c.cnt_each,
           d.sec = c.sec + 1, Len(d.buf) = c.cnt, c.op = "write" => d.buf \in Seq(Clean),
           d.cnt_done = IF d.pc = "chunk" THEN c.cnt_done + c.cnt_each ELSE c.cnt_done
    PROVE  /\ CallOK(d) /\ d.pc \in Holding
           /\ Progress(c) = c.cnt_done + c.sec /\ Progress(d) = c.cnt_done + c.sec + 1
           /\ d.cnt_done \in 0..MaxCnt
           /\ c.cnt_done + c.sec + 1 \in 1..c.cnt
           /\ Offset(c.cnt_done + c.sec + 1) = c.sec
<1>1. /\ c.cnt \in Nat /\ c.cnt_done \in Nat /\ c.cnt_each \in Nat /\ c.sec \in Nat
      /\ c.op \in {"read", "write"} /\ c.cnt <= MaxCnt /\ MaxCnt \in Nat /\ Chunk \in Nat \ {0}
  BY LocalNumbers
<1>2. Round(c) /\ c.sec < c.cnt_each /\ c.lba + c.cnt <= Sectors /\ c.hd \in Present
  BY SMT DEF CallOK, Holding
<1>3. /\ Whole(c.cnt_done) /\ c.cnt_done + c.cnt_each <= c.cnt /\ c.sec < Chunk
      /\ c.cnt_each = Chunk \/ c.cnt_done + c.cnt_each = c.cnt
  BY <1>1, <1>2, SMT DEF Round
<1>4. Offset(c.cnt_done + c.sec + 1) = c.sec /\ Whole(c.cnt_done + Chunk)
  BY <1>1, <1>3, OffsetOf, ChunkSum
<1>5. c.cnt_done + c.sec + 1 \in 1..c.cnt /\ Progress(c) = c.cnt_done + c.sec
  BY <1>1, <1>2, <1>3, SMT DEF Progress
<1>6. d.pc \in Holding
  BY DEF Holding
<1>7. CASE d.pc = "chunk"
  <2>1. c.sec + 1 = c.cnt_each /\ c.op = "read" /\ d.cnt_done = c.cnt_done + c.cnt_each
    BY <1>1, <1>7
  <2>2. Whole(d.cnt_done) \/ d.cnt_done = c.cnt
    BY <1>3, <1>4, <2>1
  <2>3. d.cnt_done \in 0..MaxCnt /\ d.cnt_done <= c.cnt
    BY <1>1, <1>3, <2>1, SMT
  <2>4. Progress(d) = c.cnt_done + c.sec + 1
    BY <1>1, <1>7, <2>1, SMT DEF Progress
  <2>5. CallOK(d)
    BY <1>2, <1>7, <2>1, <2>2, <2>3, SMT DEF CallOK, Holding
  <2> QED
    BY <1>4, <1>5, <1>6, <2>3, <2>4, <2>5, Zenon
<1>8. CASE d.pc # "chunk"
  <2>1. d.cnt_done = c.cnt_done /\ d.cnt_done \in 0..MaxCnt /\ d.cnt_done <= c.cnt
    BY <1>1, <1>3, <1>8, SMT
  <2>2. Round(d)
    BY <1>2, <2>1, Zenon DEF Round
  <2>3. Progress(d) = c.cnt_done + c.sec + 1
    BY <1>1, <1>8, <2>1, SMT DEF Progress
  <2>4. d.pc = "data" => d.sec < d.cnt_each
    BY <1>1, <1>2, SMT
  <2>5. d.pc = "down" => c.op = "write" /\ d.sec = d.cnt_each
    BY <1>1, SMT
  <2>6. d.pc \in {"data", "down"}
    BY <1>8
  <2>7. CallOK(d)
    BY <1>1, <1>2, <1>3, <2>1, <2>2, <2>4, <2>5, <2>6, SMT DEF CallOK, Holding
  <2> QED
    BY <1>4, <1>5, <1>6, <2>1, <2>3, <2>7, Zenon
<1> QED
  BY <1>7, <1>8

\* A sector of a read.
LEMMA MoveReadOK ==
    ASSUME IdeInv, NEW t \in Thread, MoveSector(t), call[t].op = "read"
    PROVE  IdeInv'
<1> DEFINE c == call[t]  i == c.cnt_done + c.sec + 1  last == c.sec + 1 = c.cnt_each
           x == PortOut  b == [c.buf EXCEPT ![i] = x]
           pc == IF last THEN "chunk" ELSE "data"
           n == IF last THEN c.cnt_done + c.cnt_each ELSE c.cnt_done
           k == c.sec + 1
           e == [c EXCEPT !.buf = b]  f == [e EXCEPT !.pc = pc]
           g == [f EXCEPT !.cnt_done = n]  d == [g EXCEPT !.sec = k]
<1>1. c.pc = "data" /\ c.pc \in Holding
  BY SMT DEF MoveSector, Holding
<1>2. /\ Kinds /\ OneAtWork /\ Typed /\ SemaOK /\ Permits \in Nat /\ DriveOK(drive)
      /\ media \in [Dev -> [Sector -> Clean]]
      /\ c \in Locals /\ CallOK(c)
      /\ kept => DataOK(c, drive, media)
      /\ calm => kept /\ TransferCalm(c, drive, Permits, intr)
      /\ calm => c.cnt_each = 1
      /\ kept \in BOOLEAN
  BY <1>1, InsideFacts, Zenon
<1>3. /\ drive' = AfterRead /\ kept' = (kept /\ drive.stat = "DRQ")
      /\ call' = [call EXCEPT ![t].buf[i] = x, ![t].pc = pc, ![t].cnt_done = n, ![t].sec = k]
      /\ UNCHANGED <<owner, semavars, valid, intr, media, calm>>
  BY Zenon DEF MoveSector
<1>4. /\ c.cnt \in Nat /\ c.cnt_done \in Nat /\ c.cnt_each \in Nat /\ c.sec \in Nat
      /\ c.lba \in Nat /\ c.hd \in Dev /\ c.buf \in Seq(Contents) /\ Len(c.buf) = c.cnt
      /\ c.sec < c.cnt_each /\ Chunk \in Nat
  BY <1>1, <1>2, LocalNumbers DEF CallOK
<1>5. x \in Contents
  <2>1. CASE drive.stat = "DRQ" /\ drive.cmd # "write"
    <3>1. drive # DriveIdle
      BY <2>1 DEF DriveIdle
    <3>2. drive.hd \in Dev /\ drive.at \in Sector
      BY <1>2, <3>1, IdeAssumption, SMT DEF DriveOK, Sector
    <3>3. x = media[drive.hd][drive.at]
      BY <2>1 DEF PortOut
    <3>4. x \in Clean
      BY <1>2, <3>2, <3>3
    <3> QED
      BY <3>4 DEF Clean
  <2>2. CASE ~(drive.stat = "DRQ" /\ drive.cmd # "write")
    BY <2>2 DEF PortOut, Contents
  <2> QED
    BY <2>1, <2>2
<1>6. n \in Nat /\ k \in Nat /\ i \in Nat
  <2>1. \A u, v \in Nat : u + v \in Nat /\ u + 1 \in Nat /\ u + v + 1 \in Nat
    OBVIOUS
  <2> HIDE DEF c
  <2> QED
    BY <1>4, <2>1, Zenon
<1>7. pc \in {"idle", "lock"} \cup Holding \cup IdSteps
  BY DEF Holding
<1>8. call' = [call EXCEPT ![t] = d]
  <2> HIDE DEF x, pc, n, k, i
  <2> QED
    BY <1>3, Zenon
<1>9. c.cnt_done + c.sec + 1 \in 1..c.cnt
  <2>1. c.cnt_done + c.cnt_each <= c.cnt
    BY <1>1, <1>2 DEF CallOK, Round
  <2>2. \A a, r, z, m \in Nat : r < z /\ a + z <= m => a + r + 1 \in 1..m
    BY SMT
  <2> HIDE DEF c
  <2> QED
    BY <1>4, <2>1, <2>2, Zenon
<1>10. /\ b \in Seq(Contents) /\ Len(b) = c.cnt /\ b[i] = x
       /\ \A j \in 1..c.cnt : j # i => b[j] = c.buf[j]
  <2> HIDE DEF Contents, x, i
  <2>1. i \in 1..Len(c.buf)
    BY <1>4, <1>9 DEF i
  <2> QED
    BY <1>4, <1>5, <2>1, ExceptSeq
<1> HIDE DEF b, x
<1>11. /\ d.pc = pc /\ d.op = c.op /\ d.hd = c.hd /\ d.lba = c.lba /\ d.cnt = c.cnt
       /\ d.cnt_done = n /\ d.cnt_each = c.cnt_each /\ d.sec = k /\ d.buf = b
  <2> HIDE DEF pc, n, k
  <2> QED
    BY <1>2, SMT DEF Locals
<1>12. d \in Locals /\ CallOK(d) /\ d.pc \in Holding
       /\ Progress(c) = c.cnt_done + c.sec /\ Progress(d) = i /\ Offset(i) = c.sec
  <2> HIDE DEF d
  <2>1. d.pc = IF c.sec + 1 = c.cnt_each THEN (IF c.op = "read" THEN "chunk" ELSE "down") ELSE "data"
    BY <1>11
  <2>2. d.cnt_done = IF d.pc = "chunk" THEN c.cnt_done + c.cnt_each ELSE c.cnt_done
    BY <1>11, <2>1
  <2>3. /\ CallOK(d) /\ d.pc \in Holding
        /\ Progress(c) = c.cnt_done + c.sec /\ Progress(d) = i
        /\ d.cnt_done \in 0..MaxCnt /\ Offset(i) = c.sec
    BY <1>1, <1>2, <1>10, <1>11, <2>1, <2>2, Moved
  <2>4. n \in 0..MaxCnt
    BY <1>11, <2>3
  <2> HIDE DEF pc, n, k
  <2>5. e \in Locals
    BY <1>2, <1>10, SetLocals, Zenon
  <2> HIDE DEF e
  <2>6. f \in Locals
    BY <1>7, <2>5, SetLocals, Zenon
  <2> HIDE DEF f
  <2>7. g \in Locals
    BY <2>4, <2>6, SetLocals, Zenon
  <2> HIDE DEF g
  <2>8. d \in Locals
    BY <1>6, <2>7, SetLocals, Zenon DEF d
  <2> QED
    BY <2>3, <2>8, Zenon
<1> HIDE DEF d
<1>13. SemaOK' /\ Permits' = Permits
  BY <1>2, <1>3, Zenon DEF SemaOK, Permits, semavars
<1>14. Typed'
  <2>1. DriveOK(drive') /\ kept' \in BOOLEAN
    BY <1>2, <1>3, AfterReadOK
  <2> QED
    BY <1>2, <1>3, <1>13, <2>1, Zenon DEF Typed
<1>15. ASSUME kept, drive.stat = "DRQ"
       PROVE  /\ x = media[c.hd][c.lba + c.sec]
              /\ last => drive' = DriveIdle
              /\ ~last => drive' = AtSector(d, "read", d.sec, "BSY", <<>>)
              /\ ReadData(c, drive, media)
  <2>1. ReadData(c, drive, media)
    BY <1>2, <1>15 DEF DataOK
  <2>2. drive = AtSector(c, "read", c.sec, "DRQ", <<>>)
    BY <1>1, <1>15, <2>1 DEF ReadData, AtSector
  <2>3. /\ drive.stat = "DRQ" /\ drive.cmd = "read" /\ drive.hd = c.hd /\ drive.at = c.lba + c.sec
        /\ drive.left = c.cnt_each - c.sec
    BY <2>2 DEF AtSector
  <2>4. x = media[c.hd][c.lba + c.sec]
    BY <2>3 DEF PortOut, x
  <2>5. last <=> drive.left = 1
    BY <1>4, <2>3, SMT
  <2>6. last => drive' = DriveIdle
    BY <1>3, <2>3, <2>5 DEF AfterRead
  <2>7. ASSUME ~last PROVE drive' = AtSector(d, "read", d.sec, "BSY", <<>>)
    <3>1. drive' = [drive EXCEPT !.stat = "BSY", !.at = drive.at + 1, !.left = drive.left - 1]
      BY <1>3, <2>3, <2>5, <2>7 DEF AfterRead
    <3>2. drive.at + 1 = c.lba + k /\ drive.left - 1 = c.cnt_each - k
      BY <1>4, <2>3, SMT
    <3>3. drive' = [drive EXCEPT !.stat = "BSY", !.at = c.lba + k, !.left = c.cnt_each - k]
      BY <3>1, <3>2, Zenon
    <3> HIDE DEF k
    <3> QED
      BY <1>11, <2>2, <3>3 DEF AtSector
  <2> QED
    BY <2>1, <2>4, <2>6, <2>7
<1>16. kept' => DataOK(d, drive', media')
  <2> SUFFICES ASSUME kept' PROVE ReadData(d, drive', media)
    BY <1>3, <1>11 DEF DataOK
  <2>1. kept /\ drive.stat = "DRQ"
    BY <1>3
  <2>2. \A j \in 1..i : b[j] = media[c.hd][c.lba + Offset(j)]
    <3> TAKE j \in 1..i
    <3>1. CASE j = i
      BY <1>10, <1>12, <1>15, <2>1, <3>1
    <3>2. CASE j # i
      <4>1. j \in 1..c.cnt /\ j \in 1..Progress(c)
        BY <1>4, <1>9, <1>12, <3>2, SMT
      <4>2. b[j] = c.buf[j]
        BY <1>10, <3>2, <4>1
      <4>3. c.buf[j] = media[c.hd][c.lba + Offset(j)]
        BY <1>15, <2>1, <4>1 DEF ReadData
      <4> QED
        BY <4>2, <4>3
    <3> QED
      BY <3>1, <3>2
  <2>3. \A j \in 1..Progress(d) : d.buf[j] = media[d.hd][d.lba + Offset(j)]
    BY <1>11, <1>12, <2>2, Zenon
  <2>4. d.pc = "chunk" => drive' = DriveIdle
    BY <1>11, <1>15, <2>1
  <2>5. d.pc \in {"down", "poll", "data"} =>
           /\ drive' = AtSector(d, "read", d.sec, "BSY", <<>>) /\ d.sec # 0
    <3>1. d.sec # 0
      BY <1>4, <1>11, SMT
    <3> QED
      BY <1>11, <1>15, <2>1, <3>1
  <2> QED
    BY <2>3, <2>4, <2>5, Zenon DEF ReadData
<1>17. calm' => /\ kept' /\ TransferCalm(d, drive', Permits', intr')
                /\ d.pc # "chunk" => d.cnt_each = 1
  <2> SUFFICES ASSUME calm PROVE /\ kept' /\ TransferCalm(d, drive', Permits', intr')
                                 /\ d.pc = "chunk"
    BY <1>3
  <2>1. kept /\ drive.stat = "DRQ" /\ Permits = 0 /\ c.cnt_each = 1
    BY <1>1, <1>2 DEF TransferCalm
  <2>2. last
    BY <1>4, <2>1, SMT
  <2>3. d.pc = "chunk" /\ drive' = DriveIdle
    BY <1>11, <1>15, <2>1, <2>2
  <2>4. TransferCalm(d, drive', Permits', intr')
    BY <1>13, <2>1, <2>3, SMT DEF TransferCalm, Rests
  <2> QED
    BY <1>3, <2>1, <2>3, <2>4
<1> QED
  BY <1>1, <1>2, <1>3, <1>8, <1>12, <1>14, <1>16, <1>17, InsideKeeps, Zenon

\* A sector of a write.
LEMMA MoveWriteOK ==
    ASSUME IdeInv, NEW t \in Thread, MoveSector(t), call[t].op = "write"
    PROVE  IdeInv'
<1> DEFINE c == call[t]  i == c.cnt_done + c.sec + 1  last == c.sec + 1 = c.cnt_each
           x == c.buf[i]  pc == IF last THEN "down" ELSE "data"  k == c.sec + 1
           e == [c EXCEPT !.pc = pc]  d == [e EXCEPT !.sec = k]
<1>1. c.pc = "data" /\ c.pc \in Holding
  BY SMT DEF MoveSector, Holding
<1>2. /\ Kinds /\ OneAtWork /\ Typed /\ SemaOK /\ Permits \in Nat /\ DriveOK(drive)
      /\ media \in [Dev -> [Sector -> Clean]]
      /\ c \in Locals /\ CallOK(c)
      /\ kept => DataOK(c, drive, media)
      /\ calm => kept /\ TransferCalm(c, drive, Permits, intr)
      /\ calm => c.cnt_each = 1
      /\ kept \in BOOLEAN
  BY <1>1, InsideFacts, Zenon
<1>3. /\ drive' = AfterWrite(x) /\ kept' = (kept /\ drive.stat = "DRQ")
      /\ call' = [call EXCEPT ![t].pc = pc, ![t].sec = k]
      /\ UNCHANGED <<owner, semavars, valid, intr, media, calm>>
  <2>1. c.op # "read"
    OBVIOUS
  <2> QED
    BY <2>1, Zenon DEF MoveSector
<1>4. /\ c.cnt \in Nat /\ c.cnt_done \in Nat /\ c.cnt_each \in Nat /\ c.sec \in Nat
      /\ c.lba \in Nat /\ c.hd \in Dev /\ c.buf \in Seq(Clean) /\ Len(c.buf) = c.cnt
      /\ c.sec < c.cnt_each /\ Chunk \in Nat
  BY <1>1, <1>2, LocalNumbers DEF CallOK
<1>5. k \in Nat /\ i \in Nat
  BY <1>4, SMT
<1>6. pc \in {"idle", "lock"} \cup Holding \cup IdSteps
  BY DEF Holding
<1>7. call' = [call EXCEPT ![t] = d]
  <2> HIDE DEF x, pc, k, i
  <2> QED
    BY <1>3, Zenon
<1>8. /\ d.pc = pc /\ d.op = c.op /\ d.hd = c.hd /\ d.lba = c.lba /\ d.cnt = c.cnt
      /\ d.cnt_done = c.cnt_done /\ d.cnt_each = c.cnt_each /\ d.sec = k /\ d.buf = c.buf
  <2> HIDE DEF pc, k
  <2> QED
    BY <1>2, SMT DEF Locals
<1>9. d \in Locals
  <2> HIDE DEF pc, k
  <2>1. e \in Locals
    BY <1>2, <1>6, SetLocals, Zenon
  <2> HIDE DEF e
  <2> QED
    BY <1>5, <2>1, SetLocals, Zenon
<1> HIDE DEF d
<1>10. /\ CallOK(d) /\ d.pc \in Holding
       /\ Progress(c) = c.cnt_done + c.sec /\ Progress(d) = i /\ Offset(i) = c.sec
       /\ i \in 1..c.cnt
  <2>1. d.pc = IF c.sec + 1 = c.cnt_each THEN (IF c.op = "read" THEN "chunk" ELSE "down") ELSE "data"
    BY <1>8
  <2>2. d.cnt_done = IF d.pc = "chunk" THEN c.cnt_done + c.cnt_each ELSE c.cnt_done
    BY <1>8, <2>1
  <2> QED
    BY <1>1, <1>2, <1>4, <1>8, <2>1, <2>2, Moved
<1>11. x \in Clean /\ x # <<>>
  <2>1. x \in Clean
    <3> HIDE DEF i
    <3> QED
      BY <1>4, <1>10, ElementOfSeq
  <2> QED
    BY <2>1, NotEmpty
<1> HIDE DEF x
<1>13. SemaOK' /\ Permits' = Permits
  BY <1>2, <1>3, Zenon DEF SemaOK, Permits, semavars
<1>14. Typed'
  <2>1. DriveOK(drive') /\ kept' \in BOOLEAN
    BY <1>2, <1>3, <1>11, AfterWriteOK
  <2> QED
    BY <1>2, <1>3, <1>13, <2>1, Zenon DEF Typed
<1>15. ASSUME kept, drive.stat = "DRQ"
       PROVE  /\ drive' = AtSector(c, "write", c.sec, "BSY", x)
              /\ drive.in = <<>> /\ WriteData(c, drive, media)
  <2>1. WriteData(c, drive, media)
    BY <1>2, <1>15 DEF DataOK
  <2>2. drive = AtSector(c, "write", c.sec, "DRQ", <<>>)
    <3>1. CASE c.sec = 0
      BY <1>1, <1>15, <2>1, <3>1 DEF WriteData, AtSector
    <3>2. CASE c.sec # 0
      <4>1. c.sec > 0
        BY <1>4, <3>2, SMT
      <4> QED
        BY <1>1, <1>15, <2>1, <4>1 DEF WriteData, AtSector
    <3> QED
      BY <3>1, <3>2
  <2>3. drive.stat = "DRQ" /\ drive.cmd = "write" /\ drive.in = <<>>
    BY <2>2 DEF AtSector
  <2>4. drive' = [drive EXCEPT !.stat = "BSY", !.in = x]
    BY <1>3, <2>3, Zenon DEF AfterWrite
  <2>5. drive' = AtSector(c, "write", c.sec, "BSY", x)
    BY <2>2, <2>4 DEF AtSector
  <2> QED
    BY <2>1, <2>3, <2>5
<1>16. kept' => DataOK(d, drive', media')
  <2> SUFFICES ASSUME kept' PROVE WriteData(d, drive', media)
    BY <1>3, <1>8 DEF DataOK
  <2>1. kept /\ drive.stat = "DRQ"
    BY <1>3
  <2>2. /\ drive'.stat = "BSY" /\ drive'.hd = c.hd /\ drive'.at = c.lba + c.sec
        /\ drive'.left = c.cnt_each - c.sec /\ drive'.in = x
    BY <1>15, <2>1 DEF AtSector
  <2>3. ASSUME NEW j \in 1..i, j + Chunk > i
        PROVE  StoredIn(drive', media, c.hd, c.lba + Offset(j)) = c.buf[j]
    <3>1. CASE j = i
      BY <1>10, <1>11, <2>2, <3>1 DEF StoredIn, x
    <3>2. CASE j # i
      <4>1. /\ j \in Nat \ {0} /\ i \in Nat \ {0} /\ j < i /\ i < j + Chunk
            /\ j \in 1..Progress(c) /\ j + Chunk > Progress(c)
        BY <1>4, <1>5, <1>10, <2>3, <3>2, SMT
      <4>2. Offset(j) # Offset(i) /\ Offset(j) \in Nat
        <5> HIDE DEF i
        <5> QED
          BY <4>1, OffsetApart, OffsetBound
      <4>3. c.lba + Offset(j) # drive'.at
        BY <1>4, <1>10, <2>2, <4>2, SMT
      <4>4. StoredIn(drive, media, c.hd, c.lba + Offset(j)) = c.buf[j]
        BY <1>15, <2>1, <4>1 DEF WriteData
      <4> QED
        BY <1>15, <2>1, <4>3, <4>4 DEF StoredIn
    <3> QED
      BY <3>1, <3>2
  <2>4. \A j \in 1..Progress(d) : j + Chunk > Progress(d) =>
            StoredIn(drive', media, d.hd, d.lba + Offset(j)) = d.buf[j]
    BY <1>8, <1>10, <2>3, Zenon
  <2>5. CASE last
    <3>1. drive'.left = 1 /\ d.pc = "down"
      BY <1>4, <1>8, <2>2, <2>5, SMT
    <3> QED
      BY <1>11, <2>2, <2>4, <3>1, SMT DEF WriteData
  <2>6. CASE ~last
    <3>1. d.pc = "data" /\ d.sec > 0 /\ d.sec - 1 = c.sec
      BY <1>4, <1>8, <2>6, SMT
    <3>2. d.buf[Progress(d)] = x
      BY <1>8, <1>10 DEF x
    <3>3. drive' = AtSector(d, "write", d.sec - 1, "BSY", d.buf[Progress(d)])
      <4>1. drive' = AtSector(c, "write", c.sec, "BSY", x)
        BY <1>15, <2>1
      <4> QED
        BY <1>8, <3>1, <3>2, <4>1 DEF AtSector
    <3>4. d.sec # 0
      BY <3>1, SMT
    <3> QED
      BY <2>4, <3>1, <3>3, <3>4, Zenon DEF WriteData
  <2> QED
    BY <2>5, <2>6
<1>17. calm' => /\ kept' /\ TransferCalm(d, drive', Permits', intr')
                /\ d.pc # "chunk" => d.cnt_each = 1
  <2> SUFFICES ASSUME calm PROVE /\ kept' /\ TransferCalm(d, drive', Permits', intr')
                                 /\ d.cnt_each = 1
    BY <1>3
  <2>1. kept /\ Permits = 0 /\ ~intr /\ c.cnt_each = 1 /\ WriteData(c, drive, media)
    BY <1>1, <1>2 DEF TransferCalm, DataOK
  <2>2. last /\ c.sec = 0
    BY <1>4, <2>1, SMT
  <2>3. drive.stat = "DRQ"
    BY <1>1, <2>1, <2>2 DEF WriteData
  <2>4. d.pc = "down"
    BY <1>8, <2>2
  <2>5. TransferCalm(d, drive', Permits', intr')
    BY <1>3, <1>13, <2>1, <2>4, SMT DEF TransferCalm
  <2> QED
    BY <1>3, <1>8, <2>1, <2>3, <2>5
<1> QED
  BY <1>1, <1>2, <1>3, <1>7, <1>9, <1>10, <1>14, <1>16, <1>17, InsideKeeps, Zenon

LEMMA InsideOK ==
    ASSUME IdeInv, NEW t \in Thread, Inside(t)
    PROVE  IdeInv'
<1>1. ASSUME MoveSector(t) PROVE IdeInv'
  <2>1. call[t].pc \in Holding
    BY <1>1, SMT DEF MoveSector, Holding
  <2>2. call[t] \in Locals
    BY <2>1, InsideFacts, Zenon
  <2>3. call[t].op \in {"read", "write"}
    BY <2>2 DEF Locals
  <2> QED
    BY <1>1, <2>3, MoveReadOK, MoveWriteOK
<1> QED
  BY <1>1, ChunkStartOK, DownOK, PollOK, UnlockOK, Zenon DEF Inside

-----------------------------------------------------------------------------
LEMMA IdeNextOK == IdeInv /\ [IdeNext]_idevars => IdeInv'
<1> SUFFICES ASSUME IdeInv, [IdeNext]_idevars PROVE IdeInv'
  OBVIOUS
<1>1. ASSUME NEW t \in Thread, Waiting(t) PROVE IdeInv'
  BY <1>1, WaitingOK
<1>2. ASSUME NEW t \in Thread, Identification(t) PROVE IdeInv'
  BY <1>2, IdentifyOK
<1>3. ASSUME NEW t \in Thread, NEW op \in {"read", "write"}, NEW dev \in Dev, NEW lba \in Sector,
             NEW cnt \in 1..MaxCnt, Start(t, op, dev, lba, cnt)
      PROVE  IdeInv'
  BY <1>3, StartOK
<1>4. ASSUME NEW t \in Thread, Lock(t) PROVE IdeInv'
  BY <1>4, LockOK
<1>5. ASSUME NEW t \in Thread, Inside(t) PROVE IdeInv'
  BY <1>5, InsideOK
<1>6. CASE Drives
  BY <1>6, DriveReadyOK, DriveStoresOK, LateUpOK, Zenon DEF Drives
<1>7. CASE UNCHANGED idevars
  <2>1. UNCHANGED <<owner, semavars, valid, call, drive, intr, media, kept, calm>>
    BY <1>7, Zenon DEF idevars, history
  <2>2. SemaOK
    BY DEF IdeInv, Kinds, Typed
  <2>3. SemaOK' /\ Permits' = Permits
    BY <2>1, <2>2, Zenon DEF SemaOK, Permits, semavars
  <2> QED
    BY <2>1, <2>3, QueueOK, Zenon
<1> QED
  BY <1>1, <1>2, <1>3, <1>4, <1>5, <1>6, <1>7, Zenon DEF IdeNext

LEMMA IdeInvariant == IdeSpec => []IdeInv
  BY IdeInitOK, IdeNextOK, PTL DEF IdeSpec

LEMMA AtRestOf ==
    ASSUME IdeInv
    PROVE  ChannelAtRest
<1>1. Kinds /\ OneAtWork /\ InPhase /\ SemaOK /\ DriveOK(drive)
  BY DEF IdeInv, Kinds, Typed
<1>2. TypeOK
  <2>1. media \in [Dev -> [Sector -> Contents \ {Junk}]] /\ valid \in [Dev -> BOOLEAN]
    BY <1>1 DEF Kinds, Typed, Clean
  <2>2. drive.stat \in {"ready", "BSY", "DRQ"} /\ drive.at \in Sector
    BY <1>1, IdeAssumption, SMT DEF DriveOK, DriveIdle, Sector
  <2>3. \A t \in Thread : call[t].buf \in Seq(Contents) /\ call[t].cnt_done <= call[t].cnt
    BY <1>1, LocalNumbers DEF Kinds
  <2> QED
    BY <1>1, <2>1, <2>2, <2>3, Zenon DEF Kinds, SemaOK, TypeOK
<1>3. Rests(drive, Permits) => AtRest
  BY <1>1, SMT DEF Rests, Permits, AtRest, DriveIdle, SemaOK
<1>4. ASSUME NEW t \in Thread, calm, Done(t)
      PROVE  Rests(drive, Permits)
  <2>1. call[t].pc = "chunk" /\ call[t].pc \in Holding
    BY <1>4, SMT DEF Done, Holding
  <2>2. TransferCalm(call[t], drive, Permits, intr)
    BY <1>4, <2>1, InsideFacts, Zenon
  <2> QED
    BY <2>1, <2>2 DEF TransferCalm
<1>5. ASSUME calm, Booted, owner = NULL
      PROVE  Rests(drive, Permits)
  <2>1. \A t \in Thread : ~Active(call[t])
    <3> TAKE t \in Thread
    <3>1. call[t].pc \notin Holding /\ call[t].pc \notin IdSteps
      BY <1>1, <1>5, IdeAssumption, Zenon DEF OneAtWork, Booted
    <3>2. call[t].pc \in {"idle", "lock"} \cup Holding \cup IdSteps
      BY <1>1 DEF Kinds, Locals
    <3> QED
      BY <3>1, <3>2 DEF Active
  <2> QED
    BY <1>1, <1>5, <2>1 DEF InPhase
<1> QED
  BY <1>2, <1>3, <1>4, <1>5, Zenon DEF ChannelAtRest

LEMMA ExactOf ==
    ASSUME IdeInv
    PROVE  TransferExact
<1> SUFFICES ASSUME NEW t \in Thread, Done(t), kept,
                    NEW i \in 1..call[t].cnt,
                    call[t].op = "read" \/ i + Chunk > call[t].cnt
             PROVE  call[t].buf[i] = Stored(call[t].hd, call[t].lba + ((i - 1) % Chunk))
  BY DEF TransferExact
<1> DEFINE c == call[t]
<1>1. c.pc = "chunk" /\ c.pc \in Holding /\ c.cnt_done = c.cnt
  BY SMT DEF Done, Holding
<1>2. DataOK(c, drive, media) /\ c \in Locals
  BY <1>1, InsideFacts, Zenon
<1>3. Progress(c) = c.cnt
  BY <1>1 DEF Progress
<1>4. \A s : Stored(c.hd, s) = StoredIn(drive, media, c.hd, s)
  BY DEF Stored, StoredIn
<1>5. CASE c.op = "read"
  <2>1. ReadData(c, drive, media)
    BY <1>2, <1>5 DEF DataOK
  <2>2. drive = DriveIdle
    BY <1>1, <2>1 DEF ReadData
  <2>3. drive.in = <<>>
    BY <2>2 DEF DriveIdle
  <2>4. c.buf[i] = media[c.hd][c.lba + Offset(i)]
    BY <1>3, <2>1 DEF ReadData
  <2> QED
    BY <2>3, <2>4 DEF Stored, Offset
<1>6. CASE c.op # "read"
  <2>1. WriteData(c, drive, media)
    BY <1>2, <1>6 DEF DataOK, Locals
  <2>2. StoredIn(drive, media, c.hd, c.lba + Offset(i)) = c.buf[i]
    BY <1>3, <1>6, <2>1 DEF WriteData
  <2> QED
    BY <1>4, <2>2 DEF Offset
<1> QED
  BY <1>5, <1>6

\* When a transfer is complete, and whenever nobody holds the channel after the
\* boot, the drive is at no command and no interrupt is left over, up to the
\* first command of several sectors: for any number of threads, drives, sectors
\* and chunk length, and with the waits of sema_down and the handlers that wait
\* for its spinlock wherever they fall (ide.c:397-400, ide.c:433, ide.c:500).
THEOREM ChannelAtRestHolds == IdeSpec => []ChannelAtRest
<1>1. IdeInv => ChannelAtRest
  BY AtRestOf
<1> QED
  BY <1>1, IdeInvariant, PTL

\* A read returns what is on the disk and a write leaves its buffer there, with
\* commands of any number of sectors, when the channel was at rest at the start
\* and the drive kept up with the data loop (ide.h:106, ide.h:116, ide.c:427).
THEOREM TransferExactHolds == IdeSpec => []TransferExact
<1>1. IdeInv => TransferExact
  BY ExactOf
<1> QED
  BY <1>1, IdeInvariant, PTL
=============================================================================
