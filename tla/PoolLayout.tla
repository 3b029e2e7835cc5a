------------------------------ MODULE PoolLayout ------------------------------
(***************************************************************************)
(* pool_init of kernel/src/memory.c: how installed memory is divided into   *)
(* the kernel's and the user's physical pool, and where their bitmaps and   *)
(* the virtual pool lie.  All amounts are pages but the lengths and         *)
(* addresses of bitmaps, which are bytes from PADDR_BITMAP_BASE.            *)
(***************************************************************************)
EXTENDS Bitmap

CONSTANTS
    mem_total_size, \* what the loader found, in pages
    AddrPages,      \* pages of the 32-bit address space
    ReservedMem,    \* used_mem: 512 pages
    KernelCap,      \* 0x40000 pages, the kernel's gigabyte
    BitmapGap,      \* K_VADDR_BITMAP_BASE - PADDR_BITMAP_BASE, 0x20000 bytes
    VBitmapLen,     \* 0x8000 bytes
    HeapStart       \* the page of K_HEAP_START, 0xC0100

\* The reserved pages exist, and the gap has a bit for every page (memory.h:57-60).
ASSUME LayoutAssumption ==
    /\ AddrPages \in Nat /\ ReservedMem \in Nat /\ KernelCap \in Nat
    /\ BitmapGap \in Nat /\ VBitmapLen \in Nat /\ HeapStart \in Nat
    /\ mem_total_size \in ReservedMem..(AddrPages - 1)
    /\ AddrPages <= BitmapGap * ByteBits

\* The subtraction is one of 32 bits.
all_free_pages == (mem_total_size - ReservedMem) % AddrPages

\* Half of what is free, up to the kernel's gigabyte.
kernel_free_pages ==
    IF all_free_pages \div 2 > KernelCap THEN KernelCap ELSE all_free_pages \div 2
user_free_pages == all_free_pages - kernel_free_pages

\* The length of a pool's bitmap: pages that do not fill a byte are unused.
BitmapLen(pages) == pages \div ByteBits

\* A pool: its first page, where its bitmap starts and how long that is.
k_p_pool == [start |-> ReservedMem, bits |-> 0, len |-> BitmapLen(kernel_free_pages)]
u_p_pool == [start |-> ReservedMem + kernel_free_pages,
             bits |-> BitmapLen(kernel_free_pages), len |-> BitmapLen(user_free_pages)]
k_v_pool == [start |-> HeapStart, bits |-> BitmapGap, len |-> VBitmapLen]

-----------------------------------------------------------------------------
\* The end of what a pool's bitmap can hand out.
EndOf(pool) == pool.start + ByteBits * pool.len

\* No frame is in both physical pools, none lies in the reserved pages or past
\* the end of memory, however the roundings of memory.c:386-431 fall.
FramesExist ==
    /\ ReservedMem <= k_p_pool.start
    /\ EndOf(k_p_pool) <= u_p_pool.start
    /\ EndOf(u_p_pool) <= mem_total_size

\* memory.h:57-60: the two physical bitmaps do not overlap and end where the
\* virtual one starts, up to the most memory that can be addressed.
BitmapsFit ==
    /\ k_p_pool.bits + k_p_pool.len <= u_p_pool.bits
    /\ u_p_pool.bits + u_p_pool.len <= k_v_pool.bits
=============================================================================
