------------------------------- MODULE PagePool -------------------------------
(***************************************************************************)
(* The page allocator of kernel/src/memory.c: page_malloc and page_free     *)
(* over the kernel's virtual pool, its physical pool and its page tables.   *)
(* Every mutex-protected section is one action (Mutex shows that sections   *)
(* of one mutex exclude each other); between two of them any other thread   *)
(* runs.                                                                    *)
(*                                                                         *)
(* A page is its index from K_HEAP_START, a frame its index from the        *)
(* paddr_start of the kernel's pool; pool_init made both pools (PoolLayout).*)
(* The boot loader presets every page directory entry of the kernel's       *)
(* gigabyte, so page_table_add finds its table present.                     *)
(***************************************************************************)
EXTENDS PoolLayout

CONSTANTS
    Thread,
    MaxCnt \* the longest run of pages a caller asks for

ASSUME PoolAssumption == k_v_pool.len > 0 /\ k_p_pool.len > 0 /\ MaxCnt \in Nat \ {0}

\* The lengths of the two bitmaps.
VLen == k_v_pool.len
PLen == k_p_pool.len

Page == 0..(VLen * ByteBits - 1)
Frame == 0..(PLen * ByteBits - 1)
NoFrame == -1

VARIABLES
    vbits,   \* k_v_pool.vaddr_bitmap
    pbits,   \* k_p_pool.paddr_bitmap
    pte,     \* the address field of each page table entry
    present, \* the pages whose entry has its present bit
    lost,    \* history: the marked pages no caller has been given
    regions, \* the runs <<first page, count>> that callers have
    call     \* what each thread does in page_acquire or page_release

poolvars == <<vbits, pbits, pte, present>>
vars == <<poolvars, lost, regions, call>>

Run(r) == r[1]..(r[1] + r[2] - 1)

\* vaddr_ret or vaddr_start, pg_cnt, i and paddr of a call.
Steps == {"palloc", "map", "v2p", "pfree", "unmap", "vrel"}
NotCalling == [pc |-> "idle", start |-> 0, cnt |-> 0, i |-> 0, paddr |-> NoFrame]
Calling(pc, start, cnt) == [NotCalling EXCEPT !.pc = pc, !.start = start, !.cnt = cnt]
PageOf(t) == call[t].start + call[t].i

\* The pages a thread's call is filling or emptying.
InCall(t) == Run(<<call[t].start, call[t].cnt>>)

\* pool_init: both bitmaps are reset; the loader's page tables map no heap page.
Init ==
    /\ vbits = {} /\ pbits = {}
    /\ pte = [p \in Page |-> NoFrame]
    /\ present = {}
    /\ lost = {}
    /\ regions = {}
    /\ call = [t \in Thread |-> NotCalling]

-----------------------------------------------------------------------------
(* page_acquire                                                            *)

\* vaddr_acquire(vp, NULL, cnt): the bitmap chooses.
AcquireAny(t, cnt) ==
    LET start == AcquireIdx(vbits, VLen, cnt)
    IN  /\ call[t] = NotCalling
        /\ vbits' = AcquireBits(vbits, VLen, cnt)
        /\ call' = IF start = -1 THEN call ELSE [call EXCEPT ![t] = Calling("palloc", start, cnt)]
        /\ UNCHANGED <<pbits, pte, present, lost, regions>>

MutAcquireAtUnchecked(t, start, cnt) ==
    /\ call[t] = NotCalling
    /\ Run(<<start, cnt>>) \subseteq Page
    /\ vbits' = vbits \cup Run(<<start, cnt>>)
    /\ call' = [call EXCEPT ![t] = Calling("palloc", start, cnt)]
    /\ UNCHANGED <<pbits, pte, present, lost, regions>>

\* vaddr_acquire(vp, vaddr, cnt): each page is checked and marked in turn, so
\* the pages before the first used one stay marked when the call fails.
AcquireAt(t, start, cnt) ==
    LET taken == Run(<<start, cnt>>) \cap vbits
    IN  /\ call[t] = NotCalling
        /\ Run(<<start, cnt>>) \subseteq Page
        /\ IF taken = {}
           THEN /\ vbits' = vbits \cup Run(<<start, cnt>>)
                /\ call' = [call EXCEPT ![t] = Calling("palloc", start, cnt)]
                /\ UNCHANGED lost
           ELSE /\ vbits' = vbits \cup start..(Min(taken) - 1)
                /\ lost' = lost \cup start..(Min(taken) - 1)
                /\ UNCHANGED call
        /\ UNCHANGED <<pbits, pte, present, regions>>

\* palloc; with no frame left the call returns NULL and undoes nothing.
Palloc(t) ==
    LET f == AcquireIdx(pbits, PLen, 1)
    IN  /\ call[t].pc = "palloc"
        /\ pbits' = AcquireBits(pbits, PLen, 1)
        /\ call' = [call EXCEPT ![t] = IF f = -1 THEN NotCalling
                                       ELSE [@ EXCEPT !.pc = "map", !.paddr = f]]
        /\ lost' = IF f = -1 THEN lost \cup InCall(t) ELSE lost
        /\ UNCHANGED <<vbits, pte, present, regions>>

MutOnePageMore(t) ==
    LET c == call[t]
        last == c.i = c.cnt
    IN  /\ c.pc = "map"
        /\ pte' = [pte EXCEPT ![PageOf(t)] = c.paddr]
        /\ present' = present \cup {PageOf(t)}
        /\ call' = [call EXCEPT ![t] = IF last THEN NotCalling
                                       ELSE [Calling("palloc", c.start, c.cnt) EXCEPT !.i = c.i + 1]]
        /\ regions' = IF last THEN regions \cup {<<c.start, c.cnt>>} ELSE regions
        /\ UNCHANGED <<vbits, pbits, lost>>

\* page_table_add, then the next page of the loop or the return.
PageTableAdd(t) ==
    LET c == call[t]
        last == c.i + 1 = c.cnt
    IN  /\ c.pc = "map"
        /\ pte' = [pte EXCEPT ![PageOf(t)] = c.paddr]
        /\ present' = present \cup {PageOf(t)}
        /\ call' = [call EXCEPT ![t] = IF last THEN NotCalling
                                       ELSE [Calling("palloc", c.start, c.cnt) EXCEPT !.i = c.i + 1]]
        /\ regions' = IF last THEN regions \cup {<<c.start, c.cnt>>} ELSE regions
        /\ UNCHANGED <<vbits, pbits, lost>>

-----------------------------------------------------------------------------
(* page_release                                                            *)

MutVaddrReleaseEarly(t, r, cnt) ==
    /\ call[t] = NotCalling
    /\ r \in regions /\ cnt <= r[2]
    /\ vbits' = ReleaseBits(vbits, r[1], cnt)
    /\ regions' = (regions \ {r}) \cup (IF cnt = r[2] THEN {} ELSE {<<r[1] + cnt, r[2] - cnt>>})
    /\ call' = [call EXCEPT ![t] = Calling("v2p", r[1], cnt)]
    /\ UNCHANGED <<pbits, pte, present, lost>>

\* A caller frees a region or, as test_memory.c does, its first pages.
Release(t, r, cnt) ==
    /\ call[t] = NotCalling
    /\ r \in regions /\ cnt <= r[2]
    /\ regions' = (regions \ {r}) \cup (IF cnt = r[2] THEN {} ELSE {<<r[1] + cnt, r[2] - cnt>>})
    /\ call' = [call EXCEPT ![t] = Calling("v2p", r[1], cnt)]
    /\ UNCHANGED <<poolvars, lost>>

MutV2pFirst(t) ==
    /\ call[t].pc = "v2p"
    /\ call' = [call EXCEPT ![t].pc = "pfree", ![t].paddr = pte[call[t].start]]
    /\ UNCHANGED <<poolvars, lost, regions>>

\* addr_v2p reads the entry, present or not, before the pool is locked.
AddrV2p(t) ==
    /\ call[t].pc = "v2p"
    /\ call' = [call EXCEPT ![t].pc = "pfree", ![t].paddr = pte[PageOf(t)]]
    /\ UNCHANGED <<poolvars, lost, regions>>

Pfree(t) ==
    /\ call[t].pc = "pfree"
    /\ pbits' = ReleaseBits(pbits, call[t].paddr, 1)
    /\ call' = [call EXCEPT ![t].pc = "unmap"]
    /\ UNCHANGED <<vbits, pte, present, lost, regions>>

\* page_table_remove.  The operand of its invlpg is the local variable vaddr,
\* so what it flushes is the translation of the caller's stack.
PageTableRemove(t) ==
    LET c == call[t]
    IN  /\ c.pc = "unmap"
        /\ present' = present \ {PageOf(t)}
        /\ call' = [call EXCEPT ![t] = IF c.i + 1 = c.cnt
                                       THEN Calling("vrel", c.start, c.cnt)
                                       ELSE [Calling("v2p", c.start, c.cnt) EXCEPT !.i = c.i + 1]]
        /\ UNCHANGED <<vbits, pbits, pte, lost, regions>>

VaddrRelease(t) ==
    /\ call[t].pc = "vrel"
    /\ vbits' = ReleaseBits(vbits, call[t].start, call[t].cnt)
    /\ call' = [call EXCEPT ![t] = NotCalling]
    /\ UNCHANGED <<pbits, pte, present, lost, regions>>

-----------------------------------------------------------------------------
Next ==
    \E t \in Thread :
        \/ \E cnt \in 1..MaxCnt : AcquireAny(t, cnt)
        \/ \E start \in Page, cnt \in 1..MaxCnt : AcquireAt(t, start, cnt)
        \/ \E r \in regions, cnt \in 1..MaxCnt : Release(t, r, cnt)
        \/ Palloc(t) \/ PageTableAdd(t)
        \/ AddrV2p(t) \/ Pfree(t) \/ PageTableRemove(t) \/ VaddrRelease(t)

Spec == Init /\ [][Next]_vars

-----------------------------------------------------------------------------
(* Properties.                                                             *)

TypeOK ==
    /\ vbits \subseteq Page /\ pbits \subseteq Frame
    /\ pte \in [Page -> Frame \cup {NoFrame}]
    /\ present \subseteq Page
    /\ lost \subseteq Page
    /\ regions \subseteq Page \X (1..MaxCnt)
    /\ \A t \in Thread :
          /\ call[t].pc \in Steps \cup {"idle"}
          /\ call[t].paddr \in Frame \cup {NoFrame}
          /\ call[t] # NotCalling =>
                /\ Run(<<call[t].start, call[t].cnt>>) \subseteq Page
                /\ call[t].i < call[t].cnt

\* No two callers, nor a caller and a call under way, share a virtual page,
\* however the sections of the calls interleave (memory.c:298-351).
RegionsDisjoint ==
    /\ \A r, s \in regions : r # s => Run(r) \cap Run(s) = {}
    /\ \A t \in Thread : \A r \in regions : InCall(t) \cap Run(r) = {}
    /\ \A t, u \in Thread : t # u => InCall(t) \cap InCall(u) = {}

\* The marked pages are those of callers and of calls under way, and those
\* lost to a refused fixed-address request (memory.c:169-184) or to a request
\* the frames ran out for (memory.c:318-320): no other path loses a page, and
\* vaddr_release's assertion (bitmap.c:103) holds.
PagesAccounted ==
    LET own == UNION ({Run(r) : r \in regions} \cup {InCall(t) : t \in Thread})
    IN  TypeOK /\ vbits = own \cup lost /\ own \cap lost = {}

\* A caller's page is mapped, to a frame that is in use and no other caller's
\* page is mapped to, although a frame is back in the pool before the entry
\* of the page that had it is cleared.
RegionsMapped ==
    LET own == UNION {Run(r) : r \in regions}
    IN  /\ own \subseteq present
        /\ \A p \in own : pte[p] \in pbits
        /\ \A p, q \in own : p # q => pte[p] # pte[q]

\* Each frame in use is mapped by one page, or is in the hands of one call that
\* is about to map it or free it.  The page is a caller's, or of a call under
\* way, or lost: page_acquire returns NULL when the frames run out and leaves
\* what it had mapped (memory.c:318-320), so the frames of lost pages are leaked
\* for good.  No other path leaks one, and pfree's assertion (bitmap.c:103) holds.
FramesAccounted ==
    LET own == UNION ({Run(r) : r \in regions} \cup {InCall(t) : t \in Thread})
        freed == {PageOf(t) : t \in {u \in Thread : call[u].pc = "unmap"}}
        mapped == (own \cap present) \ freed
        leaked == lost \cap present
        inHand == {t \in Thread : call[t].pc = "map"}
    IN  /\ pbits = {pte[p] : p \in mapped \cup leaked} \cup {call[t].paddr : t \in inHand}
        /\ Cardinality(pbits) = Cardinality(mapped) + Cardinality(leaked) + Cardinality(inHand)
        /\ \A t \in Thread : call[t].pc = "pfree" => ReleaseOK(pbits, call[t].paddr, 1)

\* bitmap.h:63-64: the search from the first byte with a free bit returns the
\* first run of cnt free bits of the pool's bitmap, and -1 only if there is
\* none: no page or frame is passed over at any fill calls can leave behind.
SearchIsFirstFit ==
    /\ \A cnt \in 1..Cardinality(Page) : AcquireIdx(vbits, VLen, cnt) = FirstFit(vbits, VLen, cnt)
    /\ \A cnt \in 1..Cardinality(Frame) : AcquireIdx(pbits, PLen, cnt) = FirstFit(pbits, PLen, cnt)
=============================================================================
