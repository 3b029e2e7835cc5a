--------------------------------- MODULE Heap ---------------------------------
(***************************************************************************)
(* The kernel heap of kernel/src/memory.c: sys_malloc and sys_free, with    *)
(* mem_acquire and mem_release under the mutex of their block class.        *)
(* page_acquire and page_release are one step each (PagePool has their own  *)
(* interleavings); since others use the page pool too, page_acquire may     *)
(* return any run of free pages, or NULL.                                   *)
(***************************************************************************)
EXTENDS Integers, Sequences, FiniteSets, Functions

CONSTANTS
    Caller,           \* the threads
    Class,            \* indices of mem_block_desc
    blocks_per_arena, \* of each class
    Pages,            \* pages of the virtual pool
    MaxPages,         \* the most pages of one large allocation
    NULL

ASSUME HeapAssumption ==
    /\ Class \subseteq Nat /\ NULL \notin Class \cup Caller
    /\ blocks_per_arena \in [Class -> Nat \ {0}]
    /\ Pages \in Nat \ {0} /\ MaxPages \in Nat

VARIABLES
    taken,     \* the pages taken from the virtual pool
    arena,     \* the struct arena in the memory of each page, also once it is free
    free_list, \* mem_block_desc.free_list of each class
    owner,     \* mem_block_desc.mlock.owner of each class
    held,      \* the pointers callers have
    doing      \* what each thread does in sys_malloc or sys_free

heapvars == <<taken, arena, free_list, owner, held, doing>>

HeapPage == 0..(Pages - 1)

\* A block is its arena and its index; the pointer to a large allocation has
\* the address of the block with index 0.
Block == HeapPage \X Nat
NoBlock == <<-1, 0>>
block2arena(b) == b[1]
Zeroed == [p_mem_block |-> NULL, cnt |-> 0, is_page_cnt |-> FALSE]
BlocksOf(p, c) == [i \in 1..blocks_per_arena[c] |-> <<p, i - 1>>]

\* mblock_idx or the class whose mutex a call took, and its block.
NoCall == [pc |-> "idle", class |-> NULL, block |-> NoBlock]
Call(pc, c, b) == [pc |-> pc, class |-> c, block |-> b]
Goto(t, from, to) == doing[t].pc = from /\ doing' = [doing EXCEPT ![t] = to]

\* mem_block_init
HeapInit ==
    /\ taken = {}
    /\ arena = [p \in HeapPage |-> Zeroed]
    /\ free_list = [c \in Class |-> <<>>]
    /\ owner = [c \in Class |-> NULL]
    /\ held = {}
    /\ doing = [t \in Caller |-> NoCall]

-----------------------------------------------------------------------------
(* sys_malloc                                                              *)

\* More than 1024 bytes: whole pages, with the arena in front.
MallocPages(t, p, cnt) ==
    /\ doing[t] = NoCall
    /\ p..(p + cnt - 1) \subseteq HeapPage \ taken
    /\ taken' = taken \cup p..(p + cnt - 1)
    /\ arena' = [q \in HeapPage |->
                    IF q = p THEN [p_mem_block |-> NULL, cnt |-> cnt, is_page_cnt |-> TRUE]
                    ELSE IF q \in p..(p + cnt - 1) THEN Zeroed ELSE arena[q]]
    /\ held' = held \cup {<<p, 0>>}
    /\ UNCHANGED <<free_list, owner, doing>>

MallocLock(t, c) ==
    /\ doing[t] = NoCall
    /\ owner[c] = NULL
    /\ owner' = [owner EXCEPT ![c] = t]
    /\ doing' = [doing EXCEPT ![t] = Call("acquire", c, NoBlock)]
    /\ UNCHANGED <<taken, arena, free_list, held>>

\* mem_acquire finds no free block and takes a page, which memset clears.
Refill(t, p) ==
    LET c == doing[t].class
    IN  /\ free_list[c] = <<>>
        /\ p \in HeapPage \ taken
        /\ Goto(t, "acquire", Call("split", c, <<p, 0>>))
        /\ taken' = taken \cup {p}
        /\ arena' = [arena EXCEPT ![p] = Zeroed]
        /\ UNCHANGED <<free_list, owner, held>>

RefillFails(t) ==
    LET c == doing[t].class
    IN  /\ free_list[c] = <<>>
        /\ Goto(t, "acquire", Call("unlock", c, NoBlock))
        /\ UNCHANGED <<taken, arena, free_list, owner, held>>

\* The page becomes an arena of the class and its blocks go on the free list.
Split(t) ==
    LET c == doing[t].class
        p == block2arena(doing[t].block)
    IN  /\ Goto(t, "split", Call("pop", c, NoBlock))
        /\ arena' = [arena EXCEPT ![p] = [p_mem_block |-> c, cnt |-> blocks_per_arena[c],
                                          is_page_cnt |-> FALSE]]
        /\ free_list' = [free_list EXCEPT ![c] = @ \o BlocksOf(p, c)]
        /\ UNCHANGED <<taken, owner, held>>

Pop(t) ==
    LET c == doing[t].class
        b == Head(free_list[c])
    IN  /\ free_list[c] # <<>>
        /\ doing[t].pc \in {"acquire", "pop"}
        /\ doing' = [doing EXCEPT ![t] = Call("unlock", c, b)]
        /\ free_list' = [free_list EXCEPT ![c] = Tail(@)]
        /\ arena' = [arena EXCEPT ![block2arena(b)].cnt = @ - 1]
        /\ UNCHANGED <<taken, owner, held>>

\* sys_malloc unlocks the mutex it locked and returns the block or NULL.
MallocUnlock(t) ==
    LET b == doing[t].block
    IN  /\ Goto(t, "unlock", NoCall)
        /\ owner' = [owner EXCEPT ![doing[t].class] = NULL]
        /\ held' = IF b = NoBlock THEN held ELSE held \cup {b}
        /\ UNCHANGED <<taken, arena, free_list>>

-----------------------------------------------------------------------------
(* sys_free                                                                *)

\* The arena of a large allocation says how many pages go back.
FreePages(t, b) ==
    LET a == arena[block2arena(b)]
        p == block2arena(b)
    IN  /\ doing[t] = NoCall /\ b \in held
        /\ a.is_page_cnt
        /\ taken' = taken \ p..(p + a.cnt - 1)
        /\ held' = held \ {b}
        /\ UNCHANGED <<arena, free_list, owner, doing>>

\* mutex_lock(&a->p_mem_block->mlock): the class is the arena's.
FreeBlock(t, b) ==
    LET a == arena[block2arena(b)]
    IN  /\ doing[t] = NoCall /\ b \in held
        /\ ~a.is_page_cnt
        /\ held' = held \ {b}
        /\ doing' = [doing EXCEPT ![t] = Call("lock", a.p_mem_block, b)]
        /\ UNCHANGED <<taken, arena, free_list, owner>>

FreeLock(t) ==
    LET c == doing[t].class
    IN  /\ owner[c] = NULL
        /\ Goto(t, "lock", Call("release", c, doing[t].block))
        /\ owner' = [owner EXCEPT ![c] = t]
        /\ UNCHANGED <<taken, arena, free_list, held>>

\* list_remove of every block of the arena: what is left of its free list.
Without(list, p) ==
    LET kept[i \in 0..Len(list)] ==
            IF i = 0 THEN <<>>
            ELSE IF block2arena(list[i]) = p THEN kept[i - 1] ELSE Append(kept[i - 1], list[i])
    IN  kept[Len(list)]

MutReleaseKeepsBlocks(t) ==
    LET b == doing[t].block
        p == block2arena(b)
        c == arena[p].p_mem_block
        cnt == arena[p].cnt + 1
        returned == Append(free_list[c], b)
        full == cnt = blocks_per_arena[c]
    IN  /\ Goto(t, "release", Call("reread", doing[t].class, b))
        /\ arena' = [arena EXCEPT ![p].cnt = cnt]
        /\ free_list' = [free_list EXCEPT ![c] = returned]
        /\ taken' = IF full THEN taken \ {p} ELSE taken
        /\ UNCHANGED <<owner, held>>
MutReleaseTooLate(t) ==
    LET b == doing[t].block
        p == block2arena(b)
        c == arena[p].p_mem_block
        cnt == arena[p].cnt + 1
        returned == Append(free_list[c], b)
        full == arena[p].cnt = blocks_per_arena[c]
    IN  /\ Goto(t, "release", Call("reread", doing[t].class, b))
        /\ arena' = [arena EXCEPT ![p].cnt = cnt]
        /\ free_list' = [free_list EXCEPT ![c] =
              IF full THEN Without(returned, p) ELSE returned]
        /\ taken' = IF full THEN taken \ {p} ELSE taken
        /\ UNCHANGED <<owner, held>>

\* mem_release: the last block of an arena takes all of them off the list and
\* gives the page back.
MemRelease(t) ==
    LET b == doing[t].block
        p == block2arena(b)
        c == arena[p].p_mem_block
        cnt == arena[p].cnt + 1
        returned == Append(free_list[c], b)
        full == cnt = blocks_per_arena[c]
    IN  /\ Goto(t, "release", Call("reread", doing[t].class, b))
        /\ arena' = [arena EXCEPT ![p].cnt = cnt]
        /\ free_list' = [free_list EXCEPT ![c] =
              IF full THEN Without(returned, p) ELSE returned]
        /\ taken' = IF full THEN taken \ {p} ELSE taken
        /\ UNCHANGED <<owner, held>>

\* mutex_unlock(&a->p_mem_block->mlock) reads the arena again, which may be
\* another's by now.  With NULL in it, it unlocks low memory.
FreeUnlock(t) ==
    LET c == arena[block2arena(doing[t].block)].p_mem_block
    IN  /\ Goto(t, "reread", NoCall)
        /\ owner' = IF c = NULL THEN owner ELSE [owner EXCEPT ![c] = NULL]
        /\ UNCHANGED <<taken, arena, free_list, held>>

\* The page is unmapped; the read is answered by a translation that is still
\* cached, or it faults and intr_general_handler halts the system.
FreeFault(t) ==
    /\ block2arena(doing[t].block) \notin taken
    /\ Goto(t, "reread", Call("fault", doing[t].class, NoBlock))
    /\ UNCHANGED <<taken, arena, free_list, owner, held>>

-----------------------------------------------------------------------------
Halted == \E t \in Caller : doing[t].pc = "fault"

HeapNext ==
    ~Halted /\ \E t \in Caller :
        \/ \E p \in HeapPage, cnt \in 1..MaxPages : MallocPages(t, p, cnt)
        \/ \E c \in Class : MallocLock(t, c)
        \/ doing[t].pc = "acquire" /\ ((\E p \in HeapPage : Refill(t, p)) \/ RefillFails(t))
        \/ Split(t)
        \/ doing[t].pc \in {"acquire", "pop"} /\ Pop(t)
        \/ MallocUnlock(t)
        \/ \E b \in held : FreePages(t, b) \/ FreeBlock(t, b)
        \/ doing[t].pc = "lock" /\ FreeLock(t)
        \/ MemRelease(t) \/ FreeUnlock(t) \/ FreeFault(t)

HeapSpec == HeapInit /\ [][HeapNext]_heapvars

-----------------------------------------------------------------------------
(* Properties.                                                             *)

\* Inside the section of the class's mutex.
InSection(t) == doing[t].pc \in {"acquire", "split", "pop", "unlock", "release", "reread"}

\* The pages that are arenas of a class.
IsArena(p) == p \in taken /\ arena[p].p_mem_block # NULL
\* A block that a call is about to return to its caller or to the free list.
InTransit(b) == \E t \in Caller : doing[t].block = b /\ doing[t].pc \in {"unlock", "lock", "release"}
OnList(b) == \E c \in Class : \E i \in DOMAIN free_list[c] : free_list[c][i] = b

HeapTypeOK ==
    /\ taken \subseteq HeapPage
    /\ \A p \in HeapPage :
          LET c == arena[p].p_mem_block
          IN  /\ c \in Class \cup {NULL}
              /\ arena[p].cnt \in 0..(IF c = NULL THEN Pages ELSE blocks_per_arena[c])
    /\ \A c \in Class : \A i \in DOMAIN free_list[c] : free_list[c][i] \in Block
    /\ owner \in [Class -> Caller \cup {NULL}]
    /\ held \subseteq Block
    /\ \A t \in Caller : doing[t].class \in Class \cup {NULL}

\* Every block of an arena is on its class's free list once, or is held by one
\* caller, or is in the hands of one call; nothing else is on a free list.  So
\* a block is never handed out twice, and an arena never goes back to the
\* pages while a caller has a block of it.
BlocksAccounted ==
    /\ HeapTypeOK
    /\ \A c \in Class : IsInjective(free_list[c])
    /\ \A c \in Class : \A i \in DOMAIN free_list[c] :
          LET b == free_list[c][i]
          IN  IsArena(b[1]) /\ arena[b[1]].p_mem_block = c /\ b[2] < blocks_per_arena[c]
    /\ \A b \in held : b[1] \in taken /\ ~OnList(b) /\ ~InTransit(b)
    /\ \A p \in HeapPage : IsArena(p) =>
          \A i \in 0..(blocks_per_arena[arena[p].p_mem_block] - 1) :
              <<p, i>> \in held \/ OnList(<<p, i>>) \/ InTransit(<<p, i>>)

\* cnt of an arena is the number of its blocks on the free list, and an arena
\* all of whose blocks are free does not outlive the section that freed the
\* last one (memory.h:172-173).
ArenaCount ==
    \A p \in HeapPage : IsArena(p) =>
        LET c == arena[p].p_mem_block
        IN  /\ arena[p].cnt = Cardinality({b \in Range(free_list[c]) : b[1] = p})
            /\ arena[p].cnt = blocks_per_arena[c] => \E t \in Caller : doing[t].pc = "pop" /\ doing[t].class = c

\* memory.h:129: the mutex of a class serialises free-list access between
\* threads.  So two threads are never inside its section.
ClassExclusion ==
    \A t, u \in Caller : InSection(t) /\ InSection(u) /\ doing[t].class = doing[u].class => t = u
=============================================================================
