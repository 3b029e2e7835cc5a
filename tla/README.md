# A verification of K_OS in TLA+

K_OS is a small 32-bit x86 kernel in C and assembly: one processor, kernel
threads, no user processes yet. This directory models its core in TLA+, checks
the models with TLC on small instances, and proves the properties that matter
most with TLAPS for every value of the constants.

Paths without a directory (`sched.c:46`) are under `src/code/kernel/src` or
`src/code/kernel/inc`.

## 1. The system

| Component | State | Operations | Speaks with |
|---|---|---|---|
| Intrusive lists (`list.c`) | `next`/`prev` of each node, two sentinels | insert, remove, push, append, pop | scheduler, wait lists, free lists, partitions |
| Threads, scheduler (`thread.c`, `sched.c`, `switch.s`) | PCBs: status, slice, stack; ready and all list; `g_main_task`, `g_idle_task` | create, run, yield, block, unblock, exit; `schedule` | called by locks, timer, delays |
| Locks (`lock.c`) | spinlock word; owner or count; wait list of waiters that live on their threads' stacks | `spin_lock`, `mutex_lock/unlock`, `sema_down/up` | call yield, block and unblock; `sema_up` also in interrupts |
| Interrupts (`interrupt.c`, `kernel.s`) | IDT, PIC in-service state, IF of eflags and the copies of it in stack frames | entry stubs, `intr_get/set_status`, system call entry | run handlers on the stack of whatever thread runs |
| Timer (`timer.c`) | `jiffies`, the running thread's slice | tick, `msleep`, `usleep`, conversions | tick calls `schedule` |
| Bitmap (`bitmap.c`) | bit string | acquire a run, release a run | page pools |
| Page allocator (`memory.c`) | virtual and physical pools, each a bitmap and a mutex; page tables | `page_acquire`, `page_release`, `pool_init` | heap, PCBs |
| Kernel heap (`memory.c`) | arenas; a free list and a mutex for each block class | `sys_malloc`, `sys_free` | page allocator, mutex |
| IDE driver (`ide.c`) | per channel: mutex, semaphore, two drives; partition list | identify, `ide_read`, `ide_write`, partition scan, IRQ handler | mutex, semaphore, the hardware |
| File system (`fs.c`) | super blocks and bitmaps on disk; root directory in memory; inode ranges | `fs_init`, `fs_format`, `fs_mount`, `fs_unmount` | IDE driver, heap |
| Console, `printk` (`print.s`, `printk.c`) | video memory, the cursor behind two ports, a static digit buffer, `printk_lock` | `put_char`, `put_str`, `put_int`, `set_cursor`, `cls_screen`, `printk` | mutex, formatting |
| Assertions (`assert.c`) | | `kernel_panic` | console, interrupts, mutex |
| Strings, formatting (`string.c`, `stdio.c`) | | memory and string functions, `vsprintf`, `sprintf` | everybody |
| System calls (`syscall_sys.c`) | a table of functions | test stubs | interrupts |
| Boot | | | hands over memory size and page directory |

What is hard in it:

* **Preemption.** Locks, the allocators and the driver run with interrupts on.
  A tick can switch threads between any two instructions of theirs. Only the
  functions of `thread.c` run with interrupts off.
* **The interrupt flag travels with stacks.** `switch_to` does not save eflags.
* **Handlers run on a borrowed stack** and may wake threads, yield, and even
  switch away in the middle.
* **Lifetimes.** Waiters live in stack frames, arenas are freed by the call
  that still uses them, an exiting thread frees its own PCB.
* **Hardware** answers late, per sector, and can be ready before it is asked.
* **Power loss** between the writes of a format.
* **Output is shared**: eight port accesses for each character, a lock that only
  `printk` takes, and a panic that prints through that lock.
* **Arithmetic at boundaries**: bitmap tails, roundings, a counter that wraps.

`PROJECT.json` lists these as hazards, each at its line, with the properties
that cover it or the reason why none does.

What makes each component correct: the ready list is exactly the ready threads
in order and every one of them runs again (scheduler); exclusion, no lost or
invented permit, waiters that are alive (locks); the scheduler is never entered
twice and each thread runs with its own interrupt flag (interrupts); a region
has one owner and frames of its own, and nothing leaks but where a call fails
(pages); a block is free
or held, once, and an arena goes back exactly when it is empty (heap); a
transfer moves the sectors it addresses and leaves the channel at rest (IDE); the
areas of a partition are disjoint and the directory agrees with what is mounted
(file system); a sleep lasts its count of ticks (timer); the screen shows what
was printed and a report is in one piece (console, assertions).

## 2. The modules

    IntrusiveList --- Sched                    Bitmap --- PoolLayout --- PagePool
                        \implements            Heap          (page steps abstracted)
                       RoundRobin              IdeChannel
                      /    |     \
           Interrupts    Mutex   Semaphore     FsLayout -------\
           Timer           \implements         PartitionScan --- FileSystem
           (MCInterrupts)  BlockingMutex
                                \
                Strings, Stdio -- Console

Each module of proofs extends the last model of its line: **SchedProofs** (lists
and scheduler), **RoundRobinProofs**, which **MutexProofs**, **SemaphoreProofs**
and **InterruptsProofs** (Interrupts and Timer) extend too, **MemoryProofs**
(bitmap, layout of the pools, allocator, heap), **DiskProofs** (IDE channel,
layout of a partition, scan, file system) and **ConsoleProofs** (lock, panic and
screen).

* **IntrusiveList** is `list.c` pointer by pointer: a list is a record of two
  functions `next` and `prev` over the nodes and the sentinels, and each
  operation returns the record after its assignments. `Walk` reads a list back.
* **Sched** has one action per function of `thread.c`, with the whole of
  `schedule` inside each, and `timer_handler`. `cur` is the running thread,
  `ready` the pointers, `status` and `slice` the PCB's fields, `all` the
  registered threads. `ready` starts with main both running and queued, as
  `kthread_init` leaves it. `BlockWith` is the set of reasons callers pass.
* **RoundRobin** is the abstract scheduler: `queue`, `running`, `asleep`. Sched
  implements it (`RR`, a refinement mapping over `ready`), and the lock modules
  and Interrupts run on it.
* **Mutex**, **Semaphore**: one action per load, store or scheduler call of the
  functions of `lock.c`; `pc` is where a context is. `Preempt` is a tick that
  ends a slice. In Semaphore a context is a thread's own code or the
  `ide_handler` that interrupted it; several handlers can be under way, each on
  the stack of another thread, because a handler that spins yields.
* **BlockingMutex** is the mutex as its callers see it: each section under the
  spinlock is one step. Parking and going to sleep are two, as in the code.
  Mutex implements it (`Sections`), and Console takes it for `printk_lock`.
* **Console**: `put_char` with one action per port access, cell and scroll; a
  thread that prints has `put_char`'s step and `bx` in `out`. `put_int` fills
  and reads the shared `put_int_buffer` digit by digit. `printk` holds
  `printk_lock`; `put_str` and `put_int` hold nothing, as when system calls and
  TRACE macros use them. `kernel_panic` can come on top of whatever thread runs, at
  any point of the code above, because the tick asserts (`timer.c:80`). It turns
  interrupts off (no `Tick`) and prints its lines with `printk`; what it came on
  top of does not go on. `spin` is the thread in a section of the
  lock, which can be preempted there, or `Abandoned` when a panic came on top of one. `paper`, `garbled`, `shown` and `shared`
  are history: an endless roll of what was printed, whether two threads were in
  `put_char` together, and the digits of a number.
* **Strings**, **Stdio**: `string.c` and `stdio.c` as recursive functions of a
  memory, or of a format and its arguments, with what their headers promise as
  reference definitions. TLC evaluates them with the console, which uses them
  for the texts it prints.
* **Interrupts**: each thread has a stack of frames (payload, call, system
  call, handler) with the interrupt flag the frame found. Shown from these:
  the functions of `thread.c` are atomic, which Sched takes for granted. One is
  not: `kthread_exit` of a thread other than main calls `page_free` between its
  cli and its sti, and the mutexes there may yield or block (`Freeing`).
* **Bitmap**, **PoolLayout**, **PagePool**: the two-stage search; the
  arithmetic of `pool_init`; then `page_acquire` and `page_release` with one
  action per mutex-protected section or unlocked access. `lost` is a history
  variable: pages a failed call left marked.
* **Heap**: `sys_malloc` and `sys_free`, one action for each stretch that other
  threads can see in the middle. The class that `sys_free` unlocks is read
  again from the arena, as the code does. A page fault stops the system, so
  its runs allow deadlock.
* **IdeChannel**: identification, reads and writes, the interrupt handler, and
  the drives as far as the code's port accesses tell (external in the map): a
  drive raises its line once per sector and stays busy for as long as it likes,
  however fast the data loop is. `sema_down` is in the steps an interrupt can
  fall between (the spinlock's section, parked, asleep), `ide_handler` waits for the
  spinlock on the stack of whoever runs, and `down` says where each thread is. Two
  history variables say what a call could count on: `kept`, the channel was at
  rest when the call got it, and the drive took its commands and had its sectors
  when they were moved; `calm`, no command of several sectors was given since the
  channel was last at rest.
* **PartitionScan**: `ide_ch_init` over all drives and `ide_get_partition`
  entry by entry, its recursion an explicit stack of calls.
* **FsLayout**, **FileSystem**: the super block as functions of the
  partition's size; then, on what the scan found, `root_dir_init`, `fs_init`, one
  part of what `fs_format` writes at a time (`format` is the one at work), `fs_mount`
  with the assertion that ends it, `fs_unmount`, the format of what was unmounted
  that `test_fs.c:27` does (`FormatAgain`), and `Reboot`, which forgets memory,
  keeps the disk and starts with the scan again. `cut` is a history variable: first
  formats that a restart cut short.
* **Timer**: time passes by the microsecond, ticks at their period, and a sleep
  begins anywhere in a tick. `MCInterrupts` checks it in one run with
  Interrupts: `side` says which of the two a behaviour is about.

In each module operators starting with `Mut` are deliberate mistakes, placed
before the definition they vary. Substituted for it, each makes the property
it is paired with in `PROJECT.json` fail: that is how we know that a property
watches the code.

## 3. The runs

| Run | Instance | Distinct states | Shows |
|---|---|---|---|
| sched | idle, main, 2 created threads, slices of 2 ticks | 14 882 | list, exclusion, refinement of RoundRobin, no starvation |
| sched_exit_others | main exits | violation | `kthread_exit` rewrites other threads' links |
| mutex | 3 threads and idle | 66 131 | exclusion of spinlock and mutex, live waiters, unlock completes, refinement of BlockingMutex |
| mutex_lost | 2 threads | violation | lost wake-up |
| semaphore | 2 threads, 1 permit, 2 interrupts | 62 287 | exclusion, permits conserved, live waiters, spinlock freed |
| page_pool | 2 threads, 4 pages in two bytes, 2 frames | 117 912 | one owner, full mappings, every page and frame accounted for, first fit |
| heap | 3 threads, one class of 2 blocks, 3 pages | 96 331 | blocks accounted, arena counts |
| heap_shared | 2 classes, 2 threads | violation | two threads inside one class |
| ide_channel | 2 threads, 2 drives of 3 sectors, commands of up to 2, 2 calls of up to 3 | 86 146 | data, channel at rest, channel released |
| fs | 2 drives, up to 4 partitions of 4 sizes, two restarts | 187 004 | scan, layout, bitmap tail, formats, directory and its limit, inode ranges |
| interrupts | idle, main, 1 created thread, 2 vectors; counter of 16, ticks of 3 µs | 490 784 | exclusive scheduler, flags, depth, ticks delivered; tick counts, error below two ticks |
| console | 2 threads and idle, screen of 2×2 and 4 cells beyond, 2 messages and a panic at any point | 3 719 559 | screen, lock, report in one piece, numbers; strings on all memories of 5 bytes, formats, all 8-bit ints |

**Why the bounds are enough.** The scheduler needs two ready threads besides
the one that runs for order to matter, and one asleep. A mutex needs an owner,
a waiter and a third thread that takes the lock between the wake-up and the
re-check; a semaphore has the same race between a thread and the interrupts.
Four pages in two bytes make the search cross a byte, fail in the virtual pool
and fail half way in the physical one. In the heap three pages hold arenas of
two blocks and a large allocation side by side. The partition tables have gaps,
an extended entry before a primary one, a boot record that has lost its
partition, chains of one and three records, extended partitions on both drives,
and one partition more than the directory takes. The sizes put the last block
into the bitmap's first byte, at the end of a sector, in an earlier sector than
the last, and in between. A restart interrupts any step, a second one the boot
that follows. A screen of four cells wraps a row, scrolls, and has a backspace
at its first cell within two messages, and two messages are what meets in
`put_char` or in `put_int`; a panic comes on top of both. A number of three digits
has one leading zero and two that count. Of the two calls of the channel the second
finds what the first has left, on the same drive or the other; three sectors are a
command of two and one of one, in one call or in two. Memories of five
bytes hold two strings and their ends; with four byte values two are negative
chars. An int of 8 bits has up to three decimal digits and a least value. The
counter of the timer wraps during sleeps. In Interrupts a thread can be new,
asleep, or switched out inside a call, a handler, a call of a handler, or
`page_free` in its exit, which is as deep as a stack gets.

Bounds in the modules: `MaxIrq` (Semaphore), `MaxCnt` (PagePool, IdeChannel), `MaxCalls` (IdeChannel),
`MaxPages` (Heap), `MaxReboots` (FileSystem), `MaxMessages` (Console; and after two threads
have met in `put_char` no new call is followed, `Followed`; a thread whose waiter is
still linked, from under a panic, does not link a second one), `MemSize`
(Strings), `MaxWait` (Timer; longer sleeps
are not followed to their end), `Slice` (Sched; a slice has Slice + 1 ticks).

**Fairness.** Sched: `timer_handler` is weakly fair, since the PIT does not
stop; nothing is assumed of threads, so starvation is excluded by ticks alone.
Mutex: ticks that preempt are weakly fair; a thread's next instruction inside
the lock functions, and the idle thread's block, are strongly fair, since a
dispatched thread executes at least one instruction before its slice ends.
A thread outside the lock functions owes nothing. Semaphore: the same, with a
handler counted as part of the thread it stands on; nobody is obliged to
interrupt or to call, and `SpinlockFreed` excepts the one case where the
holder cannot go on, a handler that spins on its own thread's section. IdeChannel: drives answer,
handlers that wait get their turn, and a thread inside the driver goes on unless
it sleeps or such a handler stands on it; nobody is obliged to start a transfer.
Interrupts: the CPU executes and takes interrupts (weak fairness of
`KernelStep`); payloads owe nothing, and `TickDelivered` excepts a spinning
handler, and a thread in the `page_free` of its exit, instead of assuming that they stop.

**Refinement.** `ImplementsBlockingMutex` maps the labels of Mutex to the
phases out, parked and owner; an unlock takes effect at its last step on the
wait list, so until then the abstract owner is still the unlocker. `ImplementsRoundRobin` maps the pointers, statuses and slices
to `queue`, `running` and `asleep`. While main is both running and queued (boot)
it counts as running only. What the lock modules assume of the scheduler is
thereby a consequence of its code. Both refinements are proved as well
(section 4).

## 4. The proofs

| Theorem | Module | For every |
|---|---|---|
| `SchedTypeCorrect`, `ReadyListCorrect`, `OneRunningThread`, `SchedImplementsRoundRobin` | SchedProofs | finite set of threads, slice, and order of calls and ticks |
| `OnePlaceHolds` | RoundRobinProofs | set of threads and order of operations |
| `MutexTypeCorrect`, `SlockExclusionHolds`, `MutualExclusionHolds`, `WaitersLiveHolds`, `MutexImplementsBlockingMutex` | MutexProofs | set of threads, preempted anywhere |
| `SlockExclusionHolds`, `PermitsConservedHolds`, `WaitersLiveHolds` | SemaphoreProofs | set of threads, permits, number of interrupts |
| `SchedulerExclusiveHolds`, `FlagFollowsContextHolds` | InterruptsProofs | set of threads, vectors in any order |
| `WaitsItsTicksHolds`, `ShortByUnderTwoTicksHolds` | InterruptsProofs | width of the counter, length of a tick, request |
| `AcquireIsFirstFit`, `SearchIsFirstFitHolds` | MemoryProofs | fill and length of a bitmap, number of bits |
| `PoolsHoldExistingFrames`, `PoolBitmapsFit` | MemoryProofs | memory size from the reserved pages up |
| `RegionsDisjointHolds`, `PagesAccountedHolds`, `RegionsMappedHolds`, `FramesAccountedHolds` | MemoryProofs | set of threads, pages and frames |
| `HeapExclusion`, `HeapAccounts`, `HeapCounts` | MemoryProofs | set of threads, classes and pages, as long as `sys_free` reads back the class it locked |
| `ChannelAtRestHolds`, `TransferExactHolds` | DiskProofs | set of threads, drives, sectors, size of a command and calls |
| `EveryLayoutSound`, `LayoutsSoundHolds`, `BitmapTailHolds` | DiskProofs | usable partition size, sector and block size |
| `ScanInvariant`, `InodeNumbersDisjointHolds` | DiskProofs | drives, partition tables, and order of mounts, unmounts, formats and restarts |
| `ScanExactHolds` | DiskProofs | drives and tables with one right outcome (`OneOutcome`) |
| `FormattedUnlessCutHolds`, `FormatsOnlyBlankHolds` | DiskProofs | drives, tables, restarts and formats of what is unmounted |
| `DirectoryTracksMountsHolds` | DiskProofs | the same, and size of the root directory |
| `LockedApartHolds`, `ReportUninterruptedHolds` | ConsoleProofs | set of threads, screen, texts and report, panic on top of whatever runs |
| `ScreenShowsTextHolds` | ConsoleProofs | the same, with every way to print mixed |
| `NumbersWholeHolds` | ConsoleProofs | base up to 16, number of digits, number that fits |

*Lists.* With `Queues(l, S)` (the pointers form one doubly linked chain from
head to tail through exactly the elements of `S`) append, push and pop give the
chain with the element added or removed. The witness is an explicit sequence of
the elements, whose indices are shifted by hand. What `Walk` reads back, the
recursive `Items`, is that sequence (`ItemsIs`): a least place where they
differ would have a smaller one before it. The library's least-element theorem
(`WFMin`) takes no operator, so it can be cited where induction cannot.

*Scheduler.* The inductive invariant is `SchedInv == TypeOK /\ ReadyListSound
/\ OthersWait`. `ReadyListSound` alone is not inductive: when the list is empty
`schedule` unblocks the idle thread, which is right only if that thread is
then asleep. `OthersWait` says that no thread but the running one is RUNNING;
so on an empty list the idle thread is either asleep or the one that
calls. The lemmas follow `schedule`'s three parts (requeue, fall back, dispatch).
For the refinement the same three parts are followed on the sequence
(`RequeueItems`, `FallBackItems`, `ScheduleItems`), and `RoundRobinStep` maps
each operation to a start, a rotation, a sleep, a wake-up or a stutter of
RoundRobin. Boot is apart (`BootYieldStep`): main is on the list while it runs.

*RoundRobin.* `OnePlace`: a thread runs, or is in the queue once, or sleeps.
The proofs of the locks and of Interrupts use it under their own steps, each
of which is a step of RoundRobin (`NextOnScheduler`), for one fact: a thread
that sleeps or waits takes no step.

*Mutex.* `ExclusionInv` adds to exclusion that labels agree with the function a
thread is in, and that the owner a thread saw NULL is still NULL when it stores
itself, because it holds the spinlock. That part of the proof uses that a step is
taken by the running thread and nothing else of the scheduler, so it holds under
any. `WaitInv` adds `OnePlace`, what a waiter is doing while it is on the list,
and that `wakee` is set only between the unlink and the wake-up. `SeenInv` adds
that what a thread read of the owner under the spinlock stays true, which is
what maps each step of Mutex to one of BlockingMutex: `take` acquires, `park` and
`block` are the same, an unlock happens at `pop` or `wake`, the rest is unseen.

*Semaphore.* `HoldInv` is the exclusion of contexts, threads and handlers alike,
with the value between load and store (`RegAgrees`). `PermitInv` is about
cardinalities of sets that need not be within a finite set of threads: it carries
that the holders and the handlers under way are finite, as each step adds one
at most, and that interrupts which have not counted yet fit within `MaxIrq`.
`WaitInv` is as for the mutex, over contexts.

*Interrupts.* `FlagInv` describes a stack pair by pair: what may stand on what,
at which step of the lower frame, and which flag the upper one has saved
(`Over`, `Chain`). It also says at which steps a thread can have left the CPU
(`Left`): with interrupts off and outside of sections, or in the `page_free` of
an exit, where interrupts are off as well. A switch then finds on
the other stack a function that runs on with the flag off, whoever it comes from.

*Timer.* `TimerInv`: the difference of the counters is the ticks gone by, until
it wraps round; a sleep is ahead of its ticks by less than one; the
conversion loses less than one. Two of these make the bound of two ticks.

*Bitmap, pages.* `AcquireIsFirstFit` reads the running count of
`bitmap_acquire` as the distance to the last used bit (`CountIsBack`), again by
a least place where the two differ. Then the allocator in two layers.
`PageInv`: the marked pages are those of regions, of calls under way, and lost
ones, all apart. `FrameInv` adds how far each call has come through its pages
(`Passage`) and that a frame in use belongs to one live mapping or is in the
hand of one call (`Frames`); `pte` may still name a frame that was freed, hence
`Live`. The layout of the pools is arithmetic.

*Heap.* `HeapInv` says where each block of a page that is an arena is: on
the free list of its class, in a caller's hand, in a call that takes or returns it,
or not yet (or no longer) linked while an arena is split up (or taken apart), and
in one of these only; the count of the arena is then the length of a part of the free
list. All of this needs the exclusion inside a class, and that is broken by
`sys_free` (section 5), which reads the class it unlocks from a page it gave
back. So the theorems hold of behaviours where this read finds NULL or the
class it locked (`RereadsOwn`), and the exclusion is proved along with the
rest, not assumed. The kernel has seven classes, so its behaviours are not all
of this kind, and the theorems say nothing of the others.

*IDE channel.* `IdeInv` has three layers. `OneAtWork`: at most one thread is at
work on the channel; no drive can disturb this. `DataOK`: in a call the drive has
kept up with (`kept`), it is at the sector the data loop is at, and what was moved
is in the buffer or on the disk, or in the drive on its way there, up to the chunk
that replaces it. `Calm`: while no command was for several sectors (`calm`), the permits
in the semaphore and in the hands of handlers that wait are one at most, and none
where a thread has taken its own. The drive interrupts once per sector and the
driver waits once per command, so the third layer cannot go further; the second
can, since a drive that is ready in time gives the right data whatever the
permits say. The theorems have no condition on the size of a command.

*Layouts.* Arithmetic: with the bitmap's length computed from `all` blocks, the
sectors that remain hold at most `all`, so every block has a bit, and the last
one ends inside the partition. `Usable` states the two conditions the code does
not check: room for a block and a bitmap sector, and no overflow of the product
(partitions below 4 GB, as the product is a `uint32_t`). `BitmapTail` compares
`TailMarked`, the bits the loops of `fs_format` set, with what should be marked.

*Scan.* `ScanInv`: the call for the boot sector is the last of the stack and
alone has base 0; every other one is at a boot record of the table; names in
the list are below what the scan will give next (`Given`). `ScanExact` compares the
list with the path of a drive (`PathOf`), its boot sectors in the order of their links, taken from
the tables alone. `ExactInv`: the calls on the stack are the first boot sectors of the
path, in order, and all but the innermost have passed their link; so which
entries the scan is past can be read off the indices of the calls (`Past`), a return of a call
changes nothing of that, and the list and the counter agree with it. The
theorem asks `OneOutcome`: paths end, and a boot record has one logical
partition at most, and its link after it. The code would number the
partitions of other tables in another order, or not come back.

*Inode numbers.* `InodeInv` is about every partition that ever had a base, not
only the mounted ones, because a base outlives an unmount: their ranges are apart
and end at `inode_max`. The partition `fs_init` mounts has to be one that has a
base, so the invariant also says that `fs_init` goes through `ptn_list` as the
scan left it, which rests on the scan being over when it begins (`ScanKeeps`).

*Formats.* `DiskInv`: every place on a disk has the first k of the five things
`fs_format` writes, with k other than 0 and 5 only where a first format is at work
or was cut short. A format of what was unmounted writes over these: it is never
past k (`Again`) and ends with nothing missing, and a restart leaves what was there.
Places and not partitions, since a table can name a place twice.

*Root directory.* `RootInv`: the first entry with the name of a mounted partition
is live and its own, all others with that name are free (what an earlier
unmount left), and the size counts the live ones; `TurnInv`: `fs_init` meets
each partition once. Both rest on `ScanInv`, by which names tell partitions apart.

*Console.* `ApartInv` says that a thread past `mutex_lock` is in the owner field,
and one on the wait list is not yet in `put_str`. For the report of a panic,
`Gripped` adds that from its first line on the thread runs and finds neither
the spinlock nor the mutex taken, since nobody ran after it took them itself.
This holds because a panic on top of the thread's own use of the lock leaves it
taken for good (the first line then never gets it), because whoever is at no
call has not the lock (`RestOwnsNothing`), and because an unlock wakes without switching.

*Screen.* `ScreenShowsText` speaks of the moments when nobody is in `put_char`, so
it is far from inductive. `ScreenInv` says for each port access, cell and scroll
of `put_char` what the one thread inside has done: which half of the cursor
it has read into `bx`, which cells the scroll has moved, how far the screen is
behind the roll (`Phase`). It ends for good when two threads meet there
(`garbled`). Arithmetic of rows (`RowOf`, `NextRow`, `TopOf`) connects the
cell a line feed goes to with the place on the roll.

*Numbers.* `NumberInv` follows the digits of a number whose thread is alone in
`put_int`: the buffer from `edi` on holds what the divisions left, a zero is
skipped only when nothing is left above it, and what is shown is the rest in
order. That this adds up to the number (`DigitsAreNumber`) is a claim about
the recursive `ValueOf`; `LeastOf`, a set of naturals has a least element,
stands in for the induction over the digits.

**Assumed.** The ASSUMEs of the modules on their constants, which TLC evaluates in
every run: sentinels are not threads, texts hold characters and no marks of the model, idle and main are different threads, sizes
are not zero, numbers fit in their digits, memory covers the reserved pages and is below the 4 GB address
space, the drives of the scan are different ones. Two are about data the code
takes as it finds them. `TablesAssumption`: tables are as a partitioning tool
leaves them, with one extended partition at most and with links of boot records
to boot records only (`WellLinked`); the scan itself checks nothing. `ScanExactHolds` has a
hypothesis of its own, `OneOutcome`, which the run's tables meet (`MCFileSystem` assumes it).
`FsAssumption`: partitions are `Usable`, and the root directory has room for its
own two entries.

**Only model-checked.** Liveness, which needs fairness: `NoStarvation`,
`UnlockCompletes`, `SpinlockFreed`, `ChannelReleased`, `TickDelivered`. What a
recursive definition computes for every input: `LibraryRight` (Strings and
Stdio are RECURSIVE operators).

## 5. Where code and comments disagree

With a run that shows it (`findings` in `PROJECT.json`):

* `thread.c:173`: `kthread_exit` removes a node that is on no list
  (`sched_exit_others`). The ready list survives in the shipped kernel.
* `lock.c:124-125`: wake-up lost between `spin_unlock` and `kthread_block`
  (`mutex_lost`). `sema_down` has the same gap (`lock.c:184-185`).
* `memory.c:657`: `sys_free` uses the arena after freeing it (`heap_shared`).
  Where two threads are inside one class, counts and lists of that class break
  too, so the property run of the heap has one class.
* `memory.c:171`: a refused fixed-address request leaves pages marked
  (`PagesAccounted` holds with these counted as lost). `memory.c:318`: so does a
  request the frames run out for, and the frames it had mapped stay in use with
  them (`FramesAccounted` counts them as leaked, apart from live mappings).
* `ide.c:427`, `ide.c:485`: every chunk of a long transfer addresses the first
  chunk's sectors (`TransferExact` states what the code does instead).
* `fs.c:192`, `fs.c:194`: the tail of the block bitmap is one bit short, and
  spills over the buffer when blocks fill the bitmap (`BitmapTail`).
* `fs.c:156`: a restart after the first write leaves a partition that passes
  for formatted (`FormattedUnlessCut` excepts exactly these).

* `ide.c:433`, `ide.c:500`: one `sema_down` per command, one interrupt per sector.
  A command of several sectors can leave permits behind, moves its further sectors
  without looking at the status, and may hand on a channel whose drive is at work.
  The drive then ignores the next command, and the poll for DRQ of that call may
  never end. `fs.c:198` and `fs.c:254` give such commands, and `ide.c:420` up to 256
  sectors. The run has commands of two: `ChannelAtRest` and `ChannelReleased`
  hold up to the first of them (`calm`), `TransferExact` for the calls that the drive
  has kept up with (`kept`), and none of the three without its exception.
* `assert.c:9`: a failed assertion does not stop the machine while `printk_lock` is
  taken (`ReportUninterrupted` starts when the thread has the lock). If the
  assertion of `timer.c:80` fails on top of a thread that has the lock, or is in
  the section of its spinlock, the report never begins and the others run on.
* `print.s:189`: two threads in `put_int` mix their digits (`NumbersWhole`
  excepts them).
* `string.c:125`, `:147`, `:187`: characters from 128 on are never found, as a
  signed char is compared with an unsigned one (`SearchesRight`).

Without one:

* `print.s:78`: a backspace in the first cell moves the cursor to cell 0x7FFF,
  where it writes and from where it goes on (`garbled` counts it as the end of
  what is followed).
* `printk.c:13`: the text of a `printk` is formatted into 1024 bytes without a
  bound; `printk.h:8` asks the callers to keep to it.
* `lock.c:193`: `ide_handler`'s `sema_up` can meet a spinlock that its own
  interrupted thread holds. With no other thread ready it yields to itself for
  ever with interrupts off; with others, the section stays held. In a channel it
  keeps the transfer from ever ending, and so does the lost wake-up of
  `lock.c:184-185` (`ChannelReleased` excepts both, `Lost` and "stuck").
* `thread.c:178`: an exiting thread other than main frees the page of its PCB and
  stack between cli and sti, and may be switched out in the mutexes of the pools
  (`SchedulerExclusive` and `TickDelivered` except it). Only main exits (`main.c:15`).
* `thread.h:148`, `thread.c:88`: the idle thread is said to run only when
  nothing else is ready; it is queued at boot like any other, and gets a turn.
* `memory.c:282`: `invlpg` gets the address of the local variable, so the
  translation of the removed page may stay cached.
* `memory.c:454`: the heap's bitmap has bits for 256 pages past 4 GB.
* `fs.c:87`: clears 4096 bytes of a directory of 240. `fs.c:287`: a ninth
  partition stops the kernel (`DirectoryTracksMounts`). `fs.c:174`: one sector of the inode table is
  written. `fs.c:246`: the inode bitmap is read through the block bitmap's
  pointer.
* `timer.h:97`, `:107`, `:109-110`: sleeps last "at least" the time asked and
  round up; they may be short by under two ticks (`ShortByUnderTwoTicks`), and
  a `usleep` below a tick does not wait.

## 6. Not modelled

Boot (straight-line code whose results are the initial states), the bytes of
the IDT and the PIC's command words, exception handlers (an endless loop), the
dispatch of system calls (a table of test stubs), port wrappers, and the test
programs but for the unmount, format and mount of `test_fs`. In modelled parts:
the user's page pool (same code as the kernel's), the TLB, what happens to an
exiting thread after `page_free` has taken its stack, what `fs_mount` loads into
memory and leaks at each mount, the memset of `root_dir_init` (section 5), a sector
write that a power loss tears, drives that never answer, colours of the screen and
carriage returns (handled like line feeds), and the 1024 bytes of `printk`.
Interrupts has no `kernel_panic`, whose cli ends in an endless loop (Console has
it), and no exceptions: `FlagFollowsContext` and `TickDelivered` are about a kernel
that has not stopped. IdeChannel has the mutex as one step, and one channel; the
transfers by which the boot thread reads partition tables between the two
identifications are PartitionScan's. The partition scan is
followed on tables whose chains of boot records end; it reads a sector in one
step, and types other than 0 and 5 are one. What a format writes is a mark
per part: all files of a partition are the same, as nothing in the code creates one.

## 7. Plan

Done: scheduler, locks, memory, IDE, file system, timer, interrupts, with the
proofs of section 4; then the partition scan under the file system, the
console with panics and its library, the abstract mutex, liveness of the
semaphore's spinlock, and the proofs of heap, channel, scan, screen and numbers. Next:

1. threads and pages composed: `kthread_create` without a page, `kthread_exit`
   freeing the stack it runs on;
2. an abstract semaphore that Semaphore implements, and IdeChannel on it.
