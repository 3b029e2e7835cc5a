------------------------------ MODULE IdeChannel ------------------------------
(***************************************************************************)
(* One IDE channel of kernel/src/ide.c: identification at boot, then        *)
(* ide_read and ide_write by any number of threads, with the drives they    *)
(* talk to.                                                                *)
(*                                                                         *)
(* The drives are hardware: how they answer is modelled from the ports the  *)
(* code reads and writes.  A drive moves one sector at a time, raises its   *)
(* interrupt for every sector but the first of a write, and ignores a       *)
(* command while it works on another.  The interrupt is an edge: it comes   *)
(* again only after the status or the command port was used.  Interrupts    *)
(* are enabled in these functions, so ide_handler runs when it is raised,   *)
(* on the stack of whatever thread runs.  sema_down is the three steps an   *)
(* interrupt can fall between; the mutex is one step (see Mutex).           *)
(***************************************************************************)
EXTENDS Integers, Sequences

CONSTANTS
    Thread,
    Present, \* the drives that exist, of 0 and 1
    Sectors, \* of a drive
    Chunk,   \* sectors of one command, 256
    MaxCnt,  \* the most sectors of one call
    MaxCalls, \* bound on the calls
    NULL

ASSUME IdeAssumption ==
    /\ Present \subseteq {0, 1} /\ NULL \notin Thread
    /\ Sectors \in Nat \ {0} /\ Chunk \in Nat \ {0} /\ MaxCnt \in 1..Sectors /\ MaxCalls \in Nat

VARIABLES
    owner,     \* ch->mlock.owner
    sema,      \* ch->sema.count
    wait_list, \* the threads of the waiters on ch->sema.wait_list
    down,      \* how far each thread is in sema_down
    late,      \* the handlers that wait for ch->sema.slock on other threads' stacks
    valid,     \* hd->valid of the two drives
    call,      \* what each thread does in a function of the driver
    drive,     \* the drive at work
    intr,      \* its interrupt line
    media,     \* the sectors of each drive
    calls,     \* the calls made, for the bound
    kept,      \* history: the call at work found the channel at rest, and the
               \* drive has taken its commands and had its sectors when asked
    calm       \* history: no command of several sectors was given since the
               \* channel was at rest

semavars == <<sema, wait_list, down, late>>
history == <<calls, kept, calm>>
idevars == <<owner, semavars, valid, call, drive, intr, media, history>>

Dev == {0, 1}
Sector == 0..(Sectors - 1)
\* What a sector may hold: nothing yet, or sector i of a call of thread t.
Blank == <<NULL, 0>>
\* What the data port gives when the drive has nothing for it.
Junk == <<NULL, 1>>

\* The arguments and locals of a call: sec counts the sectors moved by the data
\* loop of a chunk, buf is the caller's buffer.
NotCalling == [pc |-> "idle", op |-> "read", hd |-> 0, lba |-> 0, cnt |-> 0,
               cnt_done |-> 0, cnt_each |-> 0, sec |-> 0, buf |-> <<>>]
Identifying == [NotCalling EXCEPT !.pc = "identify"]
Transfer(t, op, hd, lba, cnt) ==
    [NotCalling EXCEPT !.pc = "lock", !.op = op, !.hd = hd, !.lba = lba, !.cnt = cnt,
                       !.buf = [i \in 1..cnt |-> IF op = "read" THEN Blank ELSE <<t, i>>]]

Goto(t, from, to) == call[t].pc = from /\ call' = [call EXCEPT ![t].pc = to]

\* The drive's registers; in holds a sector it has been given and not stored.
DriveIdle == [stat |-> "ready", cmd |-> "none", hd |-> 0, at |-> 0, left |-> 0, in |-> <<>>]

\* mutex_init, sema_init(&sema, 0); the thread that boots identifies the drives.
IdeInit ==
    /\ owner = NULL /\ sema = 0 /\ wait_list = <<>> /\ late = 0
    /\ down = [t \in Thread |-> "call"]
    /\ calls = 0 /\ kept = FALSE /\ calm = TRUE
    /\ valid = [d \in Dev |-> FALSE]
    /\ \E boot \in Thread :
          call = [t \in Thread |-> IF t = boot THEN Identifying ELSE NotCalling]
    /\ drive = DriveIdle
    /\ intr = FALSE
    /\ media = [d \in Dev |-> [s \in Sector |-> Blank]]

IdSteps == {"identify", "id_poll", "id_down", "id_data"}
Booted == \A t \in Thread : call[t].pc \notin IdSteps

-----------------------------------------------------------------------------
(* sema_down and sema_up of the channel's semaphore.                        *)

\* Some thread holds ch->sema.slock; "stuck" is a thread that does and has a
\* handler on its stack that waits for it.
SlockHeld == \E t \in Thread : down[t] \in {"section", "stuck"}

\* spin_lock(&sema->slock)
SemaEnter(t) ==
    /\ call[t].pc \in {"down", "id_down"} /\ down[t] = "call" /\ ~SlockHeld
    /\ down' = [down EXCEPT ![t] = "section"]
    /\ UNCHANGED <<owner, sema, wait_list, late, valid, call, drive, intr, media, history>>

\* A permit: count--, spin_unlock, and the caller goes on.
SemaTake(t) ==
    /\ down[t] = "section" /\ sema > 0
    /\ sema' = sema - 1
    /\ down' = [down EXCEPT ![t] = "call"]
    /\ UNCHANGED <<wait_list, late>>

\* No permit: list_append, spin_unlock.
SemaPark(t) ==
    /\ down[t] = "section" /\ sema = 0
    /\ wait_list' = Append(wait_list, t)
    /\ down' = [down EXCEPT ![t] = "parked"]
    /\ UNCHANGED <<owner, sema, late, valid, call, drive, intr, media, history>>

\* kthread_block, whether the waiter is still on the list or not.
SemaBlock(t) ==
    /\ down[t] = "parked"
    /\ down' = [down EXCEPT ![t] = "asleep"]
    /\ UNCHANGED <<owner, sema, wait_list, late, valid, call, drive, intr, media, history>>

\* count++, list_pop, and kthread_unblock, which wakes only who sleeps.
sema_up ==
    /\ sema' = sema + 1
    /\ IF wait_list = <<>> THEN UNCHANGED <<wait_list, down>>
       ELSE /\ wait_list' = Tail(wait_list)
            /\ down' = IF down[Head(wait_list)] = "asleep"
                       THEN [down EXCEPT ![Head(wait_list)] = "call"] ELSE down

-----------------------------------------------------------------------------
(* The drives and ide_handler.                                             *)

\* ide_handler ups the semaphore.  If its spinlock is held, the handler waits for
\* it: for ever on the stack of the holder, which it keeps from going on, or on
\* another's, until the spinlock is free.
ide_handler ==
    IF ~SlockHeld THEN sema_up /\ UNCHANGED late
    ELSE /\ UNCHANGED <<sema, wait_list>>
         /\ \/ late' = late + 1 /\ UNCHANGED down
            \/ /\ \E t \in Thread : down[t] = "section" /\ down' = [down EXCEPT ![t] = "stuck"]
               /\ UNCHANGED late

\* A handler that waited.
LateUp ==
    /\ late > 0 /\ ~SlockHeld
    /\ sema_up
    /\ late' = late - 1
    /\ UNCHANGED <<owner, valid, call, drive, intr, media, history>>

\* An edge of the line runs the handler.
Raise ==
    /\ intr' = TRUE
    /\ IF intr THEN UNCHANGED semavars ELSE ide_handler

\* The drive takes a command unless it is at work on one.
Command(cmd, hd, lba, cnt) ==
    IF hd \in Present /\ drive.stat = "ready"
    THEN /\ drive' = [stat |-> "BSY", cmd |-> cmd, hd |-> hd, at |-> lba, left |-> cnt, in |-> <<>>]
         /\ intr' = FALSE
    ELSE UNCHANGED <<drive, intr>>

\* A sector is in the drive's buffer, or there is room for the first one.
DriveReady ==
    /\ drive.stat = "BSY" /\ drive.in = <<>>
    /\ drive' = [drive EXCEPT !.stat = "DRQ"]
    /\ IF drive.cmd = "write" THEN UNCHANGED <<semavars, intr>> ELSE Raise
    /\ UNCHANGED <<owner, valid, call, media, history>>

\* The sector in the buffer is on the disk.
DriveStores ==
    /\ drive.stat = "BSY" /\ drive.in # <<>>
    /\ media' = [media EXCEPT ![drive.hd][drive.at] = drive.in]
    /\ drive' = IF drive.left = 1 THEN DriveIdle
                ELSE [drive EXCEPT !.stat = "DRQ", !.at = @ + 1, !.left = @ - 1, !.in = <<>>]
    /\ Raise
    /\ UNCHANGED <<owner, valid, call, history>>

\* What the data port gives, and the drive after it was read or written.
PortOut == IF drive.stat = "DRQ" /\ drive.cmd # "write" THEN media[drive.hd][drive.at] ELSE Junk
AfterRead ==
    IF drive.stat # "DRQ" \/ drive.cmd = "write" THEN drive
    ELSE IF drive.left = 1 THEN DriveIdle
    ELSE [drive EXCEPT !.stat = "BSY", !.at = @ + 1, !.left = @ - 1]
AfterWrite(data) ==
    IF drive.stat = "DRQ" /\ drive.cmd = "write"
    THEN [drive EXCEPT !.stat = "BSY", !.in = data]
    ELSE drive

-----------------------------------------------------------------------------
(* ide_get_identify, of drive 0 and then of drive 1.                        *)

\* The next drive, or the end of the channel's part of ide_ch_init.
AfterIdentify(hd) == IF hd = 0 THEN [Identifying EXCEPT !.hd = 1] ELSE NotCalling

\* ide_set_drive, ide_set_cmd(hd, CMD_IDENTIFY)
Identify(t) ==
    /\ Goto(t, "identify", "id_poll")
    /\ Command("identify", call[t].hd, 0, 1)
    /\ UNCHANGED <<owner, semavars, valid, media, history>>

\* msleep(10) and the status, until BSY is clear: 0 says there is no drive.
IdentifyPoll(t) ==
    LET hd == call[t].hd
    IN  /\ call[t].pc = "id_poll"
        /\ call' = [call EXCEPT ![t] = IF hd \notin Present THEN AfterIdentify(hd)
                                       ELSE IF drive.stat = "BSY" THEN @
                                       ELSE [@ EXCEPT !.pc = "id_down"]]
        /\ intr' = FALSE
        /\ UNCHANGED <<owner, semavars, valid, drive, media, history>>

\* sema_down(&hd->ch->sema), the end of it
IdentifyDown(t) ==
    /\ SemaTake(t)
    /\ Goto(t, "id_down", "id_data")
    /\ UNCHANGED <<owner, valid, drive, intr, media, history>>

IdentifyData(t) ==
    /\ call[t].pc = "id_data"
    /\ drive' = AfterRead
    /\ valid' = [valid EXCEPT ![call[t].hd] = TRUE]
    /\ call' = [call EXCEPT ![t] = AfterIdentify(@.hd)]
    /\ UNCHANGED <<owner, semavars, intr, media, history>>

-----------------------------------------------------------------------------
(* ide_read and ide_write                                                  *)

Start(t, op, hd, lba, cnt) ==
    /\ Booted /\ valid[hd] /\ call[t].pc = "idle"
    /\ lba + cnt <= Sectors /\ calls < MaxCalls
    /\ call' = [call EXCEPT ![t] = Transfer(t, op, hd, lba, cnt)]
    /\ calls' = calls + 1
    /\ UNCHANGED <<owner, semavars, valid, drive, intr, media, kept, calm>>

\* The drive is at no command, and no interrupt of an old one is left over.
AtRest == drive.stat = "ready" /\ sema = 0 /\ late = 0

MutLockIgnored(t) ==
    /\ owner' = t
    /\ Goto(t, "lock", "chunk")
    /\ kept' = AtRest /\ calm' = (calm \/ AtRest)
    /\ UNCHANGED <<semavars, valid, drive, intr, media, calls>>

\* mutex_lock(&hd->ch->mlock), ide_set_drive
Lock(t) ==
    /\ owner = NULL /\ owner' = t
    /\ Goto(t, "lock", "chunk")
    /\ kept' = AtRest /\ calm' = (calm \/ AtRest)
    /\ UNCHANGED <<semavars, valid, drive, intr, media, calls>>

\* ide_set_lba: 256 sectors are asked for as 0, and the drive takes 0 as 256.
SectorCount(cnt) == IF cnt >= Chunk THEN 0 ELSE cnt
Decoded(reg) == IF reg = 0 THEN Chunk ELSE reg

\* A round of the loop: at most 256 sectors, from lba.
ChunkStart(t) ==
    LET c == call[t]
        each == IF c.cnt - c.cnt_done >= Chunk THEN Chunk ELSE c.cnt - c.cnt_done
    IN  /\ c.pc = "chunk" /\ c.cnt_done < c.cnt
        /\ call' = [call EXCEPT ![t].pc = IF c.op = "read" THEN "down" ELSE "poll",
                                ![t].cnt_each = each, ![t].sec = 0]
        /\ Command(c.op, c.hd, c.lba, Decoded(SectorCount(each)))
        /\ kept' = (kept /\ drive.stat = "ready") /\ calm' = (calm /\ each = 1)
        /\ UNCHANGED <<owner, semavars, valid, media, calls>>

\* The permit is there: the data of a read comes next, a write has sent its own.
AfterDown(c) == IF c.op = "read" THEN [c EXCEPT !.pc = "poll"]
                ELSE [c EXCEPT !.pc = "chunk", !.cnt_done = @ + c.cnt_each]

MutDownNoWait(t) ==
    /\ call[t].pc = "down" /\ down[t] = "section"
    /\ sema' = IF sema > 0 THEN sema - 1 ELSE 0
    /\ down' = [down EXCEPT ![t] = "call"]
    /\ call' = [call EXCEPT ![t] = AfterDown(@)]
    /\ UNCHANGED <<owner, wait_list, late, valid, drive, intr, media, history>>

\* The end of sema_down: before the data of a read, after the data of a write.
Down(t) ==
    /\ call[t].pc = "down"
    /\ SemaTake(t)
    /\ call' = [call EXCEPT ![t] = AfterDown(@)]
    /\ UNCHANGED <<owner, valid, drive, intr, media, history>>

MutPollUntilClear(t) ==
    /\ call[t].pc = "poll"
    /\ call' = [call EXCEPT ![t].pc = IF drive.stat = "ready" THEN "data" ELSE "poll"]
    /\ intr' = FALSE
    /\ UNCHANGED <<owner, semavars, valid, drive, media, history>>

\* while ((stat & STAT_BSY) || !(stat & STAT_DRQ)); each look at the status
\* lowers the interrupt line.
Poll(t) ==
    /\ call[t].pc = "poll"
    /\ call' = [call EXCEPT ![t].pc = IF drive.stat = "DRQ" THEN "data" ELSE "poll"]
    /\ intr' = FALSE
    /\ UNCHANGED <<owner, semavars, valid, drive, media, history>>

\* One sector of ide_get_data or ide_set_data: the drive is not asked again
\* before the next one.
MoveSector(t) ==
    LET c == call[t]
        i == c.cnt_done + c.sec + 1
        last == c.sec + 1 = c.cnt_each
    IN  /\ c.pc = "data"
        /\ IF c.op = "read"
           THEN /\ drive' = AfterRead
                /\ call' = [call EXCEPT ![t].buf[i] = PortOut,
                                        ![t].pc = IF last THEN "chunk" ELSE "data",
                                        ![t].cnt_done = IF last THEN @ + c.cnt_each ELSE @,
                                        ![t].sec = @ + 1]
           ELSE /\ drive' = AfterWrite(c.buf[i])
                /\ call' = [call EXCEPT ![t].pc = IF last THEN "down" ELSE "data", ![t].sec = @ + 1]
        /\ kept' = (kept /\ drive.stat = "DRQ")
        /\ UNCHANGED <<owner, semavars, valid, intr, media, calls, calm>>

\* The loop is done: mutex_unlock.
Unlock(t) ==
    /\ call[t].pc = "chunk" /\ call[t].cnt_done >= call[t].cnt
    /\ owner' = NULL
    /\ call' = [call EXCEPT ![t] = NotCalling]
    /\ UNCHANGED <<semavars, valid, drive, intr, media, history>>

-----------------------------------------------------------------------------
Waiting(t) == SemaEnter(t) \/ SemaPark(t) \/ SemaBlock(t)
Identification(t) == Identify(t) \/ IdentifyPoll(t) \/ IdentifyDown(t) \/ IdentifyData(t)
Inside(t) == ChunkStart(t) \/ Down(t) \/ Poll(t) \/ MoveSector(t) \/ Unlock(t)
Drives == DriveReady \/ DriveStores \/ LateUp

IdeNext ==
    \/ \E t \in Thread :
          \/ Waiting(t) \/ Identification(t)
          \/ \E op \in {"read", "write"}, hd \in Dev, lba \in Sector, cnt \in 1..MaxCnt :
                Start(t, op, hd, lba, cnt)
          \/ Lock(t) \/ Inside(t)
    \/ Drives

IdeSpec == IdeInit /\ [][IdeNext]_idevars

\* A drive answers, and a thread that holds the channel gets to run.
FairSpec ==
    /\ IdeSpec
    /\ WF_idevars(Drives)
    /\ \A t \in Thread : WF_idevars(Waiting(t) \/ Identification(t) \/ Inside(t))

-----------------------------------------------------------------------------
(* Properties.                                                             *)

Contents == {Blank, Junk} \cup (Thread \X (1..MaxCnt))

TypeOK ==
    /\ owner \in Thread \cup {NULL}
    /\ sema \in Nat /\ late \in Nat /\ wait_list \in Seq(Thread)
    /\ down \in [Thread -> {"call", "section", "parked", "asleep", "stuck"}]
    /\ valid \in [Dev -> BOOLEAN]
    /\ media \in [Dev -> [Sector -> Contents \ {Junk}]]
    /\ drive.stat \in {"ready", "BSY", "DRQ"} /\ drive.at \in Sector
    /\ \A t \in Thread : call[t].buf \in Seq(Contents) /\ call[t].cnt_done <= call[t].cnt

Done(t) == call[t].pc = "chunk" /\ call[t].cnt_done = call[t].cnt

\* What a sector holds, or is about to: the drive may still have to store it.
Stored(hd, s) == IF drive.in # <<>> /\ drive.hd = hd /\ drive.at = s THEN drive.in ELSE media[hd][s]

\* ide.h:106, ide.h:116: when ide_read has its data the buffer holds the
\* sectors from lba, when ide_write is done those sectors hold the buffer,
\* whatever others do with the channel: if the channel was at rest when the call
\* got it and the drive kept up with it, since nothing asks the drive between
\* the sectors of a command.  Every further chunk of a call is one
\* of the same sectors (ide.c:427, ide.c:485): it reads them again, or
\* replaces what the chunk before it wrote.
TransferExact ==
    \A t \in Thread : Done(t) /\ kept =>
        LET c == call[t]
            sector(i) == c.lba + ((i - 1) % Chunk)
        IN  \A i \in 1..c.cnt :
                c.op = "read" \/ i + Chunk > c.cnt => c.buf[i] = Stored(c.hd, sector(i))

\* ide.c:397-400, ide.c:455-456: a transfer waits for the interrupt that says
\* it is complete.  So the channel is handed on with its drive at rest and no
\* interrupt of an old transfer left in the semaphore, up to the first command
\* of several sectors: there is one wait for a command and an interrupt for
\* each of its sectors (ide.c:433, ide.c:500).  After one, a call of one-sector
\* commands that happens to find the channel at rest again leaves it so.
ChannelAtRest ==
    /\ TypeOK
    /\ \A t \in Thread : calm /\ (Done(t) \/ (Booted /\ owner = NULL)) => AtRest

\* The wake-up came between spin_unlock and kthread_block (lock.c:184-185): the
\* thread sleeps, and nobody knows of it.
Lost(t) == down[t] = "asleep" /\ \A i \in DOMAIN wait_list : wait_list[i] # t

\* Whoever holds the channel lets go of it: the semaphore and the status agree
\* with what the drive does, up to the first command of several sectors.  Only a
\* wake-up that is lost, or an interrupt inside the semaphore's section of the
\* thread it interrupts (lock.c:193), keeps the channel for ever.
ChannelReleased ==
    \A t \in Thread : (owner = t /\ calm) ~> (owner # t \/ ~calm \/ Lost(t) \/ down[t] = "stuck")
=============================================================================
