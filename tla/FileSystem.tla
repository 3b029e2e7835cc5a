------------------------------ MODULE FileSystem ------------------------------
(***************************************************************************)
(* kernel/src/fs.c: at boot, after the scan of the partition tables,        *)
(* fs_init formats the partitions that have no magic number and mounts all  *)
(* of them in the root directory; then the thread that uses the file system *)
(* unmounts, formats again and mounts, as test_fs does.  The machine may    *)
(* stop between any two writes to the disk and boot again: what is in       *)
(* memory is gone, what is on the disk stays.                               *)
(***************************************************************************)
EXTENDS FsLayout, PartitionScan

CONSTANTS
    ROOT_DIR_MAX, \* entries of root_blk
    MaxReboots    \* bound: restarts of the machine

\* Every partition has a size for which the arithmetic of fs_format is exact.
ASSUME FsAssumption ==
    /\ \A tables \in Disks : \A d \in DOMAIN tables : \A lba \in DOMAIN tables[d] : \A i \in 1..4 :
          LET e == tables[d][lba][i] IN e.type \notin {0, EXTENDED} => Usable(e.sec_cnt)
    /\ ROOT_DIR_MAX \in Nat /\ ROOT_DIR_MAX >= 2
    /\ MaxReboots \in Nat

VARIABLES
    disk,       \* the parts of a file system that are on the drives, by place
    started,    \* fs_init has begun
    unread,     \* the partitions it has still to mount
    format,     \* the partition fs_format is at work on and the parts it has
                \* written, or <<>>
    root_blk,   \* the entries of the root directory
    i_size,     \* root_dir.inode->i_size, in entries
    inode_base, \* ptn->inode_base
    inode_max,  \* the static of fs_mount
    panicked,   \* the assertion at the end of fs_mount has failed
    mounted,    \* history: the partitions that are mounted
    cut,        \* history: those whose first format a restart cut short, and
                \* that were not formatted since
    reboots     \* how often the machine has restarted

diskvars == <<disk, cut, reboots>>
ramvars == <<root_blk, i_size, inode_base, inode_max, panicked, mounted>>
bootvars == <<started, unread, format>>
vars == <<scanvars, diskvars, bootvars, ramvars>>

Dirent(name, i_no, f_type) == [filename |-> name, i_no |-> i_no, f_type |-> f_type]
Slots == 1..ROOT_DIR_MAX

\* The elements of ptn_list, and where one is.
Ptn == Range(ptn_list)
Place(p) == <<p.name[1], p.start_lba>>

\* ".", ".." and an entry that was never used have the name of no partition.
NoName == <<>>
EmptyRoot == [i \in Slots |-> Dirent(NoName, 0, IF i <= 2 THEN "FT_DIR" ELSE "FT_UNKNOWN")]

Init ==
    /\ ScanInit
    /\ disk = {}
    /\ started = FALSE /\ unread = <<>> /\ format = <<>>
    /\ root_blk = EmptyRoot /\ i_size = 2
    /\ inode_base = [p \in {} |-> 0] /\ inode_max = 0
    /\ panicked = FALSE /\ mounted = {}
    /\ cut = {} /\ reboots = 0

-----------------------------------------------------------------------------
(* fs_format                                                               *)

MutParts == <<"super", "inode_btmp", "inode_table", "blk_btmp">>

\* What fs_format writes, in its order.  Of the inode table and of the root
\* directory's block it writes the first sector.
Parts == <<"super", "inode_btmp", "inode_table", "blk_btmp", "root">>

Written(p) == {part \in Range(Parts) : <<Place(p), part>> \in disk}

MutHasMagic(p) == "root" \in Written(p)

\* FS_MAGIC is in the super block.
HasMagic(p) == "super" \in Written(p)

\* One ide_write, of the next part.  What an earlier format wrote is there until
\* it is written over.
fs_format ==
    LET p == format[1]
        n == format[2] + 1
    IN  /\ format # <<>>
        /\ disk' = disk \cup {<<Place(p), Parts[n]>>}
        /\ format' = IF n < Len(Parts) THEN <<p, n>> ELSE <<>>
        /\ cut' = IF n < Len(Parts) THEN cut ELSE cut \ {Place(p)}
        /\ UNCHANGED <<scanvars, reboots, started, unread, ramvars>>

-----------------------------------------------------------------------------
(* fs_mount and fs_unmount                                                 *)

MutAssignBaseSame(p) ==
    IF inode_base[p] = 0
    THEN /\ inode_base' = [inode_base EXCEPT ![p] = inode_max + 1]
         /\ UNCHANGED inode_max
    ELSE UNCHANGED <<inode_base, inode_max>>

MutAssignBaseAlways(p) ==
    /\ inode_base' = [inode_base EXCEPT ![p] = inode_max + 1]
    /\ inode_max' = IF inode_base[p] = 0 THEN inode_max + inode_cnt ELSE inode_max

\* A partition gets its range of inode numbers once; 0 is the root's.
AssignBase(p) ==
    IF inode_base[p] = 0
    THEN /\ inode_base' = [inode_base EXCEPT ![p] = inode_max + 1]
         /\ inode_max' = inode_max + inode_cnt
    ELSE UNCHANGED <<inode_base, inode_max>>

\* The first entry of unknown type becomes the partition's; without one the
\* assertion of fs.c:287 stops the kernel.
Mount(p) ==
    LET free == {i \in Slots : root_blk[i].f_type = "FT_UNKNOWN"}
    IN  /\ AssignBase(p)
        /\ IF free = {}
           THEN panicked' = TRUE /\ UNCHANGED <<root_blk, i_size, mounted>>
           ELSE /\ root_blk' = [root_blk EXCEPT ![Min(free)] = Dirent(p.name, inode_base'[p], "FT_DIR")]
                /\ i_size' = i_size + 1
                /\ mounted' = mounted \cup {p}
                /\ UNCHANGED panicked

\* root_dir_init: "." and ".." are slots 1 and 2.  The structures of the
\* partitions are zeroed memory, so their inode numbers start at 0.
root_dir_init ==
    /\ ScanDone /\ ~started
    /\ started' = TRUE /\ unread' = ptn_list
    /\ root_blk' = EmptyRoot /\ i_size' = 2
    /\ inode_base' = [p \in Ptn |-> 0]
    /\ UNCHANGED <<scanvars, diskvars, format, inode_max, panicked, mounted>>

\* One round of fs_init: a partition without the magic number is formatted,
\* one with it, or just formatted, is mounted.
fs_init ==
    /\ unread # <<>> /\ format = <<>> /\ ~panicked
    /\ IF HasMagic(Head(unread))
       THEN Mount(Head(unread)) /\ unread' = Tail(unread) /\ UNCHANGED format
       ELSE format' = <<Head(unread), 0>> /\ UNCHANGED <<unread, ramvars>>
    /\ UNCHANGED <<scanvars, diskvars, started>>

\* fs_init has returned, and so has what was called after it.
Ready == started /\ unread = <<>> /\ format = <<>> /\ ~panicked

\* test_fs formats what it has unmounted (test_fs.c:26-27).
FormatAgain(p) ==
    /\ Ready /\ p \notin mounted
    /\ format' = <<p, 0>>
    /\ UNCHANGED <<scanvars, diskvars, started, unread, ramvars>>

\* What was unmounted is mounted again (test_fs.c:28).
fs_mount(p) ==
    /\ Ready /\ p \notin mounted
    /\ Mount(p)
    /\ UNCHANGED <<scanvars, diskvars, bootvars>>

MutUnmountLast(p) ==
    LET found == {i \in Slots : root_blk[i].filename = p.name}
    IN  /\ Ready /\ p \in mounted
        /\ root_blk' = [root_blk EXCEPT ![Max(found)].f_type = "FT_UNKNOWN"]
        /\ i_size' = i_size - 1
        /\ mounted' = mounted \ {p}
        /\ UNCHANGED <<scanvars, diskvars, bootvars, inode_base, inode_max, panicked>>

\* The first entry with the partition's name, whatever its type, is the one
\* that goes; the name stays in it.
fs_unmount(p) ==
    LET found == {i \in Slots : root_blk[i].filename = p.name}
    IN  /\ Ready /\ p \in mounted
        /\ root_blk' = [root_blk EXCEPT ![Min(found)].f_type = "FT_UNKNOWN"]
        /\ i_size' = i_size - 1
        /\ mounted' = mounted \ {p}
        /\ UNCHANGED <<scanvars, diskvars, bootvars, inode_base, inode_max, panicked>>

\* A power loss or reset, and the boot that follows.  A format of fs_init that
\* has begun to write is a first one.
Reboot ==
    /\ reboots < MaxReboots /\ reboots' = reboots + 1
    /\ cut' = IF format # <<>> /\ unread # <<>> /\ format[2] > 0
              THEN cut \cup {Place(format[1])} ELSE cut
    /\ hd' = 0 /\ stack' = <<>> /\ ptn_nr' = 0 /\ ptn_list' = <<>>
    /\ started' = FALSE /\ unread' = <<>> /\ format' = <<>>
    /\ root_blk' = EmptyRoot /\ i_size' = 2
    /\ inode_base' = [p \in {} |-> 0] /\ inode_max' = 0
    /\ panicked' = FALSE /\ mounted' = {}
    /\ UNCHANGED <<bs, disk>>

Next ==
    \/ Scan /\ UNCHANGED <<diskvars, bootvars, ramvars>>
    \/ root_dir_init \/ fs_init \/ fs_format
    \/ \E p \in Ptn : fs_mount(p) \/ fs_unmount(p) \/ FormatAgain(p)
    \/ Reboot

Spec == Init /\ [][Next]_vars

-----------------------------------------------------------------------------
(* Properties.                                                             *)

\* The areas of every partition are disjoint, inside it, and covered by its
\* bitmap, at every size (fs.c:130-148).
LayoutsSound == \A p \in Ptn : LayoutSound(p.sec_cnt)

\* fs.c:182-187 means to mark "every bit past the last real block".  What an
\* allocator can get from the bitmap is every real block but the root's, and
\* also the first block that does not exist (the loop clears bits 0 to last_bit),
\* whatever the sectors after the boundary's stand for, and the root's block
\* when the boundary is in the first byte; and when the blocks fill the bitmap,
\* the memset is one sector past the buffer.
BitmapTail == \A p \in Ptn : TailMarked(p.sec_cnt)

\* fs.c:48: the magic number marks the partition as formatted.  A mounted
\* partition has everything fs_format writes, unless a restart cut its first
\* format short after the super block: then it is mounted for its magic number,
\* and what is missing stays so until somebody formats it again (test_fs.c:27).
\* A restart in the middle of that leaves it as it was, cut or complete.
FormattedUnlessCut ==
    \A p \in mounted :
        Written(p) = {"super", "inode_btmp", "inode_table", "blk_btmp", "root"} <=> Place(p) \notin cut

\* fs_init begins to format a partition only when nothing of a file system is
\* on it, whatever restarts and formats came before (fs.c:344-350).
FormatsOnlyBlank ==
    [][(unread # <<>> /\ format = <<>> /\ format' # <<>>) => Written(format'[1]) = {}]_vars

\* The live entries that carry a name.
LiveOf(name) == {i \in Slots : root_blk[i].f_type = "FT_DIR" /\ root_blk[i].filename = name}

\* The root directory has one live entry for each mounted partition, with its
\* inode number, and none for the others, although fs_unmount leaves names
\* behind and takes the first one it finds; its size counts the live entries.
\* The kernel stops with the directory full, and only then (fs.c:287).
DirectoryTracksMounts ==
    /\ \A p \in mounted : \E i \in Slots :
          LiveOf(p.name) = {i} /\ root_blk[i].i_no = inode_base[p]
    /\ \A p \in Ptn \ mounted : LiveOf(p.name) = {}
    /\ i_size = Cardinality({i \in Slots : root_blk[i].f_type = "FT_DIR"})
    /\ panicked => i_size = ROOT_DIR_MAX /\ Len(ptn_list) > ROOT_DIR_MAX - 2

\* No two mounted partitions have an inode number in common, and none has the
\* root's (fs.c:263-267 assigns the bases).
InodeNumbersDisjoint ==
    LET numbers(p) == inode_base[p]..(inode_base[p] + inode_cnt - 1)
    IN  /\ \A p \in mounted : 0 \notin numbers(p)
        /\ \A p, q \in mounted : p # q => numbers(p) \cap numbers(q) = {}
=============================================================================
