---------------------------- MODULE PartitionScan ----------------------------
(***************************************************************************)
(* ide_init and ide_ch_init of kernel/src/ide.c with ide_get_partition: the *)
(* boot sector of every drive is read, and from an extended partition one   *)
(* boot sector after the other, by recursion.  What is found goes to        *)
(* ptn_list.  How a sector is read is in IdeChannel.                       *)
(***************************************************************************)
EXTENDS Integers, SequencesExt

CONSTANTS
    Hds,  \* the drives that answer, in the order of their channels
    Disks \* what their boot sectors may hold: drive -> lba -> the four entries

ASSUME DrivesAssumption ==
    /\ Len(Hds) \in Nat
    /\ \A h, g \in 1..Len(Hds) : Hds[h] = Hds[g] => h = g

\* 0 and 5 are the types the code tells apart; start_lba is counted from the
\* sector of the entry, or from the extended partition.
PtnEntry(type, start, cnt) == [type |-> type, start_lba |-> start, sec_cnt |-> cnt]
Unused == PtnEntry(0, 0, 0)
EXTENDED == 5

Data(sector) == {i \in 1..4 : sector[i].type \notin {0, EXTENDED}}
Links(sector) == {i \in 1..4 : sector[i].type = EXTENDED}

\* The tables of a drive that a partitioning tool leaves: one extended
\* partition at most, and from its boot records only boot records are reached.
\* The scan checks none of it: it would follow a table that links to itself
\* until the stack is used up.
WellLinked(table) ==
    /\ 0 \in DOMAIN table
    /\ \A lba \in DOMAIN table : \A i \in 1..4 :
          /\ table[lba][i].type \in Nat
          /\ table[lba][i].start_lba \in Nat /\ table[lba][i].sec_cnt \in Nat
    /\ \A i, j \in Links(table[0]) : i = j
    /\ \A i \in Links(table[0]) :
          LET base == table[0][i].start_lba
          IN  /\ base \in DOMAIN table \ {0}
              /\ \A lba \in DOMAIN table \ {0} : \A j \in Links(table[lba]) :
                    base + table[lba][j].start_lba \in DOMAIN table

ASSUME TablesAssumption ==
    \A tables \in Disks : \A h \in 1..Len(Hds) :
        Hds[h] \in DOMAIN tables /\ WellLinked(tables[Hds[h]])

VARIABLES
    bs,       \* the boot sectors of the drives
    hd,       \* how many drives were scanned, or are
    stack,    \* the calls of ide_get_partition, innermost first
    ptn_nr,   \* its static
    ptn_list

scanvars == <<bs, hd, stack, ptn_nr, ptn_list>>

\* list_init; 0 is the static's first value.
ScanInit ==
    /\ bs \in Disks
    /\ hd = 0 /\ stack = <<>>
    /\ ptn_nr = 0
    /\ ptn_list = <<>>

ScanDone == hd = Len(Hds) /\ stack = <<>>

-----------------------------------------------------------------------------
Call(base, offset) == [base |-> base, offset |-> offset, idx |-> 1]
NextEntry == [stack EXCEPT ![1].idx = @ + 1]
Drive == Hds[hd]

\* The entry the innermost call is at.
Entry ==
    LET c == Head(stack)
    IN  bs[Drive][c.base + c.offset][c.idx]
AtEntry == stack # <<>> /\ Head(stack).idx <= 4

\* The next drive that ide_get_identify finds.
ide_ch_init ==
    /\ stack = <<>> /\ hd < Len(Hds)
    /\ hd' = hd + 1
    /\ stack' = <<Call(0, 0)>>
    /\ UNCHANGED <<bs, ptn_nr, ptn_list>>

SkipUnused ==
    /\ AtEntry /\ Entry.type = 0
    /\ stack' = NextEntry
    /\ UNCHANGED <<bs, hd, ptn_nr, ptn_list>>

\* From the MBR to the first boot record of the extended partition, and from
\* there to the next, whose place is counted from the first.
EnterExtended ==
    LET base == Head(stack).base
    IN  /\ AtEntry /\ Entry.type = EXTENDED
        /\ IF base = 0
           THEN ptn_nr' = 5 /\ stack' = <<Call(Entry.start_lba, 0)>> \o NextEntry
           ELSE stack' = <<Call(base, Entry.start_lba)>> \o NextEntry /\ UNCHANGED ptn_nr
        /\ UNCHANGED <<bs, hd, ptn_list>>

Partition(nr, start, cnt) == [name |-> <<Drive, nr>>, start_lba |-> start, sec_cnt |-> cnt]

MutRecordByIndex ==
    LET c == Head(stack)
        start == c.base + c.offset + Entry.start_lba
        nr == IF c.base = 0 THEN c.idx ELSE c.idx + 4
    IN  /\ AtEntry /\ Entry.type \notin {0, EXTENDED}
        /\ ptn_list' = Append(ptn_list, Partition(nr, start, Entry.sec_cnt))
        /\ stack' = NextEntry
        /\ UNCHANGED <<bs, hd, ptn_nr>>

\* A primary partition has its entry's number, the others are counted.
Record ==
    LET c == Head(stack)
        start == c.base + c.offset + Entry.start_lba
    IN  /\ AtEntry /\ Entry.type \notin {0, EXTENDED}
        /\ IF c.base = 0
           THEN /\ ptn_list' = Append(ptn_list, Partition(c.idx, start, Entry.sec_cnt))
                /\ UNCHANGED ptn_nr
           ELSE /\ ptn_list' = Append(ptn_list, Partition(ptn_nr, start, Entry.sec_cnt))
                /\ ptn_nr' = ptn_nr + 1
        /\ stack' = NextEntry
        /\ UNCHANGED <<bs, hd>>

EndOfTable ==
    /\ stack # <<>> /\ ~AtEntry
    /\ stack' = Tail(stack)
    /\ UNCHANGED <<bs, hd, ptn_nr, ptn_list>>

Scan == ide_ch_init \/ SkipUnused \/ EnterExtended \/ Record \/ EndOfTable

-----------------------------------------------------------------------------
(* What a scan is to find, from the tables alone.                          *)

\* The boot sectors of a drive: the first, and the boot records of its extended
\* partition in the order of their links, which are counted from the first of
\* them.
IsPath(table, path) ==
    /\ path # <<>> /\ path[1] = 0
    /\ \A k \in DOMAIN path :
          LET origin == IF k = 1 THEN 0 ELSE path[2]
          IN  IF k = Len(path)
              THEN Links(table[path[k]]) = {}
              ELSE \E j \in Links(table[path[k]]) : path[k + 1] = origin + table[path[k]][j].start_lba
Paths(table) == {path \in SeqOf(DOMAIN table, Cardinality(DOMAIN table)) : IsPath(table, path)}

\* There is one, and a boot record has one logical partition at most and, in a
\* later entry, one link at most.
WellChained(table) ==
    /\ Paths(table) # {}
    /\ \A lba \in DOMAIN table \ {0} :
          LET data == Data(table[lba])
              links == Links(table[lba])
          IN  /\ \A i, j \in data : i = j
              /\ \A i, j \in links : i = j
              /\ \A i \in data, j \in links : i < j

\* The tables leave the scan one right outcome: the run's do, and the theorem
\* about ScanExact asks it.
OneOutcome == \A tables \in Disks : \A h \in 1..Len(Hds) : WellChained(tables[Hds[h]])

PathOf(d) == CHOOSE path \in Paths(bs[d]) : TRUE

\* A primary partition has its entry's number; the logical ones are numbered
\* from 5 along the path, whatever the primary ones around it.
PartitionAt(d, path, k, i) ==
    LET e == bs[d][path[k]][i]
        logical == {j \in 2..k : Data(bs[d][path[j]]) # {}}
        nr == IF k = 1 THEN i ELSE 4 + Cardinality(logical)
    IN  [name |-> <<d, nr>>, start_lba |-> path[k] + e.start_lba, sec_cnt |-> e.sec_cnt]
Partitions(d) ==
    LET path == PathOf(d)
    IN  UNION {{PartitionAt(d, path, k, i) : i \in Data(bs[d][path[k]])} : k \in DOMAIN path}

\* ide.h:54, ide.c:268-277: after the scan ptn_list has every partition of
\* every drive once, with its number, place and length, although the counter
\* of logical partitions is one for all calls and all drives.
ScanExact ==
    ScanDone =>
        /\ IsInjective(ptn_list)
        /\ Range(ptn_list) = UNION {Partitions(Hds[h]) : h \in 1..Len(Hds)}
=============================================================================
