----------------------------- MODULE MCFileSystem -----------------------------
\* A few drives and a small root directory, for TLC.
EXTENDS FileSystem

MCHds == <<"sda", "sdb">>

Ptn1(start, cnt) == PtnEntry(131, start, cnt)
Ext(start) == PtnEntry(EXTENDED, start, 300)

\* The sizes put the last block into the first byte of the bitmap, at the end
\* of one of its sectors, before the last one, and in between.
MCSizes == {11, 50, 71, 265}

NoTable == 0 :> <<Unused, Unused, Unused, Unused>>

\* A primary partition before and one after a gap in the table.
Gap(m, n) == [sda |-> NoTable, sdb |-> 0 :> <<Ptn1(1, m), Unused, Ptn1(300, n), Unused>>]

\* An extended partition before a primary one; its second boot record has lost
\* its logical partition.  The other drive has one logical partition.
Chained(m) ==
    [sda |-> 0 :> <<Ext(100), Ptn1(900, m), Unused, Unused>>
             @@ 100 :> <<Ptn1(1, 50), Ext(300), Unused, Unused>>
             @@ 400 :> <<Unused, Ext(500), Unused, Unused>>
             @@ 600 :> <<Ptn1(1, 11), Unused, Unused, Unused>>,
     sdb |-> 0 :> <<Unused, Unused, Unused, Unused>>]
Both(m) ==
    [sda |-> 0 :> <<Unused, Unused, Ext(100), Unused>> @@ 100 :> <<Ptn1(1, m), Unused, Unused, Unused>>,
     sdb |-> 0 :> <<Unused, Ext(50), Unused, Ptn1(1, 11)>> @@ 50 :> <<Ptn1(2, 71), Unused, Unused, Unused>>]

\* One partition more than the root directory takes.
TooMany == [sda |-> 0 :> <<Ptn1(1, 11), Ptn1(20, 11), Ptn1(40, 11), Ext(100)>>
                    @@ 100 :> <<Ptn1(1, 11), Unused, Unused, Unused>>,
            sdb |-> NoTable]

MCDisks == {Gap(m, 71) : m \in MCSizes} \cup {Chained(50), Both(11), TooMany}

ASSUME OneOutcome
=============================================================================
