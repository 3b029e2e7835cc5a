------------------------------- MODULE Strings -------------------------------
(***************************************************************************)
(* lib/src/string.c: memory and strings, as functions of the memory they    *)
(* are given.  A memory is a sequence of bytes and a pointer an index in    *)
(* it; char is signed, as gcc has it on i386.                               *)
(***************************************************************************)
EXTENDS Integers, SequencesExt

CONSTANT ByteValues \* of a byte, 256

NUL == 0
NullPointer == 0

\* A byte read as a char.
Char(b) == IF b < ByteValues \div 2 THEN b ELSE b - ByteValues

RECURSIVE memset(_, _, _, _)
memset(mem, str, ch, n) ==
    IF n = 0 THEN mem ELSE memset([mem EXCEPT ![str] = ch], str + 1, ch, n - 1)

RECURSIVE memcpy(_, _, _, _)
memcpy(mem, dst, src, n) ==
    IF n = 0 THEN mem ELSE memcpy([mem EXCEPT ![dst] = mem[src]], dst + 1, src + 1, n - 1)

RECURSIVE memcmp(_, _, _, _)
memcmp(mem, s1, s2, n) ==
    IF n = 0 THEN 0
    ELSE IF mem[s1] = mem[s2] THEN memcmp(mem, s1 + 1, s2 + 1, n - 1)
    ELSE IF Char(mem[s1]) > Char(mem[s2]) THEN 1 ELSE -1

\* The byte is copied first, and the loop ends after a NUL.
RECURSIVE strcpy(_, _, _)
strcpy(mem, dst, src) ==
    LET copied == [mem EXCEPT ![dst] = mem[src]]
    IN  IF mem[src] = NUL THEN copied ELSE strcpy(copied, dst + 1, src + 1)

RECURSIVE strlen(_, _)
strlen(mem, str) == IF mem[str] = NUL THEN 0 ELSE 1 + strlen(mem, str + 1)

MutStrcmpWhileEqual(mem, s1, s2) == memcmp(mem, s1, s2, strlen(mem, s1))

RECURSIVE strcmp(_, _, _)
strcmp(mem, s1, s2) ==
    IF mem[s1] # NUL /\ mem[s1] = mem[s2] THEN strcmp(mem, s1 + 1, s2 + 1)
    ELSE IF Char(mem[s1]) < Char(mem[s2]) THEN -1
    ELSE IF Char(mem[s1]) > Char(mem[s2]) THEN 1 ELSE 0

\* A char is compared with a uint8_t: both are promoted to int.
Matches(mem, p, ch) == Char(mem[p]) = ch

RECURSIVE strchr(_, _, _)
strchr(mem, str, ch) ==
    IF mem[str] = NUL THEN NullPointer
    ELSE IF Matches(mem, str, ch) THEN str
    ELSE strchr(mem, str + 1, ch)

RECURSIVE strrchr(_, _, _)
strrchr(mem, str, ch) ==
    IF mem[str] = NUL THEN NullPointer
    ELSE LET last == strrchr(mem, str + 1, ch)
         IN  IF last = NullPointer /\ Matches(mem, str, ch) THEN str ELSE last

strcat(mem, dst, src) == strcpy(mem, dst + strlen(mem, dst), src)

RECURSIVE strchrs(_, _, _)
strchrs(mem, p, ch) ==
    IF mem[p] = NUL THEN 0
    ELSE (IF Matches(mem, p, ch) THEN 1 ELSE 0) + strchrs(mem, p + 1, ch)

-----------------------------------------------------------------------------
(* What string.h promises, for every memory of a few bytes, and every legal *)
(* choice of pointers in it.                                                *)

CONSTANT MemSize \* bound: bytes of the memories that are tried

Memories == [1..MemSize -> 0..(ByteValues - 1)]
IsString(mem, p) == \E q \in p..MemSize : mem[q] = NUL
Text(mem, p) == SubSeq(mem, p, CHOOSE q \in (p - 1)..MemSize :
                                   /\ q < MemSize /\ mem[q + 1] = NUL
                                   /\ \A i \in p..q : mem[i] # NUL)
\* The sequence a comes before b at the first place where they differ, as
\* chars.
Before(a, b) ==
    \E i \in 1..Len(a) : /\ i <= Len(b) /\ Char(a[i]) < Char(b[i])
                         /\ \A j \in 1..(i - 1) : a[j] = b[j]
Sign(a, b) == IF a = b THEN 0 ELSE IF Before(a, b) THEN -1 ELSE 1
\* mem with the bytes of s from p on.
Overwritten(mem, p, s) ==
    [i \in DOMAIN mem |-> IF i \in p..(p + Len(s) - 1) THEN s[i - p + 1] ELSE mem[i]]

\* string.h: the area from p has n bytes that are filled, copied or compared,
\* and no other byte changes, down to n = 0.  Bytes compare as signed chars.
AreasRight ==
    \A mem \in Memories, p, q \in 1..MemSize, n \in 0..2 :
        p + n <= q /\ q + n <= MemSize + 1 =>
            /\ memset(mem, p, 1, n) = Overwritten(mem, p, [i \in 1..n |-> 1])
            /\ memcpy(mem, p, q, n) = Overwritten(mem, p, SubSeq(mem, q, q + n - 1))
            /\ memcpy(mem, q, p, n) = Overwritten(mem, q, SubSeq(mem, p, p + n - 1))
            /\ memcmp(mem, p, q, n) = Sign(SubSeq(mem, p, p + n - 1), SubSeq(mem, q, q + n - 1))

\* string.h: two strings one after the other are compared, copied, appended and
\* measured up to their NULs.  A prefix comes before the string it begins
\* unless the next char of that string is negative.
PairsRight ==
    \A mem \in Memories, p, q \in 1..MemSize :
        IsString(mem, p) /\ IsString(mem, q) /\ p + Len(Text(mem, p)) < q =>
            LET a == Text(mem, p)
                b == Text(mem, q)
            IN  /\ strlen(mem, p) = Len(a)
                /\ strcmp(mem, p, q) = Sign(Append(a, NUL), Append(b, NUL))
                /\ q + Len(a) <= MemSize => strcpy(mem, q, p) = Overwritten(mem, q, Append(a, NUL))
                /\ q + Len(b) + Len(a) <= MemSize =>
                      strcat(mem, q, p) = Overwritten(mem, q + Len(b), Append(a, NUL))

\* string.h: strchr and strrchr point at the first and the last occurrence of a
\* character and strchrs counts them all, for the characters a char can hold;
\* the others are never found, because a char of theirs is negative
\* (string.c:129, string.c:151, string.c:188).
SearchesRight ==
    \A mem \in Memories, p \in 1..MemSize, ch \in 1..(ByteValues - 1) :
        IsString(mem, p) =>
            LET at == {i \in p..(p + Len(Text(mem, p)) - 1) : mem[i] = ch}
            IN  IF at = {} \/ ch >= ByteValues \div 2
                THEN /\ strchr(mem, p, ch) = NullPointer /\ strrchr(mem, p, ch) = NullPointer
                     /\ strchrs(mem, p, ch) = 0
                ELSE /\ strchr(mem, p, ch) = Min(at) /\ strrchr(mem, p, ch) = Max(at)
                     /\ strchrs(mem, p, ch) = Cardinality(at)

\* The library does what string.h says.
StringsRight == AreasRight /\ PairsRight /\ SearchesRight
=============================================================================
