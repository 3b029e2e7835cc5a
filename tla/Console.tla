------------------------------- MODULE Console -------------------------------
(***************************************************************************)
(* The text screen: kernel/src/print.s, printk of kernel/src/printk.c,     *)
(* which prints under printk_lock, and kernel_panic of kernel/src/assert.c.*)
(* The cursor is in two bytes of the CRT controller, behind one index       *)
(* register; ticks can separate any two of the port accesses.  put_str and  *)
(* put_int are also called without the lock, by the system calls and by     *)
(* every TRACE of the kernel, and put_int keeps its digits in one buffer.  *)
(***************************************************************************)
EXTENDS BlockingMutex, Integers, SequencesExt

CONSTANTS
    Columns, Rows, \* of the screen: 80 and 25
    Byte,          \* values of a byte, 256
    Messages,      \* the texts threads print
    Base, Digits,  \* of a number: 16 and 8
    Numbers,       \* the numbers they print
    Places,        \* where they move the cursor to
    Report,        \* the lines kernel_panic prints
    Abandoned,     \* stands for the holder of a spinlock who will not be back
    MaxMessages    \* bound: messages printed, reports apart

Space == " "
LF == "LF"
BS == "BS"
HexDigits == <<"0", "1", "2", "3", "4", "5", "6", "7", "8", "9", "A", "B", "C", "D", "E", "F">>
\* For what is printed by set_cursor and cls_screen.
Move == "move"
Clear == "clear"
Characters == UNION {Range(m) : m \in Messages \cup Range(Report)}

Screen == Columns * Rows
\* A cell is two bytes, and the 16-bit offset of a cell is twice its number.
Short == Byte * Byte
Cells == Short \div 2

\* What is left of a number after each division by the base: nothing in the end.
IsLeft(left, n) ==
    /\ left[0] = n /\ left[Digits] = 0
    /\ \A i \in 1..Digits : left[i] = left[i - 1] \div Base

ASSUME ConsoleAssumption ==
    /\ Columns \in Nat \ {0} /\ Rows \in Nat \ {0} /\ Byte \in Nat
    /\ Byte % 2 = 0 /\ Screen < Cells /\ MaxMessages \in Nat
    /\ Base \in Nat /\ Base > 1 /\ Digits \in Nat \ {0}
    /\ Numbers \subseteq Nat /\ \A n \in Numbers : \E left \in [0..Digits -> 0..n] : IsLeft(left, n)
    /\ Report \in Seq(Range(Report)) /\ Report # <<>>
    /\ Base <= 16 /\ Places \subseteq 0..(Screen - 1)
    /\ Messages \cup Range(Report) \subseteq Seq(Characters \ {Move, Clear})
    /\ Abandoned \notin Thread \cup {NULL}

VARIABLES
    cell,    \* the characters in video memory, on the screen and beyond it
    index,   \* the index register: which byte of the cursor the data port is
    cursor,  \* the two bytes of the cursor
    put_int_buffer, \* the digits of the number in print
    out,     \* what each thread prints: put_char's step and registers
    lines,   \* what a panicking thread has still to print; its interrupts are off
    spin,    \* the thread between spin_lock and spin_unlock of printk_lock
    stopped, \* kernel_panic is in its endless loop, with interrupts off
    sent,    \* how many messages were begun
    paper,   \* history: what was printed, on an endless roll
    garbled  \* history: two threads were in put_char at once, one was left in
             \* it for a panic, or a backspace left the screen

screenvars == <<cell, index, cursor, put_int_buffer, paper, garbled>>
printvars == <<out, lines, spin, stopped, sent>>
vars == <<rrvars, mutexvars, screenvars, printvars>>

\* text is what is left of the string, its first character the one at work;
\* edi, num and eax are put_int's: its place in the buffer, the number, and
\* what is left of it.  As history, the digits it has shown and whether
\* another put_int was under way meanwhile.
Silent == [pc |-> "none", text |-> <<>>, bx |-> 0, edi |-> 0, num |-> -1, eax |-> 0,
           shown |-> <<>>, shared |-> FALSE]
Panics(t) == lines[t] # <<>>

BlankPaper == [text |-> [i \in {} |-> Space], pos |-> 0, top |-> 0]

Init ==
    /\ RRInit /\ MutexInit
    /\ cell = [i \in 0..(Cells - 1) |-> Space]
    /\ index = "hi" /\ cursor = [hi |-> 0, lo |-> 0]
    /\ put_int_buffer = [i \in 1..Digits |-> "0"]
    /\ out = [t \in Thread |-> Silent]
    /\ lines = [t \in Thread |-> <<>>]
    /\ spin = NULL /\ stopped = FALSE /\ sent = 0
    /\ paper = BlankPaper
    /\ garbled = FALSE

-----------------------------------------------------------------------------
(* put_char, one action per port access, cell or scroll.                    *)

At(t, a) == running = t /\ ~stopped /\ out[t].pc = a

Select(t, a, b, byte) ==
    /\ At(t, a)
    /\ out' = [out EXCEPT ![t].pc = b]
    /\ index' = byte
    /\ UNCHANGED <<cell, cursor, paper>>

\* in al, dx
ReadByte(t, a, b, weight) ==
    /\ At(t, a)
    /\ out' = [out EXCEPT ![t].pc = b, ![t].bx = @ + weight * cursor[index]]
    /\ UNCHANGED <<cell, index, cursor, paper>>

\* out dx, al
WriteByte(t, a, b, value) ==
    /\ At(t, a)
    /\ cursor' = [cursor EXCEPT ![index] = value]
    /\ out' = [out EXCEPT ![t].pc = b]
    /\ UNCHANGED <<cell, index, paper>>

MutOnScreen(bx) == bx <= Screen \/ bx >= Short \div 2

\* cmp bx, 2000; jl: a comparison of signed words
OnScreen(bx) == bx < Screen \/ bx >= Short \div 2

InPutInt(t) == out[t].num >= 0 /\ out[t].pc # "done"

\* The character goes into the cell, or moves the cursor.  shl and shr lose
\* the highest bit of bx.
Draw(t) ==
    LET c == Head(out[t].text)
        bx == out[t].bx
        back == (bx - 1) % Short
        next == CASE c = BS -> back % Cells
                  [] c = LF -> (bx - (bx % Columns)) + Columns
                  [] OTHER -> (bx % Cells) + 1
    IN  /\ At(t, "draw")
        /\ cell' = CASE c = BS -> [cell EXCEPT ![back % Cells] = Space]
                     [] c = LF -> cell
                     [] OTHER -> [cell EXCEPT ![bx % Cells] = c]
        /\ out' = [out EXCEPT ![t].bx = next,
                              ![t].pc = IF c = BS \/ OnScreen(next) THEN "set hi" ELSE "roll"]
        /\ UNCHANGED <<index, cursor, paper>>

\* Every row moves up by one; the last is cleared and gets the cursor.
Roll(t) ==
    /\ At(t, "roll")
    /\ cell' = [i \in DOMAIN cell |->
                  IF i < Screen - Columns THEN cell[i + Columns]
                  ELSE IF i < Screen THEN Space ELSE cell[i]]
    /\ out' = [out EXCEPT ![t].pc = "set hi", ![t].bx = Screen - Columns]
    /\ UNCHANGED <<index, cursor, paper>>

\* cls_screen: the cells are cleared, and the cursor goes to the first.
ClearCells(t) ==
    /\ At(t, "clear")
    /\ cell' = [i \in DOMAIN cell |-> IF i < Screen THEN Space ELSE cell[i]]
    /\ out' = [out EXCEPT ![t].pc = "set hi", ![t].bx = 0]
    /\ UNCHANGED <<index, cursor, paper>>

Written(p, pos, c) ==
    [i \in DOMAIN p.text \cup {pos} |-> IF i = pos THEN c ELSE p.text[i]]

\* The same on an endless roll of paper, of which the screen shows the last
\* rows.
OnPaper(p, c, bx) ==
    LET pos == CASE c = BS -> p.pos - 1
                 [] c = LF -> (p.pos \div Columns + 1) * Columns
                 [] c = Move -> p.top * Columns + bx
                 [] OTHER -> p.pos + 1
        row == pos \div Columns
    IN  IF c = Clear THEN BlankPaper
        ELSE [text |-> CASE c = BS -> Written(p, pos, Space)
                         [] c \in {LF, Move} -> p.text
                         [] OTHER -> Written(p, p.pos, c),
              pos |-> pos,
              top |-> IF row - Rows + 1 > p.top THEN row - Rows + 1 ELSE p.top]

\* .each_char of put_str: text is still to be printed.
EachChar(text) == IF text = <<>> THEN "done" ELSE "select hi"

\* The low byte of the cursor ends a put_char: put_str goes on with the next
\* character.
EndChar(t) ==
    LET o == out[t]
        c == Head(o.text)
    IN  /\ At(t, "out lo")
        /\ cursor' = [cursor EXCEPT ![index] = o.bx % Byte]
        /\ out' = [out EXCEPT ![t].pc = IF InPutInt(t) THEN "load"
                                        ELSE EachChar(Tail(o.text)),
                              ![t].text = Tail(@), ![t].bx = 0,
                              ![t].shown = IF InPutInt(t) THEN Append(@, c) ELSE @]
        /\ paper' = IF garbled THEN paper ELSE OnPaper(paper, c, o.bx)
        /\ UNCHANGED <<cell, index>>

InPutChar(t) == out[t].pc \notin {"none", "lock", "fill", "skip", "load", "select hi", "done"}

put_char(t) ==
    /\ \/ Select(t, "select hi", "in hi", "hi") \/ ReadByte(t, "in hi", "select lo", Byte)
       \/ Select(t, "select lo", "in lo", "lo") \/ ReadByte(t, "in lo", "draw", 1)
       \/ Draw(t) \/ Roll(t) \/ ClearCells(t)
       \/ Select(t, "set hi", "out hi", "hi") \/ WriteByte(t, "out hi", "set lo", out[t].bx \div Byte)
       \/ Select(t, "set lo", "out lo", "lo") \/ EndChar(t)
    /\ garbled' = (garbled \/ (\E u \in Thread \ {t} : InPutChar(u))
                          \/ (out[t].pc = "draw" /\ Head(out[t].text) = BS /\ out[t].bx = 0))
    /\ UNCHANGED <<rrvars, mutexvars, put_int_buffer, lines, spin, stopped, sent>>

-----------------------------------------------------------------------------
(* put_int                                                                 *)

\* .each_4_bit_loop: a digit goes into the buffer, the lowest first.
Fill(t) ==
    LET o == out[t]
    IN  /\ At(t, "fill")
        /\ put_int_buffer' = [put_int_buffer EXCEPT ![o.edi] = HexDigits[(o.eax % Base) + 1]]
        /\ out' = [out EXCEPT ![t].edi = @ - 1, ![t].eax = @ \div Base,
                              ![t].pc = IF o.edi = 1 THEN "skip" ELSE "fill"]

\* .skip_zero: past the end of the buffer the last digit is still in dl.
Skip(t) ==
    LET edi == out[t].edi + 1
        zeros == edi > Digits
        dl == IF zeros THEN Head(out[t].text) ELSE put_int_buffer[edi]
    IN  /\ At(t, "skip")
        /\ out' = [out EXCEPT ![t].edi = edi, ![t].text = <<dl>>,
                              ![t].pc = IF ~zeros /\ dl = "0" THEN "skip" ELSE "select hi"]
        /\ UNCHANGED put_int_buffer

MutLoadOneLess(t) ==
    LET edi == out[t].edi + 1
    IN  /\ At(t, "load")
        /\ out' = IF edi >= Digits THEN [out EXCEPT ![t].pc = "done"]
                  ELSE [out EXCEPT ![t].edi = edi, ![t].text = <<put_int_buffer[edi]>>,
                                   ![t].pc = "select hi"]
        /\ UNCHANGED put_int_buffer

\* .print_each_char: put_char has printed a digit.
Load(t) ==
    LET edi == out[t].edi + 1
    IN  /\ At(t, "load")
        /\ out' = IF edi > Digits THEN [out EXCEPT ![t].pc = "done"]
                  ELSE [out EXCEPT ![t].edi = edi, ![t].text = <<put_int_buffer[edi]>>,
                                   ![t].pc = "select hi"]
        /\ UNCHANGED put_int_buffer

PutIntStep(t) ==
    /\ Fill(t) \/ Skip(t) \/ Load(t)
    /\ UNCHANGED <<rrvars, mutexvars, cell, index, cursor, paper, garbled, lines, spin, stopped, sent>>

-----------------------------------------------------------------------------
(* put_str, printk and kernel_panic                                         *)

Begin(t, a, m) ==
    /\ At(t, "none")
    /\ out' = [out EXCEPT ![t] = [Silent EXCEPT !.pc = a, !.text = m]]

\* Bound: how far the printing is followed.
Followed == sent < MaxMessages /\ ~garbled

\* A thread calls one of the functions of print.h or printk.h.
Call(t) ==
    /\ t # Idle /\ ~Panics(t) /\ Followed
    /\ sent' = sent + 1
    /\ UNCHANGED <<rrvars, mutexvars, screenvars, lines, spin, stopped>>

put_str(t, m) == Call(t) /\ Begin(t, EachChar(m), m)

\* The text is formatted in the caller's own buffer.
printk(t, m) == Call(t) /\ Begin(t, "lock", m)

cls_screen(t) == Call(t) /\ Begin(t, "clear", <<Clear>>)

set_cursor(t, pos) ==
    /\ Call(t) /\ At(t, "none")
    /\ out' = [out EXCEPT ![t] = [Silent EXCEPT !.pc = "set hi", !.text = <<Move>>, !.bx = pos]]

put_int(t, n) ==
    /\ Call(t) /\ At(t, "none")
    /\ out' = [u \in Thread |->
                 IF u = t THEN [Silent EXCEPT !.pc = "fill", !.edi = Digits, !.num = n, !.eax = n,
                                              !.shared = \E v \in Thread : InPutInt(v)]
                 ELSE [out[u] EXCEPT !.shared = @ \/ InPutInt(u)]]

EndStr(t) ==
    /\ At(t, "done") /\ phase[t] # "owner"
    /\ out' = [out EXCEPT ![t] = Silent]
    /\ UNCHANGED <<rrvars, mutexvars, screenvars, lines, spin, stopped, sent>>

\* spin_lock of mutex_lock or mutex_unlock; a thread that finds it taken yields.
InMutex(t) == \/ At(t, "lock") /\ phase[t] = "out"
              \/ At(t, "done") /\ phase[t] = "owner"
SpinLock(t) ==
    /\ InMutex(t) /\ spin # t
    /\ IF spin = NULL THEN spin' = t /\ UNCHANGED rrvars ELSE Rotate /\ UNCHANGED spin
    /\ UNCHANGED <<mutexvars, screenvars, out, lines, stopped, sent>>

\* mutex_lock(&printk_lock), then put_str.  Bound: a thread that has a waiter
\* on the list, from the call its panic came on top of or because the idle
\* thread woke without an unlock, is not followed when it links one again.
Lock(t) ==
    /\ At(t, "lock")
    /\ \/ /\ spin = t /\ spin' = NULL
          /\ \/ Acquire(t) /\ out' = [out EXCEPT ![t].pc = EachChar(out[t].text)]
             \/ Park(t) /\ t \notin Range(wait_list) /\ UNCHANGED out
       \/ Block(t) /\ UNCHANGED <<spin, out>>
    /\ UNCHANGED <<screenvars, lines, stopped, sent>>

\* mutex_unlock(&printk_lock); after the last line of a report there is
\* nothing but the endless loop.
Unlock(t) ==
    /\ At(t, "done")
    /\ spin = t /\ spin' = NULL
    /\ Release(t)
    /\ out' = [out EXCEPT ![t] = Silent]
    /\ IF Panics(t) THEN lines' = [lines EXCEPT ![t] = Tail(@)] /\ stopped' = (Len(lines[t]) = 1)
                    ELSE UNCHANGED <<lines, stopped>>
    /\ UNCHANGED <<screenvars, sent>>

\* An assertion fails, in the running thread or in the handler of the tick that
\* interrupts it (timer.c:80): intr_set_status(false), and the first printk, on
\* top of whatever the thread was at.  That is never returned to: printk_lock
\* stays with its owner, and the spinlock with nobody.
kernel_panic(t) ==
    /\ running = t /\ ~stopped /\ ~Panics(t) /\ ~garbled
    /\ out' = [out EXCEPT ![t] = [Silent EXCEPT !.pc = "lock", !.text = Head(Report)]]
    /\ lines' = [lines EXCEPT ![t] = Report]
    /\ phase' = [phase EXCEPT ![t] = "out"]
    /\ spin' = IF spin = t THEN Abandoned ELSE spin
    /\ IF InPutChar(t) THEN garbled' = TRUE ELSE UNCHANGED garbled
    /\ UNCHANGED <<rrvars, owner, wait_list, cell, index, cursor, put_int_buffer, paper, stopped, sent>>

NextLine(t) ==
    /\ Panics(t)
    /\ Begin(t, "lock", Head(lines[t]))
    /\ UNCHANGED <<rrvars, mutexvars, screenvars, lines, spin, stopped, sent>>

MutEnabled == TRUE

\* Interrupts are on.
Enabled == ~Panics(running)

\* A tick comes when interrupts are on.
Tick ==
    /\ ~stopped /\ Enabled
    /\ Others
    /\ UNCHANGED <<screenvars, printvars>>

Next ==
    \/ \E t \in Thread :
          \/ put_char(t)
          \/ PutIntStep(t)
          \/ \E m \in Messages : put_str(t, m) \/ printk(t, m)
          \/ \E n \in Numbers : put_int(t, n)
          \/ \E pos \in Places : set_cursor(t, pos)
          \/ cls_screen(t)
          \/ EndStr(t) \/ SpinLock(t) \/ Lock(t) \/ Unlock(t)
          \/ kernel_panic(t) \/ NextLine(t)
    \/ Tick

Spec == Init /\ [][Next]_vars

-----------------------------------------------------------------------------
(* Properties.                                                             *)

\* The screen shows the last rows of what was printed, and the cursor is where
\* the next character goes: through the end of a row, new lines, backspaces
\* and scrolling, with any number of threads that print under printk_lock or
\* without it, as long as no two of them were in put_char at once (print.h:17-22).
ScreenShowsText ==
    garbled \/ (\E t \in Thread : InPutChar(t)) \/
        /\ cursor.hi * Byte + cursor.lo = paper.pos - paper.top * Columns
        /\ \A i \in 0..(Screen - 1) :
              LET at == paper.top * Columns + i
              IN  cell[i] = IF at \in DOMAIN paper.text THEN paper.text[at] ELSE Space

\* Callers of printk do not meet in put_char: where two threads do, one of
\* them printed without the lock.
LockedApart ==
    \A t, u \in Thread : InPutChar(t) /\ InPutChar(u) /\ t # u => phase[t] = "out" \/ phase[u] = "out"

\* Until a panicking thread has printk_lock for its first line, it may wait for it
\* and others run; for ever, if it had the lock itself or its spinlock when the
\* assertion failed (timer.c:80).  From its first line on it keeps the CPU to
\* the end: no other thread prints between the lines of the report, although
\* each one takes and frees the lock and wakes who waits for it (assert.c:8-15).
ReportUninterrupted ==
    \A t \in Thread :
        Panics(t) /\ (phase[t] = "owner" \/ Len(lines[t]) < Len(Report)) => running = t

DigitOf(c) == CHOOSE k \in 0..15 : HexDigits[k + 1] = c
ValueOf(d) ==
    LET value[i \in 0..Len(d)] == IF i = 0 THEN 0 ELSE value[i - 1] * Base + DigitOf(d[i])
    IN  value[Len(d)]

\* print.h:31-35: a number comes out as its own hexadecimal digits without
\* leading zeros, and 0 as one digit, unless another thread was in put_int
\* meanwhile: the buffer of the digits is shared (print.s:22), and neither the
\* system calls nor printk_lock keep two threads apart.
NumbersWhole ==
    \A t \in Thread : out[t].num >= 0 /\ out[t].pc = "done" /\ ~out[t].shared =>
        LET d == out[t].shown
        IN  ValueOf(d) = out[t].num /\ (d[1] = "0" => Len(d) = 1)
=============================================================================
