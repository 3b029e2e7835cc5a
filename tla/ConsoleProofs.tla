---------------------------- MODULE ConsoleProofs ----------------------------
(***************************************************************************)
(* For any set of threads, screen, messages, numbers and report, with ticks  *)
(* and panics anywhere: printk_lock keeps the callers of printk apart, the    *)
(* screen shows what was printed, and numbers come out whole.                 *)
(***************************************************************************)
EXTENDS Console, TLAPS, SequenceTheorems, WellFoundedInduction

\* LockedApart alone is not inductive.  A thread past mutex_lock is in the owner
\* field, of which there is one; a thread on the wait list is still before
\* put_str.
OwnerAgrees == \A t \in Thread : phase[t] = "owner" => owner = t
ParkedWaits == \A t \in Thread : phase[t] = "parked" => out[t].pc = "lock"
Shapes ==
    /\ phase \in [Thread -> {"out", "parked", "owner"}]
    /\ DOMAIN out = Thread /\ out = [t \in Thread |-> out[t]]
    /\ \A t \in Thread : "pc" \in DOMAIN out[t] /\ out[t] = [f \in DOMAIN out[t] |-> out[t][f]]
ApartInv == Shapes /\ OwnerAgrees /\ ParkedWaits

\* One thread's printing state changes, and it was not before mutex_lock; or
\* another's, but for its place in the code.
Prints(t) ==
    /\ DOMAIN out' = Thread /\ out' = [u \in Thread |-> out'[u]]
    /\ \A u \in Thread : "pc" \in DOMAIN out'[u] /\ out'[u] = [f \in DOMAIN out'[u] |-> out'[u][f]]
    /\ \A u \in Thread \ {t} : out'[u].pc = out[u].pc

LEMMA ApartImplied == ApartInv => LockedApart
BY DEF ApartInv, Shapes, OwnerAgrees, ParkedWaits, LockedApart, InPutChar

LEMMA ApartInit == Init => ApartInv
BY DEF Init, MutexInit, Silent, ApartInv, Shapes, OwnerAgrees, ParkedWaits

\* A thread prints, or starts to, and the lock is left alone.
LEMMA ApartPrints ==
    ASSUME ApartInv, NEW t \in Thread, Prints(t), out[t].pc # "lock", UNCHANGED mutexvars
    PROVE  ApartInv'
BY DEF ApartInv, Shapes, OwnerAgrees, ParkedWaits, Prints, mutexvars

LEMMA ApartStutter == ApartInv /\ UNCHANGED <<mutexvars, out>> => ApartInv'
BY DEF ApartInv, Shapes, OwnerAgrees, ParkedWaits, mutexvars

\* Each step of put_char is one thread's, from a label of put_char.
LEMMA PutCharPrints ==
    ASSUME ApartInv, NEW t \in Thread, put_char(t)
    PROVE  /\ Prints(t) /\ out[t].pc # "lock" /\ out'[t].pc # "none"
           /\ UNCHANGED <<mutexvars, running, lines, spin>>
<1> USE DEF ApartInv, Shapes, Prints, At
<1>1. ASSUME NEW a, NEW b, NEW byte, Select(t, a, b, byte), a # "lock", b # "none"
      PROVE  Prints(t) /\ out[t].pc # "lock" /\ out'[t].pc # "none"
  BY <1>1 DEF Select
<1>2. ASSUME NEW a, NEW b, NEW weight, ReadByte(t, a, b, weight), a # "lock", b # "none"
      PROVE  Prints(t) /\ out[t].pc # "lock" /\ out'[t].pc # "none"
  BY <1>2 DEF ReadByte
<1>3. ASSUME NEW a, NEW b, NEW value, WriteByte(t, a, b, value), a # "lock", b # "none"
      PROVE  Prints(t) /\ out[t].pc # "lock" /\ out'[t].pc # "none"
  BY <1>3 DEF WriteByte
<1>4. ASSUME Draw(t)
      PROVE  Prints(t) /\ out[t].pc # "lock" /\ out'[t].pc # "none"
  <2>1. PICK next, b : b # "none" /\ out' = [out EXCEPT ![t].bx = next, ![t].pc = b]
    BY <1>4, Zenon DEF Draw
  <2>2. out[t].pc # "lock"
    BY <1>4, Zenon DEF Draw
  <2> QED BY <2>1, <2>2
<1>5. ASSUME Roll(t) \/ ClearCells(t)
      PROVE  Prints(t) /\ out[t].pc # "lock" /\ out'[t].pc # "none"
  <2>1. PICK bx : out' = [out EXCEPT ![t].pc = "set hi", ![t].bx = bx]
    BY <1>5, Zenon DEF Roll, ClearCells
  <2>2. out[t].pc # "lock"
    BY <1>5, Zenon DEF Roll, ClearCells
  <2> QED BY <2>1, <2>2
<1>6. ASSUME EndChar(t)
      PROVE  Prints(t) /\ out[t].pc # "lock" /\ out'[t].pc # "none"
  <2>1. PICK b, text, shown :
           /\ b # "none"
           /\ out' = [out EXCEPT ![t].pc = b, ![t].text = text, ![t].bx = 0, ![t].shown = shown]
    BY <1>6 DEF EndChar, EachChar
  <2>2. out[t].pc # "lock"
    BY <1>6, Zenon DEF EndChar
  <2> QED BY <2>1, <2>2
<1> QED BY <1>1, <1>2, <1>3, <1>4, <1>5, <1>6 DEF put_char, rrvars

\* So is each step of put_int.
LEMMA PutIntPrints ==
    ASSUME ApartInv, NEW t \in Thread, PutIntStep(t)
    PROVE  /\ Prints(t) /\ out[t].pc # "lock" /\ out'[t].pc # "none"
           /\ UNCHANGED <<mutexvars, running, lines, spin>>
<1> USE DEF ApartInv, Shapes, Prints, At
<1>1. CASE Fill(t)
  <2>1. PICK edi, eax, b : b # "none" /\ out' = [out EXCEPT ![t].edi = edi, ![t].eax = eax, ![t].pc = b]
    BY <1>1 DEF Fill
  <2>2. out[t].pc # "lock"
    BY <1>1, Zenon DEF Fill
  <2> QED BY <2>1, <2>2 DEF PutIntStep, rrvars
<1>2. CASE Skip(t)
  <2>1. PICK edi, text, b : b # "none" /\ out' = [out EXCEPT ![t].edi = edi, ![t].text = text, ![t].pc = b]
    BY <1>2, Zenon DEF Skip
  <2>2. out[t].pc # "lock"
    BY <1>2, Zenon DEF Skip
  <2> QED BY <2>1, <2>2 DEF PutIntStep, rrvars
<1>3. CASE Load(t)
  <2>1. out[t].pc # "lock"
    BY <1>3, Zenon DEF Load
  <2>2. CASE out' = [out EXCEPT ![t].pc = "done"]
    BY <2>1, <2>2 DEF PutIntStep, rrvars
  <2>3. ASSUME NEW edi, NEW text, NEW b, b # "none",
               out' = [out EXCEPT ![t].edi = edi, ![t].text = text, ![t].pc = b]
        PROVE  Prints(t) /\ out'[t].pc # "none"
    BY <2>3
  <2> QED BY <1>3, <2>1, <2>2, <2>3, Zenon DEF Load, PutIntStep, rrvars
<1> QED BY <1>1, <1>2, <1>3 DEF PutIntStep, rrvars

\* Calls begin at no label of put_char, and EndStr ends behind the last one.
LEMMA CallPrints ==
    ASSUME ApartInv, NEW t \in Thread,
           \/ \E m \in Messages : put_str(t, m) \/ printk(t, m)
           \/ \E n \in Numbers : put_int(t, n)
           \/ \E pos \in Places : set_cursor(t, pos)
           \/ cls_screen(t) \/ EndStr(t) \/ NextLine(t)
    PROVE  Prints(t) /\ out[t].pc # "lock" /\ UNCHANGED mutexvars
<1> USE DEF ApartInv, Shapes, Prints, At
<1>1. ASSUME NEW a, NEW m, Begin(t, a, m)
      PROVE  Prints(t) /\ out[t].pc # "lock"
  BY <1>1 DEF Begin, Silent
<1>2. ASSUME NEW pos, set_cursor(t, pos)
      PROVE  Prints(t) /\ out[t].pc # "lock" /\ UNCHANGED mutexvars
  BY <1>2 DEF set_cursor, Call, Silent
<1>3. ASSUME NEW n, put_int(t, n)
      PROVE  Prints(t) /\ out[t].pc # "lock" /\ UNCHANGED mutexvars
  BY <1>3 DEF put_int, Call, Silent
<1>4. ASSUME EndStr(t)
      PROVE  Prints(t) /\ out[t].pc # "lock" /\ UNCHANGED mutexvars
  BY <1>4 DEF EndStr, Silent
<1> QED BY <1>1, <1>2, <1>3, <1>4 DEF put_str, printk, cls_screen, Call, NextLine

\* mutex_lock takes a lock that is free, or leaves the caller before put_str.
LEMMA ApartLock ==
    ASSUME ApartInv, NEW t \in Thread, Lock(t)
    PROVE  ApartInv'
<1>1. out[t].pc = "lock"
  BY Zenon DEF Lock, At
<1>2. CASE Acquire(t) /\ out' = [out EXCEPT ![t].pc = EachChar(out[t].text)]
  <2>1. /\ phase[t] = "out" /\ phase' = [phase EXCEPT ![t] = "owner"]
        /\ owner = NULL /\ owner' = t
    BY <1>2 DEF Acquire, Moves
  <2>2. Shapes'
    BY <1>2, <2>1 DEF ApartInv, Shapes
  <2>3. OwnerAgrees'
    BY <2>1, NullAssumption DEF ApartInv, Shapes, OwnerAgrees
  <2>4. ParkedWaits'
    BY <1>2, <2>1 DEF ApartInv, Shapes, ParkedWaits
  <2> QED BY <2>2, <2>3, <2>4 DEF ApartInv
<1>3. CASE Park(t) /\ UNCHANGED out
  BY <1>1, <1>3 DEF Park, Moves, ApartInv, Shapes, OwnerAgrees, ParkedWaits
<1>4. CASE Block(t) /\ UNCHANGED out
  BY <1>4 DEF Block, Moves, ApartInv, Shapes, OwnerAgrees, ParkedWaits
<1> QED BY <1>2, <1>3, <1>4 DEF Lock

\* The owner leaves, and there is no other.
LEMMA ApartUnlock ==
    ASSUME ApartInv, NEW t \in Thread, Unlock(t)
    PROVE  ApartInv'
<1>1. out[t].pc = "done" /\ out' = [out EXCEPT ![t] = Silent]
  BY Zenon DEF Unlock, At
<1>2. phase[t] = "owner" /\ phase' = [phase EXCEPT ![t] = "out"]
  BY DEF Unlock, Release, Moves
<1>3. Shapes'
  BY <1>1, <1>2 DEF ApartInv, Shapes, Silent
<1>4. OwnerAgrees'
  BY <1>2 DEF Unlock, Release, ApartInv, Shapes, OwnerAgrees
<1>5. ParkedWaits'
  BY <1>1, <1>2 DEF ApartInv, Shapes, ParkedWaits
<1> QED BY <1>3, <1>4, <1>5 DEF ApartInv

\* A panic comes on top of whatever its thread was at, which keeps what it owns
\* and is no longer in put_str with it.
LEMMA ApartPanics ==
    ASSUME ApartInv, NEW t \in Thread, kernel_panic(t)
    PROVE  /\ ApartInv' /\ phase' = [phase EXCEPT ![t] = "out"]
           /\ out' = [out EXCEPT ![t] = [Silent EXCEPT !.pc = "lock", !.text = Head(Report)]]
           /\ lines' = [lines EXCEPT ![t] = Report] /\ running = t /\ ~Panics(t)
           /\ UNCHANGED running
<1>1. PICK o : o = [Silent EXCEPT !.pc = "lock", !.text = Head(Report)]
  OBVIOUS
<1>2. o.pc = "lock" /\ "pc" \in DOMAIN o /\ o = [f \in DOMAIN o |-> o[f]]
  BY <1>1 DEF Silent
<1>3. out' = [out EXCEPT ![t] = o] /\ phase' = [phase EXCEPT ![t] = "out"] /\ owner' = owner
  BY <1>1, Zenon DEF kernel_panic
<1>4. Shapes'
  BY <1>2, <1>3 DEF ApartInv, Shapes
<1>5. OwnerAgrees' /\ ParkedWaits'
  BY <1>2, <1>3 DEF ApartInv, Shapes, OwnerAgrees, ParkedWaits
<1>6. /\ lines' = [lines EXCEPT ![t] = Report] /\ running = t /\ ~Panics(t)
      /\ UNCHANGED running
  BY DEF kernel_panic, rrvars
<1> QED BY <1>1, <1>3, <1>4, <1>5, <1>6, Zenon DEF ApartInv

LEMMA ApartNext == ApartInv /\ [Next]_vars => ApartInv'
<1> SUFFICES ASSUME ApartInv, [Next]_vars PROVE ApartInv'
  OBVIOUS
<1>1. CASE UNCHANGED vars
  BY <1>1, ApartStutter DEF vars, printvars
<1>2. CASE Tick
  BY <1>2, ApartStutter DEF Tick, Others, printvars
<1>3. ASSUME NEW t \in Thread, put_char(t) PROVE ApartInv'
  BY <1>3, PutCharPrints, ApartPrints
<1>4. ASSUME NEW t \in Thread, PutIntStep(t) PROVE ApartInv'
  BY <1>4, PutIntPrints, ApartPrints
<1>5. ASSUME NEW t \in Thread, SpinLock(t) PROVE ApartInv'
  BY <1>5, ApartStutter DEF SpinLock
<1>6. ASSUME NEW t \in Thread, Lock(t) PROVE ApartInv'
  BY <1>6, ApartLock
<1>7. ASSUME NEW t \in Thread, Unlock(t) PROVE ApartInv'
  BY <1>7, ApartUnlock
<1>8. ASSUME NEW t \in Thread,
             \/ \E m \in Messages : put_str(t, m) \/ printk(t, m)
             \/ \E n \in Numbers : put_int(t, n)
             \/ \E pos \in Places : set_cursor(t, pos)
             \/ cls_screen(t) \/ EndStr(t) \/ NextLine(t)
      PROVE  ApartInv'
  BY <1>8, CallPrints, ApartPrints
<1>9. ASSUME NEW t \in Thread, kernel_panic(t) PROVE ApartInv'
  BY <1>9, ApartPanics
<1> QED BY <1>1, <1>2, <1>3, <1>4, <1>5, <1>6, <1>7, <1>8, <1>9, Zenon DEF Next

\* Of the threads in put_char at most one came through mutex_lock of printk_lock
\* (printk.c:18-20): with the lock, only callers that bypass it can meet there.
THEOREM LockedApartHolds == Spec => []LockedApart
<1> QED BY ApartInit, ApartNext, ApartImplied, PTL DEF Spec

-----------------------------------------------------------------------------
(* The report of a panic.                                                  *)

\* A thread is in the grip of its panic from its first line under the lock on.
Grip(t) == Panics(t) /\ (phase[t] = "owner" \/ Len(lines[t]) < Len(Report))

\* Such a thread runs, and never finds the spinlock or the mutex taken: nobody
\* else has run since it took them itself.
Gripped ==
    \A t \in Thread : Grip(t) =>
        /\ running = t
        /\ spin \in {NULL, t}
        /\ phase[t] = "owner" \/ (phase[t] = "out" /\ owner = NULL)
RestOwnsNothing == \A t \in Thread : out[t].pc = "none" => phase[t] # "owner"
LinesLeft == lines \in [Thread -> Seq(Range(Report))]
PanicInv == ApartInv /\ Gripped /\ RestOwnsNothing /\ LinesLeft

LEMMA PanicImplied == PanicInv => ReportUninterrupted
BY DEF PanicInv, Gripped, Grip, ReportUninterrupted

LEMMA PanicInit == Init => PanicInv
<1> SUFFICES ASSUME Init PROVE PanicInv
  OBVIOUS
<1>1. lines = [t \in Thread |-> <<>>] /\ phase = [t \in Thread |-> "out"]
  BY DEF Init, MutexInit
<1>2. LinesLeft /\ RestOwnsNothing
  BY <1>1 DEF LinesLeft, RestOwnsNothing
<1>3. Gripped
  BY <1>1 DEF Gripped, Grip, Panics
<1> QED BY <1>2, <1>3, ApartInit DEF PanicInv

\* The running thread goes on printing.
LEMMA PanicPrints ==
    ASSUME PanicInv, NEW t \in Thread, Prints(t), out[t].pc # "lock",
           out'[t].pc # "none" \/ phase[t] # "owner",
           UNCHANGED <<mutexvars, running, lines, spin>>
    PROVE  PanicInv'
<1>1. ApartInv'
  BY ApartPrints DEF PanicInv
<1>2. Gripped' /\ LinesLeft'
  BY DEF PanicInv, Gripped, Grip, Panics, LinesLeft, mutexvars
<1>3. RestOwnsNothing'
  BY DEF PanicInv, RestOwnsNothing, Prints, mutexvars
<1> QED BY <1>1, <1>2, <1>3 DEF PanicInv

\* A tick or a yield comes only when no panic has the machine.
LEMMA PanicSwitch ==
    ASSUME PanicInv, \A t \in Thread : ~Grip(t), UNCHANGED <<mutexvars, out, lines>>
    PROVE  PanicInv'
<1>1. ApartInv'
  BY ApartStutter DEF PanicInv
<1>2. Gripped' /\ LinesLeft' /\ RestOwnsNothing'
  BY DEF PanicInv, Gripped, Grip, Panics, LinesLeft, RestOwnsNothing, mutexvars
<1> QED BY <1>1, <1>2 DEF PanicInv

\* Calls, and the ends of strings.
LEMMA PanicCall ==
    ASSUME PanicInv, NEW t \in Thread,
           \/ \E m \in Messages : put_str(t, m) \/ printk(t, m)
           \/ \E n \in Numbers : put_int(t, n)
           \/ \E pos \in Places : set_cursor(t, pos)
           \/ cls_screen(t) \/ EndStr(t) \/ NextLine(t)
    PROVE  PanicInv'
<1>1. Prints(t) /\ out[t].pc # "lock" /\ UNCHANGED mutexvars
  BY CallPrints DEF PanicInv
<1>2. UNCHANGED <<running, lines, spin>>
  BY DEF put_str, printk, put_int, set_cursor, cls_screen, Call, EndStr, NextLine, rrvars
<1>3. out[t].pc = "none" \/ phase[t] # "owner"
  BY DEF put_str, printk, put_int, set_cursor, cls_screen, Begin, EndStr, NextLine, At
<1> QED BY <1>1, <1>2, <1>3, PanicPrints DEF PanicInv, RestOwnsNothing

\* A panic begins, in a thread that runs: nobody is in the grip of another, and its
\* own report is whole.
LEMMA PanicBegins ==
    ASSUME PanicInv, NEW t \in Thread, kernel_panic(t)
    PROVE  PanicInv'
<1>1. /\ ApartInv' /\ phase' = [phase EXCEPT ![t] = "out"]
      /\ out' = [out EXCEPT ![t] = [Silent EXCEPT !.pc = "lock", !.text = Head(Report)]]
      /\ lines' = [lines EXCEPT ![t] = Report] /\ running = t /\ ~Panics(t)
      /\ phase \in [Thread -> {"out", "parked", "owner"}] /\ DOMAIN out = Thread
  BY ApartPanics DEF PanicInv, ApartInv, Shapes
<1>2. Report \in Seq(Range(Report))
  BY ConsoleAssumption
<1>3. LinesLeft'
  BY <1>1, <1>2 DEF PanicInv, LinesLeft
<1>4. ~Grip(t)'
  BY <1>1, <1>2 DEF PanicInv, LinesLeft, Grip
<1>5. \A u \in Thread : ~Grip(u)
  BY <1>1 DEF PanicInv, Gripped, Grip
<1>6. \A u \in Thread \ {t} : ~Grip(u)'
  BY <1>1, <1>5 DEF PanicInv, LinesLeft, Grip, Panics
<1>7. Gripped'
  BY <1>4, <1>6 DEF Gripped
<1>8. RestOwnsNothing'
  BY <1>1 DEF PanicInv, RestOwnsNothing
<1> QED BY <1>1, <1>3, <1>7, <1>8 DEF PanicInv

\* A thread in the grip of a panic finds the spinlock free.
LEMMA PanicSpinLock ==
    ASSUME PanicInv, NEW t \in Thread, SpinLock(t)
    PROVE  PanicInv'
<1>1. running = t /\ spin # t /\ UNCHANGED <<mutexvars, out, lines>>
  BY Zenon DEF SpinLock, InMutex, At
<1>2. CASE \A u \in Thread : ~Grip(u)
  BY <1>1, <1>2, PanicSwitch
<1>3. CASE \E u \in Thread : Grip(u)
  <2>1. Grip(t) /\ spin = NULL
    BY <1>1, <1>3 DEF PanicInv, Gripped
  <2>2. spin' = t /\ running' = running
    BY <2>1, Zenon DEF SpinLock, rrvars
  <2>3. ApartInv'
    BY <1>1, ApartStutter DEF PanicInv
  <2>4. Gripped' /\ LinesLeft' /\ RestOwnsNothing'
    BY <1>1, <2>2 DEF PanicInv, Gripped, Grip, Panics, LinesLeft, RestOwnsNothing, mutexvars
  <2> QED BY <2>3, <2>4 DEF PanicInv
<1> QED BY <1>2, <1>3

\* mutex_lock of printk_lock: the thread that panics takes it or, before its first
\* line, waits for it.
LEMMA PanicLock ==
    ASSUME PanicInv, NEW t \in Thread, Lock(t)
    PROVE  PanicInv'
<1>1. ApartInv'
  BY ApartLock DEF PanicInv
<1>2. running = t /\ out[t].pc = "lock" /\ lines' = lines
  BY Zenon DEF Lock, At
<1>3. phase \in [Thread -> {"out", "parked", "owner"}] /\ DOMAIN out = Thread
  BY DEF PanicInv, ApartInv, Shapes
<1>4. CASE Acquire(t) /\ spin' = NULL /\ out' = [out EXCEPT ![t].pc = EachChar(out[t].text)]
  <2>1. /\ phase' = [phase EXCEPT ![t] = "owner"] /\ running' = t
    BY <1>2, <1>4 DEF Acquire, Moves, rrvars
  <2>2. RestOwnsNothing'
    BY <1>3, <1>4, <2>1 DEF PanicInv, ApartInv, Shapes, RestOwnsNothing, EachChar
  <2>3. Gripped' /\ LinesLeft'
    BY <1>2, <1>3, <1>4, <2>1 DEF PanicInv, Gripped, Grip, Panics, LinesLeft
  <2> QED BY <1>1, <2>2, <2>3 DEF PanicInv
<1>5. CASE Park(t) /\ UNCHANGED out
  <2>1. phase[t] = "out" /\ owner # NULL /\ phase' = [phase EXCEPT ![t] = "parked"]
    BY <1>5 DEF Park, Moves
  <2>2. \A u \in Thread : ~Grip(u)
    BY <1>2, <2>1 DEF PanicInv, Gripped
  <2>3. Gripped' /\ LinesLeft'
    BY <1>2, <1>3, <2>1, <2>2 DEF PanicInv, Gripped, Grip, Panics, LinesLeft
  <2>4. RestOwnsNothing'
    BY <1>3, <1>5, <2>1 DEF PanicInv, RestOwnsNothing
  <2> QED BY <1>1, <2>3, <2>4 DEF PanicInv
<1>6. CASE Block(t) /\ UNCHANGED out
  <2>1. phase[t] = "parked" /\ phase' = [phase EXCEPT ![t] = "out"]
    BY <1>6 DEF Block, Moves
  <2>2. \A u \in Thread : ~Grip(u)
    BY <1>2, <2>1 DEF PanicInv, Gripped
  <2>3. Gripped' /\ LinesLeft'
    BY <1>2, <1>3, <2>1, <2>2 DEF PanicInv, Gripped, Grip, Panics, LinesLeft
  <2>4. RestOwnsNothing'
    BY <1>3, <1>6, <2>1 DEF PanicInv, RestOwnsNothing
  <2> QED BY <1>1, <2>3, <2>4 DEF PanicInv
<1> QED BY <1>4, <1>5, <1>6 DEF Lock

\* Between two lines the lock is free and its thread runs on: an unlock wakes, and
\* a wake-up does not switch.
LEMMA PanicUnlock ==
    ASSUME PanicInv, NEW t \in Thread, Unlock(t)
    PROVE  PanicInv'
<1>1. ApartInv'
  BY ApartUnlock DEF PanicInv
<1>2. running = t /\ spin' = NULL /\ out' = [out EXCEPT ![t] = Silent]
  BY Zenon DEF Unlock, At
<1>3. /\ owner' = NULL /\ phase' = [phase EXCEPT ![t] = "out"]
      /\ running' = running
  BY DEF Unlock, Release, Moves, Wake, rrvars
<1>4. \/ Panics(t) /\ lines' = [lines EXCEPT ![t] = Tail(lines[t])]
      \/ ~Panics(t) /\ lines' = lines
  BY Zenon DEF Unlock
<1>5. phase \in [Thread -> {"out", "parked", "owner"}] /\ DOMAIN out = Thread
  BY DEF PanicInv, ApartInv, Shapes
<1>6. LinesLeft'
  BY <1>4 DEF PanicInv, LinesLeft, Panics
<1>7. RestOwnsNothing'
  BY <1>2, <1>3, <1>5 DEF PanicInv, ApartInv, Shapes, RestOwnsNothing
<1>8. \A u \in Thread \ {t} : ~Grip(u)'
  BY <1>2, <1>3, <1>4, <1>5 DEF PanicInv, LinesLeft, Gripped, Grip, Panics
<1>9. Gripped'
  BY <1>2, <1>3, <1>5, <1>8 DEF Gripped
<1> QED BY <1>1, <1>6, <1>7, <1>9 DEF PanicInv

LEMMA PanicNext == PanicInv /\ [Next]_vars => PanicInv'
<1> SUFFICES ASSUME PanicInv, [Next]_vars PROVE PanicInv'
  OBVIOUS
<1>1. CASE UNCHANGED vars
  <2>1. ApartInv'
    BY <1>1, ApartStutter DEF PanicInv, vars, printvars
  <2>2. Gripped' /\ LinesLeft' /\ RestOwnsNothing'
    BY <1>1 DEF PanicInv, Gripped, Grip, Panics, LinesLeft, RestOwnsNothing,
                vars, printvars, mutexvars, rrvars
  <2> QED BY <2>1, <2>2 DEF PanicInv
<1>2. CASE Tick
  <2>1. UNCHANGED <<mutexvars, out, lines>> /\ ~Panics(running)
    BY <1>2 DEF Tick, Others, Enabled, printvars
  <2> QED BY <2>1, PanicSwitch DEF PanicInv, Gripped, Grip
<1>3. ASSUME NEW t \in Thread, put_char(t) PROVE PanicInv'
  BY <1>3, PutCharPrints, PanicPrints DEF PanicInv
<1>4. ASSUME NEW t \in Thread, PutIntStep(t) PROVE PanicInv'
  BY <1>4, PutIntPrints, PanicPrints DEF PanicInv
<1>5. ASSUME NEW t \in Thread,
             SpinLock(t) \/ Lock(t) \/ Unlock(t) \/ kernel_panic(t)
      PROVE  PanicInv'
  BY <1>5, PanicSpinLock, PanicLock, PanicUnlock, PanicBegins
<1>6. ASSUME NEW t \in Thread,
             \/ \E m \in Messages : put_str(t, m) \/ printk(t, m)
             \/ \E n \in Numbers : put_int(t, n)
             \/ \E pos \in Places : set_cursor(t, pos)
             \/ cls_screen(t) \/ EndStr(t) \/ NextLine(t)
      PROVE  PanicInv'
  BY <1>6, PanicCall
<1> QED BY <1>1, <1>2, <1>3, <1>4, <1>5, <1>6, Zenon DEF Next

\* Once kernel_panic has the lock for its first line, no other thread runs until
\* the last line is out (assert.c:8-15): interrupts are off, and neither the
\* spinlock nor the mutex makes the thread yield or sleep.
THEOREM ReportUninterruptedHolds == Spec => []ReportUninterrupted
<1> QED BY PanicInit, PanicNext, PanicImplied, PTL DEF Spec

-----------------------------------------------------------------------------
(* The screen.  ScreenShowsText speaks of moments with nobody in put_char; the *)
(* inductive invariant says what holds at each of put_char's points in between *)
(* for the one thread that is there (Phase), and what is printed (Kinds).      *)

\* What can be drawn: characters of messages and digits.
Glyphs == {HexDigits[k] : k \in 1..16}
Drawn == (Characters \ {Move, Clear}) \cup Glyphs

\* ToDraw the character at work is drawn, and when its cursor is written.
ToDraw == {"select hi", "in hi", "select lo", "in lo", "draw", "roll"}
ToPlace == {"set hi", "out hi", "set lo", "out lo"}
Labels == ToDraw \cup ToPlace \cup {"none", "lock", "clear", "fill", "skip", "load", "done"}

Texts == Seq(Drawn) \cup {<<Move>>, <<Clear>>}
Fields == {"pc", "text", "bx", "edi", "num", "eax", "shown", "shared"}

\* What a thread prints, and where it is in its text, go together.
TextFits(o) ==
    /\ o.text \in Texts
    /\ o.pc \in {"lock"} \cup ToDraw => o.text \in Seq(Drawn)
    /\ o.pc \in ToDraw \cup ToPlace => o.text # <<>>
    /\ o.pc = "clear" => o.text = <<Clear>>
    /\ o.pc = "skip" => o.edi = 0 \/ (o.text \in Seq(Drawn) /\ o.text # <<>>)

IsOut(o) ==
    /\ DOMAIN o = Fields /\ o = [f \in DOMAIN o |-> o[f]]
    /\ o.pc \in Labels /\ TextFits(o)
    /\ o.bx \in Int /\ o.edi \in 0..(Digits + 1) /\ o.eax \in Nat
    /\ o.pc \notin {"in lo", "select lo", "draw", "roll"} \cup ToPlace => o.bx = 0
    /\ o.pc = "fill" => o.edi \in 1..Digits
    /\ o.pc = "skip" => o.edi <= Digits

AllCells(cells) == cells = [i \in 0..(Cells - 1) |-> cells[i]]

Kinds ==
    /\ DOMAIN out = Thread /\ out = [t \in Thread |-> out[t]]
    /\ \A t \in Thread : IsOut(out[t])
    /\ lines \in [Thread -> Seq(Range(Report))]
    /\ put_int_buffer \in [1..Digits -> Glyphs]
    /\ index \in {"hi", "lo"} /\ cursor \in [hi : Int, lo : Int]
    /\ AllCells(cell)

\* The roll, of which the screen shows what starts with its row top.
IsPaper(p) ==
    /\ p = [text |-> p.text, pos |-> p.pos, top |-> p.top]
    /\ p.text = [i \in DOMAIN p.text |-> p.text[i]]
    /\ p.top \in Nat /\ p.pos \in Nat
Ends(text, n) == \A i \in DOMAIN text : i \in Nat /\ i < n
PaperOK(p) ==
    /\ IsPaper(p)
    /\ p.top * Columns <= p.pos /\ p.pos < p.top * Columns + Screen
    /\ Ends(p.text, p.top * Columns + Screen)
Shows(cells, text, from) ==
    \A i \in 0..(Screen - 1) :
       cells[i] = IF from + i \in DOMAIN text THEN text[from + i] ELSE Space
ShowsPaper(cells, p) == PaperOK(p) /\ Shows(cells, p.text, p.top * Columns)
Place(p) == p.pos - p.top * Columns
CursorIs(cur, n) == cur.hi * Byte + cur.lo = n

\* Before a roll, the screen shows the rows above the last one of the paper.
BeforeRoll(cells, p, q) ==
    /\ PaperOK(p) /\ IsPaper(q)
    /\ q.pos = p.top * Columns + Screen /\ q.top = p.top + 1
    /\ Ends(q.text, p.top * Columns + Screen)
    /\ Shows(cells, q.text, p.top * Columns)

\* put_char at each of its points, when nobody disturbs it: q is the paper when it
\* is done.
Phase(o, cells, ix, cur, p) ==
    LET q == OnPaper(p, Head(o.text), o.bx)
    IN  /\ o.pc \in {"in hi", "select lo", "in lo", "draw"} =>
              ShowsPaper(cells, p) /\ CursorIs(cur, Place(p))
        /\ o.pc = "in hi" => ix = "hi"
        /\ o.pc \in {"select lo", "in lo"} => o.bx = cur.hi * Byte
        /\ o.pc = "in lo" => ix = "lo"
        /\ o.pc = "draw" => o.bx = Place(p)
        /\ o.pc = "roll" => BeforeRoll(cells, p, q)
        /\ o.pc \in ToPlace => ShowsPaper(cells, q) /\ o.bx = Place(q)
        /\ o.pc = "out hi" => ix = "hi"
        /\ o.pc \in {"set lo", "out lo"} => cur.hi = o.bx \div Byte
        /\ o.pc = "out lo" => ix = "lo"

\* When two threads meet in put_char nothing is said of the screen: the next of
\* their steps sets garbled.
Meet == \E t, u \in Thread : t # u /\ InPutChar(t) /\ InPutChar(u)
Quiet == \A t \in Thread : ~InPutChar(t)

ScreenRel ==
    garbled \/ Meet \/
       /\ Quiet => ShowsPaper(cell, paper) /\ CursorIs(cursor, Place(paper))
       /\ \A t \in Thread : InPutChar(t) => Phase(out[t], cell, index, cursor, paper)

ScreenInv == Kinds /\ ScreenRel

\* What the assumption on the constants says of the sizes.
LEMMA Sizes ==
    /\ Columns \in Nat \ {0} /\ Rows \in Nat \ {0} /\ Byte \in Nat \ {0}
    /\ Screen \in Nat \ {0} /\ Columns <= Screen /\ Screen % Columns = 0 /\ Screen \div Columns = Rows
    /\ Cells \in Nat \ {0} /\ Screen < Cells /\ Short = 2 * Cells /\ Short \in Nat
<1>1. Columns \in Nat \ {0} /\ Rows \in Nat \ {0} /\ Byte \in Nat
  BY ConsoleAssumption, Zenon
<1>11. Byte % 2 = 0 /\ Screen < Cells
  BY ConsoleAssumption, Zenon
<1>2. PICK s \in Nat : s = Columns * Rows
  BY <1>1
<1>3. Screen = s /\ Columns <= s /\ s # 0
  <2>1. PICK r \in Nat : Rows = r + 1
    BY <1>1
  <2>2. Columns * Rows = Columns * r + Columns
    BY <1>1, <2>1
  <2>3. PICK z \in Nat : z = Columns * r
    BY <1>1, <2>1
  <2> QED BY <1>1, <1>2, <2>2, <2>3 DEF Screen
<1>4. Screen % Columns = 0 /\ Screen \div Columns = Rows
  BY <1>1 DEF Screen
<1>5. PICK k \in Nat : Byte = 2 * k
  BY <1>1, <1>11
<1>6. PICK c \in Nat : c = k * Byte
  BY <1>1, <1>5
<1>7. Byte * Byte = 2 * c
  BY <1>1, <1>5, <1>6
<1>8. Short = 2 * c /\ Cells = c
  BY <1>7 DEF Short, Cells
<1>9. Screen < Cells
  BY <1>11
<1>10. Byte # 0
  BY <1>3, <1>7, <1>8, <1>9
<1> QED BY <1>1, <1>3, <1>4, <1>8, <1>9, <1>10

\* The row of a place that is n cells behind the start of row top.
LEMMA RowOf ==
    ASSUME NEW top \in Nat, NEW n \in 0..Screen
    PROVE  /\ (top * Columns + n) \div Columns = top + n \div Columns
           /\ (top * Columns + n) % Columns = n % Columns
           /\ n \div Columns \in Nat
           /\ n < Screen => n \div Columns < Rows
           /\ n = Screen => n \div Columns = Rows
<1> DEFINE d == n \div Columns
           m == n % Columns
<1>1. Columns \in Nat \ {0} /\ Rows \in Nat \ {0} /\ n \in Nat /\ Screen = Columns * Rows
  BY Sizes DEF Screen
<1>2. d \in Nat /\ m \in 0..(Columns - 1) /\ n = Columns * d + m
  BY <1>1
<1> HIDE DEF d, m
<1>3. top * Columns + n = Columns * (top + d) + m /\ top + d \in Nat
  BY <1>1, <1>2
<1>4. \A q \in Nat : (Columns * q + m) \div Columns = q /\ (Columns * q + m) % Columns = m
  BY <1>1, <1>2
<1>5. (top * Columns + n) \div Columns = top + d /\ (top * Columns + n) % Columns = m
  BY <1>3, <1>4
<1>6. n < Screen => d < Rows
  BY <1>1, <1>2
<1> QED BY <1>2, <1>5, <1>6, Sizes DEF d, m

\* A line feed goes to the start of the next row.
LEMMA NextRow ==
    ASSUME NEW top \in Nat, NEW n \in 0..(Screen - 1)
    PROVE  LET m == (n - (n % Columns)) + Columns
           IN  /\ m \in 0..Screen /\ m > n
               /\ ((top * Columns + n) \div Columns + 1) * Columns = top * Columns + m
<1> DEFINE d == n \div Columns
           r == n % Columns
<1>1. Columns \in Nat \ {0} /\ Rows \in Nat \ {0} /\ n \in Nat /\ Screen = Columns * Rows /\ Screen \in Nat
  BY Sizes DEF Screen
<1>2. d \in Nat /\ r \in 0..(Columns - 1) /\ n = Columns * d + r
  BY <1>1
<1>3. (top * Columns + n) \div Columns = top + d /\ d < Rows
  BY RowOf, <1>1
<1> HIDE DEF d, r
<1>4. (top + d + 1) * Columns = top * Columns + Columns * d + Columns
  BY <1>1, <1>2
<1>5. PICK e \in Nat : Rows = d + 1 + e
  BY <1>1, <1>2, <1>3
<1>6. Screen = Columns * d + Columns + Columns * e
  BY <1>1, <1>2, <1>5
<1>7. PICK x \in Nat, y \in Nat, z \in Nat : x = Columns * d /\ y = Columns * e /\ z = top * Columns
  BY <1>1, <1>2
<1>8. (n - r) + Columns = x + Columns /\ x + Columns \in 0..Screen /\ x + Columns > n
  BY <1>1, <1>2, <1>6, <1>7
<1>9. ((top * Columns + n) \div Columns + 1) * Columns = top * Columns + (x + Columns)
  BY <1>1, <1>2, <1>3, <1>4, <1>7
<1> QED BY <1>8, <1>9 DEF r

\* The roll moves up only for a place behind the screen.
LEMMA TopOf ==
    ASSUME NEW top \in Nat, NEW k \in 0..Screen
    PROVE  LET row == (top * Columns + k) \div Columns
           IN  (IF row - Rows + 1 > top THEN row - Rows + 1 ELSE top)
                 = IF k = Screen THEN top + 1 ELSE top
<1>1. PICK d \in Nat : d = k \div Columns /\ (top * Columns + k) \div Columns = top + d
  BY RowOf
<1>2. (k < Screen => d < Rows) /\ (k = Screen => d = Rows)
  BY <1>1, RowOf
<1> QED BY <1>1, <1>2, Sizes

\* Where the cursor goes after a character at place n.
After(n, c) == CASE c = BS -> n - 1
                 [] c = LF -> (n - (n % Columns)) + Columns
                 [] OTHER -> n + 1
Inked(p, c) == CASE c = BS -> Written(p, p.pos - 1, Space)
                 [] c = LF -> p.text
                 [] OTHER -> Written(p, p.pos, c)
Drew(cells, n, c) == CASE c = BS -> [cells EXCEPT ![n - 1] = Space]
                       [] c = LF -> cells
                       [] OTHER -> [cells EXCEPT ![n] = c]

\* It stays on the screen, or comes to its end.
LEMMA AfterPlace ==
    ASSUME NEW n \in 0..(Screen - 1), NEW c, c = BS => n > 0
    PROVE  /\ After(n, c) \in 0..Screen
           /\ c = BS => After(n, c) = n - 1
           /\ c = LF => After(n, c) = (n - (n % Columns)) + Columns
           /\ c # BS /\ c # LF => After(n, c) = n + 1
<1>1. CASE c = LF
  BY <1>1, NextRow, Sizes DEF After, BS, LF
<1>2. CASE c # LF
  BY <1>2, Sizes DEF After
<1> QED BY <1>1, <1>2

\* A paper that is in order puts the cursor on the screen.
LEMMA PlaceIn ==
    ASSUME NEW p, PaperOK(p)
    PROVE  /\ Place(p) \in 0..(Screen - 1) /\ p.top \in Nat /\ p.pos \in Nat
           /\ p.pos = p.top * Columns + Place(p) /\ p.top * Columns \in Nat
<1>1. p.top \in Nat /\ p.pos \in Nat /\ p.top * Columns <= p.pos /\ p.pos < p.top * Columns + Screen
  BY DEF PaperOK, IsPaper
<1>2. PICK x \in Nat : x = p.top * Columns
  BY <1>1, Sizes
<1> QED BY <1>1, <1>2, Sizes DEF Place

\* What a character does to the roll.
LEMMA PaperDraws ==
    ASSUME NEW p, PaperOK(p), NEW c, c # Move, c # Clear, c = BS => Place(p) > 0, NEW bx
    PROVE  LET k == After(Place(p), c)
           IN  OnPaper(p, c, bx) = [text |-> Inked(p, c), pos |-> p.top * Columns + k,
                                    top |-> IF k = Screen THEN p.top + 1 ELSE p.top]
<1> DEFINE n == Place(p)
           k == After(n, c)
           pos == CASE c = BS -> p.pos - 1
                    [] c = LF -> (p.pos \div Columns + 1) * Columns
                    [] c = Move -> p.top * Columns + bx
                    [] OTHER -> p.pos + 1
           row == pos \div Columns
<1>1. n \in 0..(Screen - 1) /\ p.top \in Nat /\ p.pos = p.top * Columns + n /\ p.top * Columns \in Nat
  BY PlaceIn
<1>2. k \in 0..Screen
  BY <1>1, AfterPlace
<1>3. pos = p.top * Columns + k
  <2>1. CASE c = LF
    <3>1. ((p.top * Columns + n) \div Columns + 1) * Columns = p.top * Columns + ((n - (n % Columns)) + Columns)
      BY <1>1, NextRow
    <3>2. k = (n - (n % Columns)) + Columns
      BY <1>1, <2>1, AfterPlace DEF BS, LF
    <3>3. pos = (p.pos \div Columns + 1) * Columns
      BY <2>1 DEF BS, LF
    <3> HIDE DEF k, n, pos
    <3>4. p.pos = p.top * Columns + n
      BY <1>1
    <3>5. pos = ((p.top * Columns + n) \div Columns + 1) * Columns
      BY <3>3, <3>4
    <3> QED BY <3>1, <3>2, <3>5, Zenon
  <2>2. CASE c = BS
    <3>1. k = n - 1 /\ pos = p.pos - 1
      BY <1>1, <2>2, AfterPlace DEF BS, LF
    <3> HIDE DEF k, n, pos
    <3>2. PICK x \in Nat : x = p.top * Columns
      BY <1>1
    <3> QED BY <1>1, <3>1, <3>2
  <2>3. CASE c # LF /\ c # BS
    <3>1. k = n + 1 /\ pos = p.pos + 1
      BY <1>1, <2>3, AfterPlace
    <3> HIDE DEF k, n, pos
    <3>2. PICK x \in Nat : x = p.top * Columns
      BY <1>1
    <3> QED BY <1>1, <3>1, <3>2
  <2> QED BY <2>1, <2>2, <2>3
<1>4. (IF row - Rows + 1 > p.top THEN row - Rows + 1 ELSE p.top) = IF k = Screen THEN p.top + 1 ELSE p.top
  <2> HIDE DEF k, pos
  <2> QED BY <1>1, <1>2, <1>3, TopOf
<1>5. OnPaper(p, c, bx) =
        [text |-> CASE c = BS -> Written(p, pos, Space)
                    [] c \in {LF, Move} -> p.text
                    [] OTHER -> Written(p, p.pos, c),
         pos |-> pos,
         top |-> IF row - Rows + 1 > p.top THEN row - Rows + 1 ELSE p.top]
  BY Zenon DEF OnPaper
<1>6. (CASE c = BS -> Written(p, pos, Space)
         [] c \in {LF, Move} -> p.text
         [] OTHER -> Written(p, p.pos, c)) = Inked(p, c)
  <2>1. c = BS => pos = p.pos - 1
    BY DEF BS, LF
  <2> HIDE DEF pos
  <2> QED BY <2>1 DEF Inked, BS, LF
<1> HIDE DEF k, pos, row
<1>7. OnPaper(p, c, bx) = [text |-> Inked(p, c), pos |-> p.top * Columns + k,
                           top |-> IF k = Screen THEN p.top + 1 ELSE p.top]
  BY <1>3, <1>4, <1>5, <1>6
<1> QED BY <1>7 DEF k

\* A character on paper and in its cell.
LEMMA WrittenShows ==
    ASSUME NEW p, IsPaper(p), NEW at \in Nat, NEW n \in 0..(Screen - 1), NEW cells, AllCells(cells),
           at + n = p.pos, NEW pos \in Nat, NEW k \in 0..(Screen - 1), pos = at + k,
           Shows(cells, p.text, at), Ends(p.text, at + Screen), NEW c
    PROVE  /\ Shows([cells EXCEPT ![k] = c], Written(p, pos, c), at)
           /\ Ends(Written(p, pos, c), at + Screen)
           /\ Written(p, pos, c) = [i \in DOMAIN Written(p, pos, c) |-> Written(p, pos, c)[i]]
<1>1. Screen \in Nat /\ Cells \in Nat /\ Screen < Cells
  BY Sizes
<1>2. \A i \in 0..(Screen - 1) : [cells EXCEPT ![k] = c][i] = IF i = k THEN c ELSE cells[i]
  BY <1>1 DEF AllCells
<1>3. DOMAIN Written(p, pos, c) = DOMAIN p.text \cup {pos}
  BY DEF Written
<1>4. \A i \in DOMAIN p.text \cup {pos} : Written(p, pos, c)[i] = IF i = pos THEN c ELSE p.text[i]
  BY DEF Written
<1>5. Shows([cells EXCEPT ![k] = c], Written(p, pos, c), at)
  <2> SUFFICES ASSUME NEW i \in 0..(Screen - 1)
               PROVE  [cells EXCEPT ![k] = c][i] =
                        IF at + i \in DOMAIN Written(p, pos, c) THEN Written(p, pos, c)[at + i] ELSE Space
    BY DEF Shows
  <2>1. cells[i] = IF at + i \in DOMAIN p.text THEN p.text[at + i] ELSE Space
    BY DEF Shows
  <2>2. (at + i = pos) <=> (i = k)
    BY <1>1
  <2> QED BY <1>2, <1>3, <1>4, <2>1, <2>2
<1>6. Ends(Written(p, pos, c), at + Screen)
  BY <1>1, <1>3 DEF Ends
<1>7. Written(p, pos, c) = [i \in DOMAIN Written(p, pos, c) |-> Written(p, pos, c)[i]]
  BY DEF Written
<1> QED BY <1>5, <1>6, <1>7

\* The cells follow the roll.
LEMMA CellsDraw ==
    ASSUME NEW p, NEW cells, AllCells(cells), ShowsPaper(cells, p), NEW c, c = BS => Place(p) > 0
    PROVE  /\ Shows(Drew(cells, Place(p), c), Inked(p, c), p.top * Columns)
           /\ Ends(Inked(p, c), p.top * Columns + Screen)
           /\ Inked(p, c) = [i \in DOMAIN Inked(p, c) |-> Inked(p, c)[i]]
<1> DEFINE n == Place(p)
           at == p.top * Columns
<1>1. /\ n \in 0..(Screen - 1) /\ at \in Nat /\ p.pos = at + n /\ p.pos \in Nat
  BY PlaceIn DEF ShowsPaper
<1>2. PaperOK(p) /\ IsPaper(p) /\ Ends(p.text, at + Screen) /\ Shows(cells, p.text, at)
  BY DEF ShowsPaper, PaperOK
<1>3. Screen \in Nat
  BY Sizes
<1> HIDE DEF n, at
<1>4. CASE c = BS
  <2>1. n - 1 \in 0..(Screen - 1) /\ p.pos - 1 \in Nat /\ p.pos - 1 = at + (n - 1)
    BY <1>1, <1>3, <1>4 DEF n
  <2>2. Drew(cells, n, c) = [cells EXCEPT ![n - 1] = Space] /\ Inked(p, c) = Written(p, p.pos - 1, Space)
    BY <1>4 DEF Drew, Inked, BS, LF
  <2>3. at + n = p.pos
    BY <1>1
  <2>4. /\ Shows([cells EXCEPT ![n - 1] = Space], Written(p, p.pos - 1, Space), at)
        /\ Ends(Written(p, p.pos - 1, Space), at + Screen)
        /\ Written(p, p.pos - 1, Space) = [i \in DOMAIN Written(p, p.pos - 1, Space) |-> Written(p, p.pos - 1, Space)[i]]
    BY <1>1, <1>2, <2>1, <2>3, WrittenShows
  <2> QED BY <2>2, <2>4 DEF n, at
<1>5. CASE c = LF
  <2>1. Drew(cells, n, c) = cells /\ Inked(p, c) = p.text
    BY <1>5 DEF Drew, Inked, BS, LF
  <2> QED BY <1>2, <2>1 DEF IsPaper, n, at
<1>6. CASE c # BS /\ c # LF
  <2>2. Drew(cells, n, c) = [cells EXCEPT ![n] = c] /\ Inked(p, c) = Written(p, p.pos, c)
    BY <1>6 DEF Drew, Inked
  <2>3. at + n = p.pos
    BY <1>1
  <2>4. /\ Shows([cells EXCEPT ![n] = c], Written(p, p.pos, c), at)
        /\ Ends(Written(p, p.pos, c), at + Screen)
        /\ Written(p, p.pos, c) = [i \in DOMAIN Written(p, p.pos, c) |-> Written(p, p.pos, c)[i]]
    BY <1>1, <1>2, <2>3, WrittenShows
  <2> QED BY <2>2, <2>4 DEF n, at
<1> QED BY <1>4, <1>5, <1>6

\* draw: the character, and the place after it, are on the screen, or the paper
\* has to be rolled.
LEMMA DrawShows ==
    ASSUME NEW p, NEW cells, AllCells(cells), ShowsPaper(cells, p), NEW c, c = BS => Place(p) > 0,
           c # Move, c # Clear, NEW bx
    PROVE  LET k == After(Place(p), c)
               q == OnPaper(p, c, bx)
               new == Drew(cells, Place(p), c)
           IN  /\ k < Screen => ShowsPaper(new, q) /\ Place(q) = k
               /\ k = Screen => BeforeRoll(new, p, q)
<1> DEFINE k == After(Place(p), c)
           q == OnPaper(p, c, bx)
           new == Drew(cells, Place(p), c)
           at == p.top * Columns
<1>1. PaperOK(p)
  BY DEF ShowsPaper
<1>2. Place(p) \in 0..(Screen - 1) /\ p.top \in Nat /\ at \in Nat
  BY <1>1, PlaceIn
<1>3. k \in 0..Screen
  BY <1>2, AfterPlace
<1>4. q = [text |-> Inked(p, c), pos |-> at + k, top |-> IF k = Screen THEN p.top + 1 ELSE p.top]
  BY <1>1, PaperDraws
<1>5. /\ Shows(new, Inked(p, c), at) /\ Ends(Inked(p, c), at + Screen)
      /\ Inked(p, c) = [i \in DOMAIN Inked(p, c) |-> Inked(p, c)[i]]
  BY CellsDraw
<1> HIDE DEF k, q, new
<1>6. q.text = Inked(p, c) /\ q.pos = at + k /\ (k = Screen => q.top = p.top + 1) /\ (k # Screen => q.top = p.top)
  BY <1>4
<1>7. q = [text |-> q.text, pos |-> q.pos, top |-> q.top]
  BY <1>4
<1>8. IsPaper(q)
  BY <1>2, <1>3, <1>5, <1>6, <1>7, Sizes DEF IsPaper
<1>9. ASSUME k < Screen PROVE ShowsPaper(new, q) /\ Place(q) = k
  <2>1. q.top * Columns = at /\ k # Screen
    BY <1>3, <1>6, <1>9, Sizes
  <2> HIDE DEF at
  <2>2. Place(q) = k /\ at <= q.pos /\ q.pos < at + Screen
    BY <1>2, <1>3, <1>6, <1>9, <2>1, Sizes DEF Place
  <2>3. PaperOK(q)
    BY <1>5, <1>6, <1>8, <2>1, <2>2 DEF PaperOK
  <2> QED BY <1>5, <1>6, <2>1, <2>2, <2>3 DEF ShowsPaper
<1>10. ASSUME k = Screen PROVE BeforeRoll(new, p, q)
  BY <1>1, <1>5, <1>6, <1>8, <1>10 DEF BeforeRoll
<1> QED BY <1>9, <1>10 DEF k, q, new

\* The scroll of roll_screen, and what cls_screen leaves.
Rolled(cells) == [i \in DOMAIN cells |->
                    IF i < Screen - Columns THEN cells[i + Columns]
                    ELSE IF i < Screen THEN Space ELSE cells[i]]
Cleared(cells) == [i \in DOMAIN cells |-> IF i < Screen THEN Space ELSE cells[i]]

\* After a roll the screen shows the paper again.
LEMMA RollShows ==
    ASSUME NEW p, NEW q, NEW cells, AllCells(cells), BeforeRoll(cells, p, q)
    PROVE  ShowsPaper(Rolled(cells), q) /\ Place(q) = Screen - Columns
<1> DEFINE at == p.top * Columns
<1>1. p.top \in Nat /\ at \in Nat
  BY PlaceIn DEF BeforeRoll
<1>2. q.top * Columns = at + Columns
  BY <1>1, Sizes DEF BeforeRoll
<1>3. q.pos = at + Screen /\ IsPaper(q) /\ Ends(q.text, at + Screen) /\ Shows(cells, q.text, at)
  BY DEF BeforeRoll
<1> HIDE DEF at
<1>4. Place(q) = Screen - Columns
  BY <1>1, <1>2, <1>3, Sizes DEF Place
<1>5. PaperOK(q)
  BY <1>1, <1>2, <1>3, Sizes DEF PaperOK, Ends
<1>6. \A i \in 0..(Screen - 1) : Rolled(cells)[i] = IF i < Screen - Columns THEN cells[i + Columns] ELSE Space
  BY Sizes DEF Rolled, AllCells
<1>7. Shows(Rolled(cells), q.text, at + Columns)
  <2> SUFFICES ASSUME NEW i \in 0..(Screen - 1)
               PROVE  Rolled(cells)[i] =
                        IF at + Columns + i \in DOMAIN q.text THEN q.text[at + Columns + i] ELSE Space
    BY DEF Shows
  <2>1. CASE i < Screen - Columns
    <3>1. i + Columns \in 0..(Screen - 1) /\ at + (i + Columns) = at + Columns + i
      BY <1>1, <2>1, Sizes
    <3>2. cells[i + Columns] = IF at + (i + Columns) \in DOMAIN q.text THEN q.text[at + (i + Columns)] ELSE Space
      BY <1>3, <3>1 DEF Shows
    <3> QED BY <1>6, <2>1, <3>1, <3>2
  <2>2. CASE ~(i < Screen - Columns)
    BY <1>1, <1>3, <1>6, <2>2, Sizes DEF Ends
  <2> QED BY <2>1, <2>2
<1> QED BY <1>2, <1>4, <1>5, <1>7 DEF ShowsPaper

\* set_cursor moves the place and nothing else.
LEMMA MoveShows ==
    ASSUME NEW p, NEW cells, ShowsPaper(cells, p), NEW n \in 0..(Screen - 1)
    PROVE  LET q == OnPaper(p, Move, n)
           IN  ShowsPaper(cells, q) /\ Place(q) = n
<1> DEFINE q == OnPaper(p, Move, n)
           at == p.top * Columns
           row == (at + n) \div Columns
<1>1. /\ p.top \in Nat /\ at \in Nat /\ Screen \in Nat
      /\ IsPaper(p) /\ Ends(p.text, at + Screen) /\ Shows(cells, p.text, at)
  BY PlaceIn, Sizes DEF ShowsPaper, PaperOK
<1>2. q = [text |-> p.text, pos |-> at + n,
           top |-> IF row - Rows + 1 > p.top THEN row - Rows + 1 ELSE p.top]
  BY DEF OnPaper, Move, Clear, BS, LF
<1>3. (IF row - Rows + 1 > p.top THEN row - Rows + 1 ELSE p.top) = p.top
  BY <1>1, TopOf
<1> HIDE DEF row, q
<1>4. q = [text |-> p.text, pos |-> at + n, top |-> p.top]
  BY <1>2, <1>3
<1>5. q.text = p.text /\ q.pos = at + n /\ q.top = p.top /\ q = [text |-> q.text, pos |-> q.pos, top |-> q.top]
  BY <1>4
<1>6. IsPaper(q) /\ q.top * Columns = at
  BY <1>1, <1>5 DEF IsPaper
<1> HIDE DEF at
<1>7. Place(q) = n /\ PaperOK(q)
  BY <1>1, <1>5, <1>6 DEF Place, PaperOK
<1> QED BY <1>1, <1>5, <1>6, <1>7 DEF ShowsPaper, q

\* An empty screen is an empty roll.
LEMMA BlankShows ==
    ASSUME NEW cells, \A i \in 0..(Screen - 1) : cells[i] = Space
    PROVE  ShowsPaper(cells, BlankPaper) /\ Place(BlankPaper) = 0
<1>1. BlankPaper.pos = 0 /\ BlankPaper.top = 0 /\ BlankPaper.text = [i \in {} |-> Space]
  BY DEF BlankPaper
<1>2. PaperOK(BlankPaper) /\ Place(BlankPaper) = 0
  <2>1. IsPaper(BlankPaper)
    BY DEF IsPaper, BlankPaper
  <2> QED BY <1>1, <2>1, Sizes DEF PaperOK, Place, Ends
<1>3. Shows(cells, BlankPaper.text, BlankPaper.top * Columns)
  BY <1>1, Sizes DEF Shows
<1> QED BY <1>2, <1>3 DEF ShowsPaper

LEMMA ClearShows ==
    ASSUME NEW cells, AllCells(cells), NEW p, NEW bx
    PROVE  LET q == OnPaper(p, Clear, bx)
           IN  ShowsPaper(Cleared(cells), q) /\ Place(q) = 0
<1>1. OnPaper(p, Clear, bx) = BlankPaper
  BY DEF OnPaper
<1>2. \A i \in 0..(Screen - 1) : Cleared(cells)[i] = Space
  BY Sizes DEF Cleared, AllCells
<1> QED BY <1>1, <1>2, BlankShows

\* Digits are drawn; Move and Clear are not.
LEMMA GlyphsDrawn ==
    /\ Glyphs \subseteq Drawn
    /\ \A k \in 1..16 : HexDigits[k] \in Glyphs
    /\ Move \notin Drawn /\ Clear \notin Drawn
<1>1. Glyphs \subseteq Drawn
  BY DEF Drawn
<1>2. \A k \in 1..16 : HexDigits[k] \in Glyphs
  BY DEF Glyphs
<1>3. \A k \in 1..16 : HexDigits[k] # "move" /\ HexDigits[k] # "clear"
  BY DEF HexDigits
<1> QED BY <1>1, <1>2, <1>3 DEF Drawn, Glyphs, Move, Clear

\* What calls hand over.
LEMMA MessagesDrawn ==
    /\ Messages \cup Range(Report) \subseteq Seq(Drawn)
    /\ Seq(Drawn) \subseteq Texts
    /\ \A n \in Numbers : n \in Nat
    /\ \A n \in Places : n \in 0..(Screen - 1)
<1>1. Messages \cup Range(Report) \subseteq Seq(Characters \ {Move, Clear})
  BY ConsoleAssumption
<1>2. Seq(Characters \ {Move, Clear}) \subseteq Seq(Drawn)
  BY DEF Drawn
<1>3. \A n \in Numbers : n \in Nat
  BY ConsoleAssumption
<1>4. \A n \in Places : n \in 0..(Screen - 1)
  BY ConsoleAssumption
<1> QED BY <1>1, <1>2, <1>3, <1>4 DEF Texts

\* One thread's printing state changes.
LEMMA KindsOf ==
    ASSUME Kinds, NEW t \in Thread,
           DOMAIN out' = Thread, out' = [u \in Thread |-> out'[u]],
           \A u \in Thread \ {t} : out'[u] = out[u], IsOut(out'[t]),
           lines' \in [Thread -> Seq(Range(Report))],
           put_int_buffer' \in [1..Digits -> Glyphs],
           index' \in {"hi", "lo"}, cursor' \in [hi : Int, lo : Int], AllCells(cell')
    PROVE  Kinds'
BY DEF Kinds

LEMMA SilentOut == IsOut(Silent)
BY ConsoleAssumption DEF Silent, IsOut, TextFits, Fields, Labels, Texts, ToDraw, ToPlace

LEMMA KindsInit == Init => Kinds
<1> SUFFICES ASSUME Init PROVE Kinds
  OBVIOUS
<1>1. IsOut(Silent)
  BY SilentOut
<1>2. put_int_buffer \in [1..Digits -> Glyphs]
  <2>1. "0" = HexDigits[1]
    BY DEF HexDigits
  <2>2. "0" \in Glyphs
    BY <2>1, GlyphsDrawn
  <2> QED BY <2>2 DEF Init
<1>3. AllCells(cell)
  BY DEF Init, AllCells
<1>4. lines \in [Thread -> Seq(Range(Report))]
  BY DEF Init
<1>5. index \in {"hi", "lo"} /\ cursor \in [hi : Int, lo : Int]
  BY DEF Init
<1>6. DOMAIN out = Thread /\ out = [t \in Thread |-> out[t]] /\ \A t \in Thread : IsOut(out[t])
  BY <1>1 DEF Init
<1> QED BY <1>2, <1>3, <1>4, <1>5, <1>6 DEF Kinds

\* A thread goes on within a character.
Goes(o, d, b, n) ==
    /\ DOMAIN d = Fields /\ d = [f \in DOMAIN d |-> d[f]]
    /\ d.pc = b /\ d.bx = n /\ d.text = o.text /\ d.edi = o.edi /\ d.eax = o.eax
    /\ d.num = o.num /\ d.shown = o.shown /\ d.shared = o.shared
Turn(t, b, n) ==
    /\ DOMAIN out' = Thread /\ out' = [u \in Thread |-> out'[u]]
    /\ \A u \in Thread \ {t} : out'[u] = out[u]
    /\ Goes(out[t], out'[t], b, n)
\* From a to b within a character, with n in bx.
Way(a, b, n) ==
    \/ /\ a \in ToDraw /\ b \in ToDraw \cup ToPlace
       /\ b \in {"select hi", "in hi"} => n = 0
    \/ a \in ToPlace /\ b \in ToPlace
    \/ a = "clear" /\ b \in ToPlace

LEMMA OutGoes ==
    ASSUME NEW o, IsOut(o), NEW d, NEW b, NEW n \in Int, Goes(o, d, b, n), Way(o.pc, b, n)
    PROVE  IsOut(d)
<1>1. o.pc \in ToDraw \cup ToPlace \cup {"clear"} /\ b \in ToDraw \cup ToPlace
  BY DEF Way
<1>2. b \in Labels
  BY <1>1 DEF Labels
<1>3. o.text # <<>>
  <2>1. CASE o.pc = "clear"
    <3>1. o.text = <<Clear>>
      BY <2>1 DEF IsOut, TextFits
    <3> QED BY <3>1
  <2> QED BY <1>1, <2>1 DEF IsOut, TextFits
<1>4. b \in ToDraw => o.text \in Seq(Drawn)
  <2>1. b \in ToDraw => o.pc \in ToDraw
    BY DEF Way, ToDraw, ToPlace
  <2> QED BY <2>1 DEF IsOut, TextFits
<1>5. b \notin {"lock", "clear", "fill", "skip", "none", "load", "done"}
  BY <1>1 DEF ToDraw, ToPlace
<1>6. b \notin {"in lo", "select lo", "draw", "roll"} \cup ToPlace => n = 0
  BY DEF Way, ToDraw, ToPlace
<1>7. TextFits(d)
  BY <1>3, <1>4, <1>5 DEF IsOut, TextFits, Goes
<1> QED BY <1>2, <1>5, <1>6, <1>7 DEF IsOut, Goes

\* Each port access, cell and scroll is a turn of its thread.
LEMMA TurnSelect ==
    ASSUME Kinds, NEW t \in Thread, NEW a, NEW b, NEW byte, Select(t, a, b, byte)
    PROVE  Turn(t, b, out[t].bx) /\ out[t].pc = a
<1>1. out[t].pc = a /\ out' = [out EXCEPT ![t].pc = b]
  BY DEF Select, At
<1> QED BY <1>1 DEF Turn, Goes, Kinds, IsOut, Fields

LEMMA TurnRead ==
    ASSUME Kinds, NEW t \in Thread, NEW a, NEW b, NEW weight, ReadByte(t, a, b, weight)
    PROVE  Turn(t, b, out[t].bx + weight * cursor[index]) /\ out[t].pc = a
<1>1. out[t].pc = a
  BY DEF ReadByte, At
<1>2. PICK n : n = out[t].bx + weight * cursor[index] /\ out' = [out EXCEPT ![t].pc = b, ![t].bx = n]
  BY Zenon DEF ReadByte
<1>3. Turn(t, b, n)
  BY <1>2 DEF Turn, Goes, Kinds, IsOut, Fields
<1> QED BY <1>1, <1>2, <1>3

LEMMA TurnWrite ==
    ASSUME Kinds, NEW t \in Thread, NEW a, NEW b, NEW value, WriteByte(t, a, b, value)
    PROVE  Turn(t, b, out[t].bx) /\ out[t].pc = a
<1>1. out[t].pc = a /\ out' = [out EXCEPT ![t].pc = b]
  BY DEF WriteByte, At
<1> QED BY <1>1 DEF Turn, Goes, Kinds, IsOut, Fields

\* Where draw leaves the cursor.
PlaceAfter(c, bx) == CASE c = BS -> ((bx - 1) % Short) % Cells
                    [] c = LF -> (bx - (bx % Columns)) + Columns
                    [] OTHER -> (bx % Cells) + 1

LEMMA TurnDraw ==
    ASSUME Kinds, NEW t \in Thread, Draw(t)
    PROVE  LET c == Head(out[t].text)
               n == PlaceAfter(c, out[t].bx)
           IN  /\ out[t].pc = "draw" /\ n \in Int
               /\ Turn(t, IF c = BS \/ OnScreen(n) THEN "set hi" ELSE "roll", n)
<1> DEFINE c == Head(out[t].text)
           n == PlaceAfter(c, out[t].bx)
           b == IF c = BS \/ OnScreen(n) THEN "set hi" ELSE "roll"
<1>1. out[t].pc = "draw" /\ out[t].bx \in Int
  BY Zenon DEF Draw, At, Kinds, IsOut
<1>2. out' = [out EXCEPT ![t].bx = n, ![t].pc = b]
  BY Zenon DEF Draw, PlaceAfter
<1>3. n \in Int
  <2>1. PICK bx \in Int : bx = out[t].bx
    BY <1>1
  <2>2. /\ ((bx - 1) % Short) % Cells \in Int /\ (bx - (bx % Columns)) + Columns \in Int /\ (bx % Cells) + 1 \in Int
    BY <2>1, Sizes
  <2> HIDE DEF c
  <2> QED BY <2>1, <2>2 DEF PlaceAfter
<1> HIDE DEF n, b, c
<1>4. Turn(t, b, n)
  BY <1>2 DEF Turn, Goes, Kinds, IsOut, Fields
<1> QED BY <1>1, <1>3, <1>4 DEF n, b, c

LEMMA TurnRoll ==
    ASSUME Kinds, NEW t \in Thread, Roll(t) \/ ClearCells(t)
    PROVE  /\ Roll(t) => out[t].pc = "roll" /\ Turn(t, "set hi", Screen - Columns)
           /\ ClearCells(t) => out[t].pc = "clear" /\ Turn(t, "set hi", 0)
<1>1. ASSUME NEW n, out' = [out EXCEPT ![t].pc = "set hi", ![t].bx = n] PROVE Turn(t, "set hi", n)
  BY <1>1 DEF Turn, Goes, Kinds, IsOut, Fields
<1> QED BY <1>1, Zenon DEF Roll, ClearCells, At

\* What is left behind a character is of the drawn kind.
LEMMA TailDrawn ==
    ASSUME NEW o, IsOut(o), o.pc \in ToDraw \cup ToPlace
    PROVE  Tail(o.text) \in Seq(Drawn)
<1>1. o.text # <<>> /\ o.text \in Texts
  BY DEF IsOut, TextFits
<1>2. CASE o.text \in Seq(Drawn)
  BY <1>1, <1>2
<1>3. CASE o.text = <<Move>> \/ o.text = <<Clear>>
  <2>1. ASSUME NEW x PROVE Tail(<<x>>) = <<>>
    OBVIOUS
  <2>2. Tail(o.text) = <<>>
    BY <1>3, <2>1, Zenon
  <2>3. <<>> \in Seq(Drawn)
    OBVIOUS
  <2> QED BY <2>2, <2>3, Zenon
<1> QED BY <1>1, <1>2, <1>3 DEF Texts

\* The last step goes on to the next character, the next digit or the end.
LEMMA EndCharTurns ==
    ASSUME Kinds, NEW t \in Thread, EndChar(t)
    PROVE  LET d == out'[t]
           IN  /\ out[t].pc = "out lo"
               /\ DOMAIN out' = Thread /\ out' = [u \in Thread |-> out'[u]]
               /\ \A u \in Thread \ {t} : out'[u] = out[u]
               /\ d.pc \in {"load", "done", "select hi"}
               /\ IsOut(d)
<1> DEFINE o == out[t]
           d == out'[t]
<1>1. out[t].pc = "out lo"
  BY DEF EndChar, At
<1>2. PICK b, s : /\ b = (IF InPutInt(t) THEN "load" ELSE EachChar(Tail(o.text)))
                  /\ out' = [out EXCEPT ![t].pc = b, ![t].text = Tail(o.text), ![t].bx = 0, ![t].shown = s]
  BY Zenon DEF EndChar
<1>3. IsOut(o) /\ DOMAIN out = Thread /\ out = [u \in Thread |-> out[u]]
  BY DEF Kinds
<1>4. /\ DOMAIN out' = Thread /\ out' = [u \in Thread |-> out'[u]]
      /\ \A u \in Thread \ {t} : out'[u] = out[u]
  BY <1>2, <1>3
<1>5. /\ DOMAIN d = Fields /\ d = [f \in DOMAIN d |-> d[f]]
      /\ d.pc = b /\ d.text = Tail(o.text) /\ d.bx = 0 /\ d.edi = o.edi /\ d.eax = o.eax
  BY <1>2, <1>3 DEF IsOut, Fields
<1>6. Tail(o.text) \in Seq(Drawn) /\ Tail(o.text) \in Texts
  BY <1>1, <1>3, TailDrawn, MessagesDrawn DEF ToPlace
<1>7. b \in {"load", "done", "select hi"} /\ (b = "select hi" => Tail(o.text) # <<>>)
  BY <1>2 DEF EachChar
<1>9. o.edi \in 0..(Digits + 1) /\ o.eax \in Nat
  BY <1>3 DEF IsOut
<1> HIDE DEF o, d
<1>8. IsOut(d)
  <2>1. d.pc \in Labels
    BY <1>5, <1>7 DEF Labels, ToDraw
  <2>3. d.bx \in Int /\ d.edi \in 0..(Digits + 1) /\ d.eax \in Nat
    BY <1>5, <1>9
  <2>2. d.pc \in ToDraw \cup ToPlace => d.text # <<>>
    BY <1>5, <1>7 DEF ToDraw, ToPlace
  <2>4. TextFits(d)
    BY <1>5, <1>6, <1>7, <2>2 DEF TextFits
  <2>5. d.pc \notin {"fill", "skip"}
    BY <1>5, <1>7
  <2> QED BY <1>5, <2>1, <2>3, <2>4, <2>5 DEF IsOut
<1> QED BY <1>1, <1>4, <1>5, <1>7, <1>8 DEF d

\* The two bytes stay numbers, and the memory keeps its cells.
LEMMA CursorKind ==
    ASSUME cursor \in [hi : Int, lo : Int], index \in {"hi", "lo"}, NEW v \in Int
    PROVE  /\ cursor[index] \in Int
           /\ [cursor EXCEPT ![index] = v] \in [hi : Int, lo : Int]
<1>1. CASE index = "hi"
  BY <1>1
<1>2. CASE index = "lo"
  BY <1>2
<1> QED BY <1>1, <1>2

\* draw in the video memory.
Struck(cells, bx, c) ==
    CASE c = BS -> [cells EXCEPT ![((bx - 1) % Short) % Cells] = Space]
      [] c = LF -> cells
      [] OTHER -> [cells EXCEPT ![bx % Cells] = c]

LEMMA DrawStrikes ==
    ASSUME NEW t, Draw(t)
    PROVE  cell' = Struck(cell, out[t].bx, Head(out[t].text))
BY Zenon DEF Draw, Struck

LEMMA CellKind ==
    ASSUME AllCells(cell), NEW t, Draw(t) \/ Roll(t) \/ ClearCells(t)
    PROVE  AllCells(cell')
<1>1. DOMAIN cell = 0..(Cells - 1)
  BY DEF AllCells
<1>2. CASE Draw(t)
  <2>1. ASSUME NEW k, NEW x PROVE AllCells([cell EXCEPT ![k] = x])
    BY <1>1 DEF AllCells
  <2>2. ASSUME NEW bx, NEW c PROVE AllCells(Struck(cell, bx, c))
    <3>1. CASE c = BS
      BY <2>1, <3>1 DEF Struck, BS, LF
    <3>2. CASE c = LF
      BY <3>2 DEF Struck, BS, LF
    <3>3. CASE c # BS /\ c # LF
      BY <2>1, <3>3 DEF Struck
    <3> QED BY <3>1, <3>2, <3>3
  <2> QED BY <1>2, <2>2, DrawStrikes
<1>3. CASE Roll(t) \/ ClearCells(t)
  BY <1>1, <1>3 DEF Roll, ClearCells, AllCells
<1> QED BY <1>2, <1>3

\* put_char, put_int, the calls and printk_lock keep the kinds.
LEMMA KindsPutChar ==
    ASSUME Kinds, NEW t \in Thread, put_char(t)
    PROVE  Kinds'
<1>1. /\ IsOut(out[t]) /\ index \in {"hi", "lo"} /\ cursor \in [hi : Int, lo : Int] /\ AllCells(cell)
      /\ out[t].bx \in Int
  BY DEF Kinds, IsOut
<1>2. UNCHANGED <<put_int_buffer, lines>>
  BY DEF put_char
<1>3. lines' \in [Thread -> Seq(Range(Report))] /\ put_int_buffer' \in [1..Digits -> Glyphs]
  BY <1>2 DEF Kinds
<1>4. ASSUME NEW b, NEW n \in Int, Turn(t, b, n), Way(out[t].pc, b, n),
             index' \in {"hi", "lo"}, cursor' \in [hi : Int, lo : Int], AllCells(cell')
      PROVE  Kinds'
  <2>1. IsOut(out'[t])
    BY <1>1, <1>4, OutGoes DEF Turn
  <2> QED BY <1>3, <1>4, <2>1, KindsOf DEF Turn
<1>5. ASSUME NEW a, NEW b, NEW byte \in {"hi", "lo"}, Select(t, a, b, byte), Way(a, b, out[t].bx)
      PROVE  Kinds'
  <2>1. Turn(t, b, out[t].bx) /\ out[t].pc = a
    BY <1>5, TurnSelect
  <2>2. index' = byte /\ cursor' = cursor /\ cell' = cell
    BY <1>5 DEF Select
  <2> QED BY <1>1, <1>4, <1>5, <2>1, <2>2
<1>6. ASSUME NEW a, NEW b, NEW weight \in Int, ReadByte(t, a, b, weight),
             a \in ToDraw /\ b \in ToDraw /\ b \notin {"select hi", "in hi"}
      PROVE  Kinds'
  <2>1. Turn(t, b, out[t].bx + weight * cursor[index]) /\ out[t].pc = a
    BY <1>6, TurnRead
  <2>2. UNCHANGED <<index, cursor, cell>>
    BY <1>6 DEF ReadByte
  <2>3. PICK v \in Int : v = cursor[index]
    BY <1>1, CursorKind
  <2>4. out[t].bx + weight * cursor[index] \in Int
    BY <1>1, <2>3
  <2>5. Way(a, b, out[t].bx + weight * cursor[index])
    BY <1>6 DEF Way
  <2> QED BY <1>1, <1>4, <2>1, <2>2, <2>4, <2>5
<1>7. ASSUME NEW a, NEW b, NEW value \in Int, WriteByte(t, a, b, value), a \in ToPlace /\ b \in ToPlace
      PROVE  Kinds'
  <2>1. Turn(t, b, out[t].bx) /\ out[t].pc = a
    BY <1>7, TurnWrite
  <2>2. index' = index /\ cursor' = [cursor EXCEPT ![index] = value] /\ cell' = cell
    BY <1>7 DEF WriteByte
  <2>3. cursor' \in [hi : Int, lo : Int]
    BY <1>1, <2>2, CursorKind
  <2> QED BY <1>1, <1>4, <1>7, <2>1, <2>2, <2>3 DEF Way
<1>8. CASE Draw(t)
  <2>1. PICK n \in Int, b \in {"set hi", "roll"} : out[t].pc = "draw" /\ Turn(t, b, n)
    BY <1>8, TurnDraw
  <2>2. UNCHANGED <<index, cursor>> /\ AllCells(cell')
    BY <1>1, <1>8, CellKind DEF Draw
  <2>3. Way(out[t].pc, b, n)
    BY <2>1 DEF Way, ToDraw, ToPlace
  <2> QED BY <1>1, <1>4, <2>1, <2>2, <2>3
<1>9. CASE Roll(t) \/ ClearCells(t)
  <2>1. PICK n \in Int : out[t].pc \in {"roll", "clear"} /\ Turn(t, "set hi", n)
    <3>1. 0 \in Int /\ Screen - Columns \in Int
      BY Sizes
    <3>2. \/ out[t].pc = "roll" /\ Turn(t, "set hi", Screen - Columns)
          \/ out[t].pc = "clear" /\ Turn(t, "set hi", 0)
      BY <1>9, TurnRoll
    <3> QED BY <3>1, <3>2, Zenon
  <2>2. UNCHANGED <<index, cursor>> /\ AllCells(cell')
    BY <1>1, <1>9, CellKind DEF Roll, ClearCells
  <2>3. Way(out[t].pc, "set hi", n)
    BY <2>1 DEF Way, ToDraw, ToPlace
  <2> QED BY <1>1, <1>4, <2>1, <2>2, <2>3
<1>10. CASE EndChar(t)
  <2>1. index' = index /\ cell' = cell /\ cursor' = [cursor EXCEPT ![index] = out[t].bx % Byte]
    BY <1>10, Zenon DEF EndChar
  <2>2. out[t].bx % Byte \in Int
    BY <1>1, Sizes
  <2>3. cursor' \in [hi : Int, lo : Int]
    BY <1>1, <2>1, <2>2, CursorKind
  <2>4. IsOut(out'[t]) /\ DOMAIN out' = Thread /\ out' = [u \in Thread |-> out'[u]]
        /\ \A u \in Thread \ {t} : out'[u] = out[u]
    BY <1>10, EndCharTurns
  <2> QED BY <1>1, <1>3, <2>1, <2>3, <2>4, KindsOf
<1>11. Byte \in Int /\ out[t].bx \div Byte \in Int
  BY <1>1, Sizes
<1>12. /\ Select(t, "select hi", "in hi", "hi") => Kinds'
       /\ ReadByte(t, "in hi", "select lo", Byte) => Kinds'
       /\ Select(t, "select lo", "in lo", "lo") => Kinds'
       /\ ReadByte(t, "in lo", "draw", 1) => Kinds'
  <2>1. Select(t, "select hi", "in hi", "hi") => Way("select hi", "in hi", out[t].bx)
    <3>1. Select(t, "select hi", "in hi", "hi") => out[t].pc = "select hi"
      BY DEF Select, At
    <3>2. out[t].pc = "select hi" => out[t].bx = 0
      BY <1>1 DEF IsOut, ToPlace
    <3> QED BY <3>1, <3>2 DEF Way, ToDraw
  <2>2. Way("select lo", "in lo", out[t].bx)
    BY DEF Way, ToDraw
  <2>3. {"select lo", "draw", "in hi", "in lo"} \subseteq ToDraw
    BY DEF ToDraw
  <2>4. Select(t, "select hi", "in hi", "hi") => Kinds'
    BY <1>5, <2>1
  <2>5. Select(t, "select lo", "in lo", "lo") => Kinds'
    BY <1>5, <2>2
  <2>6. ReadByte(t, "in hi", "select lo", Byte) => Kinds'
    <3> SUFFICES ASSUME ReadByte(t, "in hi", "select lo", Byte) PROVE Kinds'
      OBVIOUS
    <3>1. Byte \in Int /\ "in hi" \in ToDraw /\ "select lo" \in ToDraw /\ "select lo" \notin {"select hi", "in hi"}
      BY <1>11, <2>3
    <3> QED BY <1>6, <3>1
  <2>7. ReadByte(t, "in lo", "draw", 1) => Kinds'
    <3>1. PICK one \in Int : one = 1
      OBVIOUS
    <3>2. "in lo" \in ToDraw /\ "draw" \in ToDraw /\ "draw" \notin {"select hi", "in hi"}
      BY <2>3
    <3>3. ReadByte(t, "in lo", "draw", one) => Kinds'
      BY <1>6, <3>2
    <3> QED BY <3>1, <3>3, Zenon
  <2> QED BY <2>4, <2>5, <2>6, <2>7
<1>13. /\ Select(t, "set hi", "out hi", "hi") => Kinds'
       /\ WriteByte(t, "out hi", "set lo", out[t].bx \div Byte) => Kinds'
       /\ Select(t, "set lo", "out lo", "lo") => Kinds'
  <2>1. Way("set hi", "out hi", out[t].bx) /\ Way("set lo", "out lo", out[t].bx)
    BY DEF Way, ToPlace
  <2> QED BY <1>5, <1>7, <1>11, <2>1 DEF ToPlace
<1> QED BY <1>8, <1>9, <1>10, <1>12, <1>13, Zenon DEF put_char

\* The variables of the screen that calls leave alone.
Rest == <<put_int_buffer, index, cursor, cell>>

LEMMA KindsPutInt ==
    ASSUME Kinds, NEW t \in Thread, PutIntStep(t)
    PROVE  Kinds'
<1> DEFINE o == out[t]
           d == out'[t]
<1>1. /\ IsOut(o) /\ DOMAIN out = Thread /\ out = [u \in Thread |-> out[u]]
      /\ put_int_buffer \in [1..Digits -> Glyphs]
  BY DEF Kinds
<1>2. /\ lines' \in [Thread -> Seq(Range(Report))]
      /\ index' \in {"hi", "lo"} /\ cursor' \in [hi : Int, lo : Int] /\ AllCells(cell')
  BY DEF Kinds, PutIntStep
<1>3. Digits \in Nat \ {0} /\ Base \in Nat /\ Base > 1 /\ Base <= 16
  BY ConsoleAssumption
<1>4. Glyphs \subseteq Drawn /\ \A k \in 1..16 : HexDigits[k] \in Glyphs
  BY GlyphsDrawn
<1>5. Seq(Drawn) \subseteq Texts
  BY MessagesDrawn
<1>6. ASSUME DOMAIN out' = Thread, out' = [u \in Thread |-> out'[u]],
             \A u \in Thread \ {t} : out'[u] = out[u], IsOut(d),
             put_int_buffer' \in [1..Digits -> Glyphs]
      PROVE  Kinds'
  BY <1>2, <1>6, KindsOf
<1>7. CASE Fill(t)
  <2>1. o.pc = "fill" /\ o.bx = 0 /\ o.edi \in 1..Digits /\ o.eax \in Nat
    BY <1>1, <1>7 DEF Fill, At, IsOut, ToPlace
  <2>11. o.text \in Texts
    BY <1>1 DEF IsOut, TextFits
  <2>2. PICK g : /\ g = HexDigits[(o.eax % Base) + 1]
                 /\ put_int_buffer' = [put_int_buffer EXCEPT ![o.edi] = g]
    BY <1>7, Zenon DEF Fill
  <2>3. g \in Glyphs
    <3>1. PICK e \in Nat : e = o.eax
      BY <2>1
    <3>2. (e % Base) + 1 \in 1..16
      BY <1>3
    <3> QED BY <1>4, <2>2, <3>1, <3>2
  <2>4. put_int_buffer' \in [1..Digits -> Glyphs]
    BY <1>1, <2>1, <2>2, <2>3
  <2>5. PICK edi, eax, b : /\ edi = o.edi - 1 /\ eax = o.eax \div Base
                           /\ b = (IF o.edi = 1 THEN "skip" ELSE "fill")
                           /\ out' = [out EXCEPT ![t].edi = edi, ![t].eax = eax, ![t].pc = b]
    BY <1>7, Zenon DEF Fill
  <2>6. /\ DOMAIN out' = Thread /\ out' = [u \in Thread |-> out'[u]]
        /\ \A u \in Thread \ {t} : out'[u] = out[u]
        /\ DOMAIN d = Fields /\ d = [f \in DOMAIN d |-> d[f]]
        /\ d.pc = b /\ d.edi = edi /\ d.eax = eax /\ d.bx = o.bx /\ d.text = o.text
    BY <1>1, <2>5 DEF IsOut, Fields
  <2> HIDE DEF o, d
  <2>7. edi \in 0..Digits /\ eax \in Nat /\ b \in {"skip", "fill"}
    BY <1>3, <2>1, <2>5
  <2>8. (b = "fill" => edi \in 1..Digits) /\ (b = "skip" => edi = 0)
    BY <1>3, <2>1, <2>5
  <2>9. d.pc \in Labels /\ d.pc \notin {"lock", "clear"} \cup ToDraw \cup ToPlace
    BY <2>6, <2>7 DEF Labels, ToDraw, ToPlace
  <2>12. TextFits(d)
    BY <2>6, <2>8, <2>9, <2>11 DEF TextFits
  <2>10. IsOut(d)
    BY <1>3, <2>1, <2>6, <2>7, <2>8, <2>9, <2>12 DEF IsOut
  <2> QED BY <1>6, <2>4, <2>6, <2>10 DEF d
<1>8. CASE Skip(t)
  <2>1. o.pc = "skip"
    BY <1>8, Zenon DEF Skip, At
  <2>2. o.bx = 0 /\ o.edi \in 0..(Digits + 1) /\ o.edi <= Digits /\ o.eax \in Nat
    BY <1>1, <2>1 DEF IsOut, ToPlace
  <2>3. o.edi = 0 \/ (o.text \in Seq(Drawn) /\ o.text # <<>>)
    BY <1>1, <2>1 DEF IsOut, TextFits
  <2>4. PICK edi, dl, b : /\ edi = o.edi + 1
                          /\ dl = (IF edi > Digits THEN Head(o.text) ELSE put_int_buffer[edi])
                          /\ b = (IF ~(edi > Digits) /\ dl = "0" THEN "skip" ELSE "select hi")
                          /\ out' = [out EXCEPT ![t].edi = edi, ![t].text = <<dl>>, ![t].pc = b]
    BY <1>8, Zenon DEF Skip
  <2>5. /\ DOMAIN out' = Thread /\ out' = [u \in Thread |-> out'[u]]
        /\ \A u \in Thread \ {t} : out'[u] = out[u]
        /\ DOMAIN d = Fields /\ d = [f \in DOMAIN d |-> d[f]]
        /\ d.pc = b /\ d.edi = edi /\ d.eax = o.eax /\ d.bx = o.bx
    BY <1>1, <2>4 DEF IsOut, Fields
  <2>6. d.text = <<dl>>
    BY <1>1, <2>4 DEF IsOut, Fields
  <2> HIDE DEF o, d
  <2>7. edi = o.edi + 1
    BY <2>4, Zenon
  <2>8. b \in {"skip", "select hi"} /\ (b = "skip" => ~(edi > Digits))
    BY <2>4, Zenon
  <2>9. (edi > Digits => dl = Head(o.text)) /\ (~(edi > Digits) => dl = put_int_buffer[edi])
    BY <2>4, Zenon
  <2>10. edi \in 1..(Digits + 1) /\ (edi > Digits => o.edi # 0)
    BY <1>3, <2>2, <2>7
  <2>11. dl \in Drawn
    <3>1. CASE edi > Digits
      BY <2>3, <2>9, <2>10, <3>1
    <3>2. CASE ~(edi > Digits)
      <4>1. edi \in 1..Digits
        BY <1>3, <2>10, <3>2
      <4> QED BY <1>1, <1>4, <2>9, <3>2, <4>1
    <3> QED BY <3>1, <3>2
  <2>12. d.text \in Seq(Drawn) /\ d.text # <<>>
    BY <2>6, <2>11
  <2>13. d.pc \in Labels /\ d.pc \notin {"fill", "clear"} \cup ToPlace
    BY <2>5, <2>8 DEF Labels, ToDraw, ToPlace
  <2>14. TextFits(d)
    BY <1>5, <2>12, <2>13 DEF TextFits
  <2>15. d.edi \in 0..(Digits + 1) /\ (d.pc = "skip" => d.edi <= Digits)
    <3>1. d.edi = edi /\ d.pc = b
      BY <2>5, Zenon
    <3>2. edi \in 0..(Digits + 1)
      BY <1>3, <2>10
    <3>3. ~(edi > Digits) => edi <= Digits
      BY <1>3, <2>10
    <3> QED BY <2>8, <3>1, <3>2, <3>3, Zenon
  <2>16. IsOut(d)
    BY <2>2, <2>5, <2>13, <2>14, <2>15 DEF IsOut
  <2>17. put_int_buffer' = put_int_buffer
    BY <1>8, Zenon DEF Skip
  <2> QED BY <1>1, <1>6, <2>5, <2>16, <2>17 DEF d
<1>9. CASE Load(t)
  <2>1. o.pc = "load" /\ o.bx = 0 /\ o.edi \in 0..(Digits + 1) /\ o.eax \in Nat
    BY <1>1, <1>9 DEF Load, At, IsOut, ToPlace
  <2>5. o.text \in Texts
    BY <1>1 DEF IsOut, TextFits
  <2>2. put_int_buffer' = put_int_buffer
    BY <1>9 DEF Load
  <2>3. CASE o.edi + 1 > Digits
    <3>1. out' = [out EXCEPT ![t].pc = "done"]
      BY <1>9, <2>3, Zenon DEF Load
    <3>2. /\ DOMAIN out' = Thread /\ out' = [u \in Thread |-> out'[u]]
          /\ \A u \in Thread \ {t} : out'[u] = out[u]
          /\ DOMAIN d = Fields /\ d = [f \in DOMAIN d |-> d[f]]
          /\ d.pc = "done" /\ d.edi = o.edi /\ d.eax = o.eax /\ d.bx = o.bx /\ d.text = o.text
      BY <1>1, <3>1 DEF IsOut, Fields
    <3> HIDE DEF o, d
    <3>3. d.pc \in Labels /\ d.pc \notin {"lock", "fill", "skip", "clear"} \cup ToDraw \cup ToPlace
      BY <3>2 DEF Labels, ToDraw, ToPlace
    <3>4. TextFits(d)
      BY <2>5, <3>2, <3>3 DEF TextFits
    <3>5. IsOut(d)
      BY <2>1, <3>2, <3>3, <3>4 DEF IsOut
    <3> QED BY <1>1, <1>6, <2>2, <3>2, <3>5 DEF d
  <2>4. CASE ~(o.edi + 1 > Digits)
    <3>1. PICK edi, dl : /\ edi = o.edi + 1 /\ dl = put_int_buffer[edi]
                         /\ out' = [out EXCEPT ![t].edi = edi, ![t].text = <<dl>>, ![t].pc = "select hi"]
      BY <1>9, <2>4, Zenon DEF Load
    <3>2. /\ DOMAIN out' = Thread /\ out' = [u \in Thread |-> out'[u]]
          /\ \A u \in Thread \ {t} : out'[u] = out[u]
          /\ DOMAIN d = Fields /\ d = [f \in DOMAIN d |-> d[f]]
          /\ d.pc = "select hi" /\ d.edi = edi /\ d.eax = o.eax /\ d.bx = o.bx
      BY <1>1, <3>1 DEF IsOut, Fields
    <3>3. d.text = <<dl>>
      BY <1>1, <3>1 DEF IsOut, Fields
    <3> HIDE DEF o, d
    <3>4. edi = o.edi + 1 /\ dl = put_int_buffer[edi]
      BY <3>1, Zenon
    <3>5. edi \in 1..Digits
      BY <1>3, <2>1, <2>4, <3>4
    <3>6. dl \in Drawn
      BY <1>1, <1>4, <3>4, <3>5
    <3>7. d.text \in Seq(Drawn) /\ d.text # <<>>
      BY <3>3, <3>6
    <3>8. d.pc \in Labels /\ d.pc \notin {"fill", "skip", "clear"} \cup ToPlace
      BY <3>2 DEF Labels, ToDraw, ToPlace
    <3>9. TextFits(d)
      BY <1>5, <3>7, <3>8 DEF TextFits
    <3>10. d.edi \in 0..(Digits + 1)
      <4>1. edi \in 0..(Digits + 1)
        BY <1>3, <3>5
      <4>2. d.edi = edi
        BY <3>2, Zenon
      <4> QED BY <4>1, <4>2, Zenon
    <3>11. IsOut(d)
      <4>1. d.bx = 0 /\ d.bx \in Int /\ d.eax \in Nat
        <5>1. d.bx = 0 /\ d.eax \in Nat
          BY <2>1, <3>2, Zenon
        <5>2. 0 \in Int
          OBVIOUS
        <5> QED BY <5>1, <5>2, Zenon
      <4>2. d.pc # "fill" /\ d.pc # "skip" /\ d.pc \in Labels
        BY <3>8
      <4>3. DOMAIN d = Fields /\ d = [f \in DOMAIN d |-> d[f]]
        BY <3>2, Zenon
      <4> QED BY <3>9, <3>10, <4>1, <4>2, <4>3, Zenon DEF IsOut
    <3> QED BY <1>1, <1>6, <2>2, <3>2, <3>11 DEF d
  <2> QED BY <2>3, <2>4
<1> QED BY <1>7, <1>8, <1>9, Zenon DEF PutIntStep

\* A call, or the end of one.
LEMMA KindsBegin ==
    ASSUME Kinds, NEW t \in Thread, NEW o, out' = [out EXCEPT ![t] = o], IsOut(o),
           lines' \in [Thread -> Seq(Range(Report))], UNCHANGED Rest
    PROVE  Kinds'
<1>1. /\ DOMAIN out' = Thread /\ out' = [u \in Thread |-> out'[u]]
      /\ \A u \in Thread \ {t} : out'[u] = out[u]
      /\ out'[t] = o
  BY DEF Kinds
<1>2. /\ put_int_buffer' \in [1..Digits -> Glyphs]
      /\ index' \in {"hi", "lo"} /\ cursor' \in [hi : Int, lo : Int] /\ AllCells(cell')
  BY DEF Kinds, Rest
<1> QED BY <1>1, <1>2, KindsOf

\* The texts calls begin with, and where.
Begins(a, m, n) ==
    \/ a \in {"lock", "select hi", "done"} /\ n = 0 /\ m \in Seq(Drawn) /\ (a = "select hi" => m # <<>>)
    \/ a = "clear" /\ n = 0 /\ m = <<Clear>>
    \/ a = "set hi" /\ m = <<Move>>
    \/ a = "none" /\ n = 0 /\ m = <<>>

LEMMA BeginOut ==
    ASSUME NEW a, NEW m, NEW n \in Int, Begins(a, m, n)
    PROVE  /\ IsOut([Silent EXCEPT !.pc = a, !.text = m, !.bx = n])
           /\ n = 0 => IsOut([Silent EXCEPT !.pc = a, !.text = m])
<1>1. a \in Labels /\ a \notin {"fill", "skip"}
  BY DEF Begins, Labels, ToDraw, ToPlace
<1>2. a \notin {"in lo", "select lo", "draw", "roll"} \cup ToPlace => n = 0
  BY DEF Begins, ToPlace
<1>12. <<>> \in Seq(Drawn)
  OBVIOUS
<1>3. m \in Texts
  BY <1>12, Zenon DEF Begins, Texts
<1>4. a \in {"lock"} \cup ToDraw => m \in Seq(Drawn)
  BY DEF Begins, ToDraw
<1>5. a \in ToDraw \cup ToPlace => m # <<>>
  <2>1. <<Move>> # <<>>
    OBVIOUS
  <2>2. a \in ToDraw \cup ToPlace => a \notin {"lock", "done", "clear", "none"} /\ (a \in ToDraw \/ a \in ToPlace)
    BY DEF ToDraw, ToPlace
  <2> QED BY <2>1, <2>2, Zenon DEF Begins
<1>6. a = "clear" => m = <<Clear>>
  BY DEF Begins
<1>7. Digits \in Nat
  BY ConsoleAssumption
<1>8. ASSUME NEW d, DOMAIN d = Fields, d = [f \in DOMAIN d |-> d[f]],
             d.pc = a, d.text = m, d.bx = n, d.edi = 0, d.eax = 0
      PROVE  IsOut(d)
  <2>1. d.edi \in 0..(Digits + 1) /\ d.eax \in Nat
    BY <1>7, <1>8
  <2>2. TextFits(d)
    BY <1>1, <1>3, <1>4, <1>5, <1>6, <1>8 DEF TextFits
  <2> QED BY <1>1, <1>2, <1>8, <2>1, <2>2 DEF IsOut
<1> DEFINE d == [Silent EXCEPT !.pc = a, !.text = m, !.bx = n]
           e == [Silent EXCEPT !.pc = a, !.text = m]
<1>9. /\ DOMAIN d = Fields /\ d = [f \in DOMAIN d |-> d[f]]
      /\ d.pc = a /\ d.text = m /\ d.bx = n /\ d.edi = 0 /\ d.eax = 0
  BY DEF Silent, Fields
<1>10. /\ DOMAIN e = Fields /\ e = [f \in DOMAIN e |-> e[f]]
       /\ e.pc = a /\ e.text = m /\ e.bx = 0 /\ e.edi = 0 /\ e.eax = 0
  BY DEF Silent, Fields
<1> HIDE DEF d, e
<1>11. IsOut(d) /\ (n = 0 => IsOut(e))
  BY <1>8, <1>9, <1>10
<1> QED BY <1>11 DEF d, e

LEMMA KindsStutter == Kinds /\ UNCHANGED <<out, lines, Rest>> => Kinds'
BY DEF Kinds, Rest

LEMMA KindsCall ==
    ASSUME Kinds, NEW t \in Thread,
           \/ \E m \in Messages : put_str(t, m) \/ printk(t, m)
           \/ \E pos \in Places : set_cursor(t, pos)
           \/ cls_screen(t) \/ EndStr(t) \/ kernel_panic(t) \/ NextLine(t)
    PROVE  Kinds'
<1>1. lines \in [Thread -> Seq(Range(Report))]
  BY DEF Kinds
<1>2. Messages \cup Range(Report) \subseteq Seq(Drawn)
  BY MessagesDrawn
<1>3. Report \in Seq(Range(Report)) /\ Report # <<>>
  BY ConsoleAssumption
<1>4. ASSUME NEW a, NEW m, Begins(a, m, 0), Begin(t, a, m), lines' \in [Thread -> Seq(Range(Report))],
             UNCHANGED Rest
      PROVE  Kinds'
  <2>1. IsOut([Silent EXCEPT !.pc = a, !.text = m])
    <3>1. 0 \in Int
      OBVIOUS
    <3> QED BY <1>4, <3>1, BeginOut, Zenon
  <2>2. out' = [out EXCEPT ![t] = [Silent EXCEPT !.pc = a, !.text = m]]
    BY <1>4, Zenon DEF Begin
  <2> QED BY <1>4, <2>1, <2>2, KindsBegin
<1>5. ASSUME NEW m \in Messages, put_str(t, m) \/ printk(t, m)
      PROVE  Kinds'
  <2>1. UNCHANGED <<lines, Rest>>
    BY <1>5 DEF put_str, printk, Call, screenvars, Rest
  <2>2. m \in Seq(Drawn)
    BY <1>2
  <2>3. Begins(EachChar(m), m, 0) /\ Begins("lock", m, 0)
    BY <2>2 DEF Begins, EachChar
  <2> QED BY <1>1, <1>4, <1>5, <2>1, <2>3, Zenon DEF put_str, printk
<1>6. ASSUME NEW pos \in Places, set_cursor(t, pos)
      PROVE  Kinds'
  <2>1. UNCHANGED <<lines, Rest>>
    BY <1>6 DEF set_cursor, Call, screenvars, Rest
  <2>2. pos \in Int
    BY MessagesDrawn, Sizes
  <2>3. IsOut([Silent EXCEPT !.pc = "set hi", !.text = <<Move>>, !.bx = pos])
    BY <2>2, BeginOut, Zenon DEF Begins
  <2>4. out' = [out EXCEPT ![t] = [Silent EXCEPT !.pc = "set hi", !.text = <<Move>>, !.bx = pos]]
    BY <1>6, Zenon DEF set_cursor
  <2>5. lines' \in [Thread -> Seq(Range(Report))]
    BY <1>1, <2>1
  <2> QED BY <2>1, <2>3, <2>4, <2>5, KindsBegin
<1>7. CASE cls_screen(t)
  <2>1. UNCHANGED <<lines, Rest>> /\ Begin(t, "clear", <<Clear>>)
    BY <1>7 DEF cls_screen, Call, screenvars, Rest
  <2>2. Begins("clear", <<Clear>>, 0)
    BY DEF Begins
  <2> QED BY <1>1, <1>4, <2>1, <2>2
<1>8. CASE EndStr(t)
  <2>1. UNCHANGED <<lines, Rest>> /\ out' = [out EXCEPT ![t] = Silent]
    BY <1>8 DEF EndStr, screenvars, Rest
  <2>2. lines' \in [Thread -> Seq(Range(Report))]
    BY <1>1, <2>1
  <2> QED BY <2>1, <2>2, SilentOut, KindsBegin
<1>9. CASE kernel_panic(t)
  <2>1. /\ UNCHANGED Rest /\ lines' = [lines EXCEPT ![t] = Report]
        /\ out' = [out EXCEPT ![t] = [Silent EXCEPT !.pc = "lock", !.text = Head(Report)]]
    BY <1>9, Zenon DEF kernel_panic, Rest
  <2>2. lines' \in [Thread -> Seq(Range(Report))]
    BY <1>1, <1>3, <2>1
  <2>3. Head(Report) \in Range(Report)
    BY <1>3
  <2>4. Begins("lock", Head(Report), 0) /\ 0 \in Int
    BY <1>2, <2>3 DEF Begins
  <2>5. IsOut([Silent EXCEPT !.pc = "lock", !.text = Head(Report)])
    BY <2>4, BeginOut, Zenon
  <2> QED BY <2>1, <2>2, <2>5, KindsBegin
<1>10. CASE NextLine(t)
  <2>1. UNCHANGED <<lines, Rest>> /\ Begin(t, "lock", Head(lines[t])) /\ lines[t] # <<>>
    BY <1>10 DEF NextLine, Panics, screenvars, Rest
  <2>2. Head(lines[t]) \in Range(Report)
    BY <1>1, <2>1
  <2>3. Begins("lock", Head(lines[t]), 0)
    BY <1>2, <2>2 DEF Begins
  <2> QED BY <1>1, <1>4, <2>1, <2>3
<1> QED BY <1>5, <1>6, <1>7, <1>8, <1>9, <1>10

LEMMA KindsNumber ==
    ASSUME Kinds, NEW t \in Thread, NEW n \in Numbers, put_int(t, n)
    PROVE  Kinds'
<1>1. UNCHANGED <<lines, Rest>>
  BY DEF put_int, Call, screenvars, Rest
<1>2. PICK s : out' = [u \in Thread |->
                 IF u = t THEN [Silent EXCEPT !.pc = "fill", !.edi = Digits, !.num = n, !.eax = n, !.shared = s]
                 ELSE [out[u] EXCEPT !.shared = @ \/ InPutInt(u)]]
  BY Zenon DEF put_int
<1>3. Digits \in Nat \ {0} /\ n \in Nat
  BY ConsoleAssumption, MessagesDrawn
<1>4. DOMAIN out' = Thread /\ out' = [u \in Thread |-> out'[u]]
  BY <1>2
<1>5. IsOut(out'[t])
  <2> DEFINE d == out'[t]
  <2>1. /\ DOMAIN d = Fields /\ d = [f \in DOMAIN d |-> d[f]]
        /\ d.pc = "fill" /\ d.bx = 0 /\ d.edi = Digits /\ d.eax = n /\ d.text = <<>>
    BY <1>2 DEF Silent, Fields
  <2> HIDE DEF d
  <2>2. d.text \in Texts
    <3>1. <<>> \in Seq(Drawn)
      OBVIOUS
    <3> QED BY <2>1, <3>1, Zenon DEF Texts
  <2>3. d.pc = "fill" /\ d.bx = 0 /\ d.edi = Digits /\ d.eax = n
    BY <2>1, Zenon
  <2>4. d.pc \in Labels /\ d.pc \notin {"lock", "skip", "clear"} \cup ToDraw \cup ToPlace
    BY <2>3 DEF Labels, ToDraw, ToPlace
  <2>5. TextFits(d)
    BY <2>2, <2>4 DEF TextFits
  <2>6. d.bx \in Int /\ d.edi \in 0..(Digits + 1) /\ d.edi \in 1..Digits /\ d.eax \in Nat
    BY <1>3, <2>3
  <2> QED BY <2>1, <2>3, <2>4, <2>5, <2>6 DEF IsOut, d
<1>6. ASSUME NEW u \in Thread \ {t} PROVE IsOut(out'[u])
  <2> DEFINE d == out'[u]
             o == out[u]
  <2>1. IsOut(o)
    BY DEF Kinds
  <2>2. PICK z : d = [o EXCEPT !.shared = z]
    BY <1>2, Zenon
  <2>3. /\ DOMAIN d = Fields /\ d = [f \in DOMAIN d |-> d[f]]
        /\ d.pc = o.pc /\ d.bx = o.bx /\ d.edi = o.edi /\ d.eax = o.eax /\ d.text = o.text
    BY <2>1, <2>2 DEF IsOut, Fields
  <2> HIDE DEF d, o
  <2>4. TextFits(d)
    BY <2>1, <2>3, Zenon DEF IsOut, TextFits
  <2>5. IsOut(d)
    BY <2>1, <2>3, <2>4, Zenon DEF IsOut
  <2> QED BY <2>5 DEF d
<1> QED BY <1>1, <1>4, <1>5, <1>6 DEF Kinds, Rest

LEMMA KindsLock ==
    ASSUME Kinds, NEW t \in Thread, Lock(t)
    PROVE  Kinds'
<1>1. UNCHANGED <<lines, Rest>>
  BY DEF Lock, screenvars, Rest
<1>2. CASE out' = out
  BY <1>1, <1>2, KindsStutter
<1>3. CASE out' = [out EXCEPT ![t].pc = EachChar(out[t].text)]
  <2> DEFINE d == out'[t]
             o == out[t]
  <2>1. IsOut(o) /\ o.pc = "lock"
    BY DEF Kinds, Lock, At
  <2>2. PICK b : b = EachChar(o.text) /\ out' = [out EXCEPT ![t].pc = b]
    BY <1>3, Zenon
  <2>3. /\ DOMAIN out' = Thread /\ out' = [u \in Thread |-> out'[u]]
        /\ \A u \in Thread \ {t} : out'[u] = out[u]
        /\ DOMAIN d = Fields /\ d = [f \in DOMAIN d |-> d[f]]
        /\ d.pc = b /\ d.bx = o.bx /\ d.edi = o.edi /\ d.eax = o.eax /\ d.text = o.text
    BY <2>1, <2>2 DEF Kinds, IsOut, Fields
  <2> HIDE DEF d, o
  <2>4. b \in {"done", "select hi"} /\ (b = "select hi" => o.text # <<>>)
    BY <2>2 DEF EachChar
  <2>5. o.text \in Seq(Drawn) /\ o.text \in Texts
    BY <2>1 DEF IsOut, TextFits
  <2>6. b \in Labels /\ b \notin {"skip", "clear", "fill"} /\ (b \in ToDraw \cup ToPlace => b = "select hi")
    BY <2>4 DEF Labels, ToDraw, ToPlace
  <2>7. TextFits(d)
    BY <2>3, <2>4, <2>5, <2>6, Zenon DEF TextFits
  <2>8. o.bx = 0
    BY <2>1 DEF IsOut, ToPlace
  <2>9. IsOut(d)
    BY <2>1, <2>3, <2>6, <2>7, <2>8, Zenon DEF IsOut
  <2>10. out' = [out EXCEPT ![t] = d]
    BY <2>3 DEF Kinds, d
  <2>11. lines' \in [Thread -> Seq(Range(Report))]
    BY <1>1 DEF Kinds
  <2> QED BY <1>1, <2>9, <2>10, <2>11, KindsBegin
<1> QED BY <1>2, <1>3, Zenon DEF Lock

LEMMA KindsUnlock ==
    ASSUME Kinds, NEW t \in Thread, Unlock(t)
    PROVE  Kinds'
<1>1. UNCHANGED Rest /\ out' = [out EXCEPT ![t] = Silent]
  BY DEF Unlock, screenvars, Rest
<1>2. \/ Panics(t) /\ lines' = [lines EXCEPT ![t] = Tail(lines[t])]
      \/ lines' = lines
  BY Zenon DEF Unlock
<1>3. lines' \in [Thread -> Seq(Range(Report))]
  <2>1. lines \in [Thread -> Seq(Range(Report))]
    BY DEF Kinds
  <2> QED BY <1>2, <2>1 DEF Panics
<1> QED BY <1>1, <1>3, SilentOut, KindsBegin

LEMMA KindsNext == Kinds /\ [Next]_vars => Kinds'
<1> SUFFICES ASSUME Kinds, [Next]_vars PROVE Kinds'
  OBVIOUS
<1>1. CASE UNCHANGED vars \/ Tick
  BY <1>1, KindsStutter DEF vars, Tick, screenvars, printvars, Rest
<1>2. ASSUME NEW t \in Thread, put_char(t) PROVE Kinds'
  BY <1>2, KindsPutChar
<1>3. ASSUME NEW t \in Thread, PutIntStep(t) PROVE Kinds'
  BY <1>3, KindsPutInt
<1>4. ASSUME NEW t \in Thread, SpinLock(t) PROVE Kinds'
  BY <1>4, KindsStutter DEF SpinLock, screenvars, Rest
<1>5. ASSUME NEW t \in Thread, Lock(t) \/ Unlock(t) PROVE Kinds'
  BY <1>5, KindsLock, KindsUnlock
<1>6. ASSUME NEW t \in Thread, NEW n \in Numbers, put_int(t, n) PROVE Kinds'
  BY <1>6, KindsNumber
<1>7. ASSUME NEW t \in Thread,
             \/ \E m \in Messages : put_str(t, m) \/ printk(t, m)
             \/ \E pos \in Places : set_cursor(t, pos)
             \/ cls_screen(t) \/ EndStr(t) \/ kernel_panic(t) \/ NextLine(t)
      PROVE  Kinds'
  BY <1>7, KindsCall
<1> QED BY <1>1, <1>2, <1>3, <1>4, <1>5, <1>6, <1>7, Zenon DEF Next

\* The variables of the screen, and the paper.
Video == <<cell, index, cursor, paper>>

\* Nothing happens on the screen, and no thread comes into put_char or leaves it.
LEMMA RelFrame ==
    ASSUME ScreenRel, UNCHANGED <<Video, garbled>>,
           \A u \in Thread : /\ InPutChar(u)' = InPutChar(u)
                             /\ InPutChar(u) => out'[u].pc = out[u].pc /\ out'[u].text = out[u].text
                                                /\ out'[u].bx = out[u].bx
    PROVE  ScreenRel'
<1>1. UNCHANGED <<cell, index, cursor, paper, garbled>>
  BY DEF Video
<1>2. CASE garbled \/ Meet
  <2>1. Meet => Meet'
    <3> SUFFICES ASSUME NEW u \in Thread, NEW v \in Thread, u # v, InPutChar(u), InPutChar(v) PROVE Meet'
      BY Zenon DEF Meet
    <3>1. InPutChar(u)' /\ InPutChar(v)'
      OBVIOUS
    <3> QED BY <3>1, Zenon DEF Meet
  <2>2. garbled' \/ Meet'
    BY <1>1, <1>2, <2>1
  <2> QED BY <2>2, Zenon DEF ScreenRel
<1>3. CASE ~(garbled \/ Meet)
  <2>1. (Quiet => ShowsPaper(cell, paper) /\ CursorIs(cursor, Place(paper)))
    BY <1>3, Zenon DEF ScreenRel
  <2>2. Quiet' => ShowsPaper(cell', paper') /\ CursorIs(cursor', Place(paper'))
    BY <1>1, <2>1, Zenon DEF Quiet
  <2>3. ASSUME NEW u \in Thread, InPutChar(u)' PROVE Phase(out'[u], cell', index', cursor', paper')
    <3>1. Phase(out[u], cell, index, cursor, paper)
      BY <1>3, <2>3, Zenon DEF ScreenRel
    <3>2. Phase(out[u], cell', index', cursor', paper')
      BY <1>1, <3>1, Zenon
    <3>3. out'[u].pc = out[u].pc /\ out'[u].text = out[u].text /\ out'[u].bx = out[u].bx
      BY <2>3
    <3> QED BY <3>2, <3>3, Zenon DEF Phase
  <2>4. (Quiet' => ShowsPaper(cell', paper') /\ CursorIs(cursor', Place(paper')))
        /\ \A u \in Thread : InPutChar(u)' => Phase(out'[u], cell', index', cursor', paper')
    BY <2>2, <2>3, Zenon
  <2> QED BY <2>4, Zenon DEF ScreenRel
<1> QED BY <1>2, <1>3

\* A thread comes into put_char past its reading of the cursor.
LEMMA RelEnter ==
    ASSUME ScreenRel, UNCHANGED <<Video, garbled>>, NEW t \in Thread,
           \A u \in Thread \ {t} : out'[u] = out[u], ~InPutChar(t), InPutChar(t)',
           Quiet /\ ~garbled => Phase(out'[t], cell, index, cursor, paper)
    PROVE  ScreenRel'
<1>1. UNCHANGED <<cell, index, cursor, paper, garbled>>
  BY DEF Video
<1>2. \A u \in Thread \ {t} : InPutChar(u)' = InPutChar(u)
  BY DEF InPutChar
<1>3. CASE garbled
  BY <1>1, <1>3, Zenon DEF ScreenRel
<1>4. CASE ~garbled /\ ~Quiet
  <2>1. PICK u \in Thread : InPutChar(u)
    BY <1>4 DEF Quiet
  <2>2. u # t /\ InPutChar(u)'
    BY <1>2, <2>1
  <2>3. Meet'
    BY <2>2, Zenon DEF Meet
  <2> QED BY <2>3, Zenon DEF ScreenRel
<1>5. CASE ~garbled /\ Quiet
  <2>1. Phase(out'[t], cell', index', cursor', paper')
    BY <1>1, <1>5, Zenon
  <2>2. \A u \in Thread \ {t} : ~InPutChar(u)'
    BY <1>2, <1>5 DEF Quiet
  <2>3. \A u \in Thread : InPutChar(u)' => Phase(out'[u], cell', index', cursor', paper')
    BY <2>1, <2>2
  <2>4. ~Quiet'
    BY Zenon DEF Quiet
  <2> QED BY <2>3, <2>4, Zenon DEF ScreenRel
<1> QED BY <1>3, <1>4, <1>5

LEMMA RelInit == Init => ScreenRel
<1> SUFFICES ASSUME Init PROVE ScreenRel
  OBVIOUS
<1>1. Quiet
  BY DEF Init, Silent, Quiet, InPutChar
<1>2. \A i \in 0..(Screen - 1) : cell[i] = Space
  BY Sizes DEF Init
<1>3. paper = BlankPaper /\ cursor = [hi |-> 0, lo |-> 0]
  BY DEF Init
<1>4. ShowsPaper(cell, paper) /\ Place(paper) = 0
  BY <1>2, <1>3, BlankShows
<1>5. CursorIs(cursor, 0)
  BY <1>3, Sizes DEF CursorIs
<1> QED BY <1>1, <1>4, <1>5 DEF ScreenRel, Quiet

\* The places outside of put_char.
Outside == {"none", "lock", "fill", "skip", "load", "select hi", "done"}

LEMMA RelOutside ==
    ASSUME ScreenRel, NEW t \in Thread, UNCHANGED <<Video, garbled>>,
           \A u \in Thread \ {t} : out'[u].pc = out[u].pc /\ out'[u].text = out[u].text
                                   /\ out'[u].bx = out[u].bx,
           out[t].pc \in Outside, out'[t].pc \in Outside
    PROVE  ScreenRel'
<1>1. ~InPutChar(t) /\ ~InPutChar(t)'
  BY DEF InPutChar, Outside
<1>2. \A u \in Thread : /\ InPutChar(u)' = InPutChar(u)
                        /\ InPutChar(u) => out'[u].pc = out[u].pc /\ out'[u].text = out[u].text
                                           /\ out'[u].bx = out[u].bx
  BY <1>1 DEF InPutChar
<1> QED BY <1>2, RelFrame

\* put_str and printk begin before put_char.
LEMMA RelCall ==
    ASSUME Kinds, ScreenRel, NEW t \in Thread, UNCHANGED <<Video, garbled>>,
           NEW o, out' = [out EXCEPT ![t] = o], out[t].pc \in Outside, o.pc \in Outside
    PROVE  ScreenRel'
<1>1. \A u \in Thread \ {t} : out'[u] = out[u]
  BY DEF Kinds
<1>2. out'[t].pc = o.pc
  BY DEF Kinds
<1> QED BY <1>1, <1>2, RelOutside

\* The step of put_char a thread makes with nobody else in it.
LEMMA AloneGoes ==
    ASSUME NEW t \in Thread, \A u \in Thread \ {t} : ~InPutChar(u) /\ out'[u] = out[u],
           InPutChar(t)' => Phase(out'[t], cell', index', cursor', paper'),
           ~InPutChar(t)' => ShowsPaper(cell', paper') /\ CursorIs(cursor', Place(paper'))
    PROVE  ScreenRel'
<1>1. \A u \in Thread \ {t} : ~InPutChar(u)'
  BY DEF InPutChar
<1>2. Quiet' => ~InPutChar(t)'
  BY Zenon DEF Quiet
<1>3. \A u \in Thread : InPutChar(u)' => Phase(out'[u], cell', index', cursor', paper')
  BY <1>1
<1> QED BY <1>2, <1>3, Zenon DEF ScreenRel

\* bx matters to a move only.
LEMMA SamePaper ==
    ASSUME NEW p, NEW c, c # Move, NEW b1, NEW b2
    PROVE  OnPaper(p, c, b1) = OnPaper(p, c, b2)
BY DEF OnPaper

\* The two bytes of the cursor, and what put_char makes of them.
LEMMA Bytes ==
    ASSUME NEW n \in Int
    PROVE  (n \div Byte) * Byte + (n % Byte) = n
<1>1. Byte \in Nat \ {0}
  BY Sizes
<1> QED BY <1>1

\* For a place on the screen, nothing of draw overflows.
LEMMA DrawOnScreen ==
    ASSUME NEW n \in 0..(Screen - 1), NEW c, c = BS => n > 0, NEW cells
    PROVE  /\ PlaceAfter(c, n) = After(n, c)
           /\ Struck(cells, n, c) = Drew(cells, n, c)
           /\ After(n, c) \in 0..Screen
           /\ OnScreen(After(n, c)) <=> After(n, c) < Screen
           /\ c = BS => After(n, c) < Screen
<1>1. /\ Screen \in Nat /\ Cells \in Nat \ {0} /\ Screen < Cells /\ Short = 2 * Cells /\ Short \in Nat
  BY Sizes
<1>2. n \in Nat /\ n < Cells /\ n % Cells = n
  BY <1>1
<1>3. n > 0 => (n - 1) % Short = n - 1 /\ (n - 1) % Cells = n - 1
  BY <1>1
<1>4. PlaceAfter(c, n) = After(n, c)
  BY <1>2, <1>3 DEF PlaceAfter, After
<1>5. Struck(cells, n, c) = Drew(cells, n, c)
  BY <1>2, <1>3 DEF Struck, Drew
<1>6. After(n, c) \in 0..Screen /\ (c = BS => After(n, c) = n - 1)
  BY AfterPlace
<1>7. \A k \in 0..Screen : OnScreen(k) <=> k < Screen
  BY <1>1 DEF OnScreen
<1> QED BY <1>1, <1>4, <1>5, <1>6, <1>7

\* draw
LEMMA PhaseDraw ==
    ASSUME Kinds, NEW t \in Thread, Draw(t), Phase(out[t], cell, index, cursor, paper),
           ~(Head(out[t].text) = BS /\ out[t].bx = 0)
    PROVE  InPutChar(t)' /\ Phase(out'[t], cell', index', cursor', paper')
<1> DEFINE o == out[t]
           d == out'[t]
           c == Head(o.text)
           n == Place(paper)
           k == After(n, c)
           q == OnPaper(paper, c, k)
           b == IF c = BS \/ OnScreen(PlaceAfter(c, o.bx)) THEN "set hi" ELSE "roll"
<1>1. o.pc = "draw" /\ Turn(t, b, PlaceAfter(c, o.bx))
  BY TurnDraw
<1>2. ShowsPaper(cell, paper) /\ o.bx = n
  BY <1>1, Zenon DEF Phase
<1>3. n \in 0..(Screen - 1)
  BY <1>2, PlaceIn DEF ShowsPaper
<1>4. c = BS => n > 0
  BY <1>2, <1>3
<1>5. c # Move /\ c # Clear
  <2>1. TextFits(o)
    BY DEF Kinds, IsOut
  <2>2. o.text \in Seq(Drawn) /\ o.text # <<>>
    BY <1>1, <2>1 DEF TextFits, ToDraw
  <2>3. c \in Drawn
    BY <2>2
  <2> QED BY <2>3, GlyphsDrawn
<1>6. cell' = Struck(cell, o.bx, c) /\ UNCHANGED <<index, cursor, paper>>
  BY DrawStrikes DEF Draw
<1>7. AllCells(cell)
  BY DEF Kinds
<1>8. /\ d.pc = b /\ d.bx = PlaceAfter(c, o.bx) /\ d.text = o.text
  BY <1>1 DEF Turn, Goes
<1> HIDE DEF d, c, n, o
<1>9. /\ PlaceAfter(c, n) = k /\ Struck(cell, n, c) = Drew(cell, n, c) /\ k \in 0..Screen
      /\ OnScreen(k) <=> k < Screen
      /\ c = BS => k < Screen
  BY <1>3, <1>4, DrawOnScreen
<1>10. /\ k < Screen => ShowsPaper(Drew(cell, n, c), q) /\ Place(q) = k
       /\ k = Screen => BeforeRoll(Drew(cell, n, c), paper, q)
  BY <1>2, <1>4, <1>5, <1>7, DrawShows DEF n
<1> HIDE DEF k
<1>11. cell' = Drew(cell, n, c) /\ d.bx = k /\ d.pc = (IF k < Screen THEN "set hi" ELSE "roll")
  <2>1. b = IF k < Screen THEN "set hi" ELSE "roll"
    BY <1>2, <1>9
  <2> HIDE DEF b
  <2> QED BY <1>2, <1>6, <1>8, <1>9, <2>1
<1>12. paper' = paper /\ Head(d.text) = c
  BY <1>6, <1>8 DEF c
<1>13. CASE k < Screen
  <2>1. d.pc = "set hi" /\ ShowsPaper(cell', q) /\ d.bx = Place(q)
    BY <1>10, <1>11, <1>13
  <2>2. q = OnPaper(paper', Head(d.text), d.bx)
    BY <1>11, <1>12
  <2> HIDE DEF q
  <2>3. Phase(d, cell', index', cursor', paper')
    BY <2>1, <2>2 DEF Phase, ToPlace
  <2> QED BY <2>1, <2>3 DEF InPutChar, d
<1>14. CASE k = Screen
  <2>1. d.pc = "roll" /\ BeforeRoll(cell', paper, q)
    <3>1. ~(k < Screen)
      BY <1>14, Sizes
    <3> QED BY <1>10, <1>11, <1>14, <3>1
  <2>2. q = OnPaper(paper', Head(d.text), d.bx)
    BY <1>11, <1>12
  <2> HIDE DEF q
  <2>3. Phase(d, cell', index', cursor', paper')
    BY <1>12, <2>1, <2>2 DEF Phase, ToPlace
  <2> QED BY <2>1, <2>3 DEF InPutChar, d
<1>15. k < Screen \/ k = Screen
  BY <1>9, Sizes
<1> QED BY <1>13, <1>14, <1>15

\* The roll of the screen, clearing it.
LEMMA PhaseRoll ==
    ASSUME Kinds, NEW t \in Thread, Roll(t), Phase(out[t], cell, index, cursor, paper)
    PROVE  InPutChar(t)' /\ Phase(out'[t], cell', index', cursor', paper')
<1> DEFINE o == out[t]
           d == out'[t]
           c == Head(o.text)
           q == OnPaper(paper, c, o.bx)
           r == OnPaper(paper', Head(d.text), d.bx)
<1>1. o.pc = "roll" /\ Turn(t, "set hi", Screen - Columns)
  BY TurnRoll
<1>2. d.pc = "set hi" /\ d.bx = Screen - Columns /\ d.text = o.text
  BY <1>1 DEF Turn, Goes
<1>3. BeforeRoll(cell, paper, q)
  BY <1>1, Zenon DEF Phase
<1>4. c # Move
  <2>1. TextFits(o)
    BY DEF Kinds, IsOut
  <2>2. o.text \in Seq(Drawn) /\ o.text # <<>>
    BY <1>1, <2>1 DEF TextFits, ToDraw
  <2>3. c \in Drawn
    BY <2>2
  <2> QED BY <2>3, GlyphsDrawn
<1>5. cell' = Rolled(cell) /\ UNCHANGED <<index, cursor, paper>>
  BY DEF Roll, Rolled
<1>6. AllCells(cell)
  BY DEF Kinds
<1>7. ShowsPaper(Rolled(cell), q) /\ Place(q) = Screen - Columns
  BY <1>3, <1>6, RollShows
<1>8. r = q
  BY <1>2, <1>4, <1>5, SamePaper
<1>9. ShowsPaper(cell', r) /\ d.bx = Place(r)
  BY <1>2, <1>5, <1>7, <1>8
<1> HIDE DEF o, c, q
<1>10. Phase(d, cell', index', cursor', paper')
  BY <1>2, <1>9 DEF Phase, ToPlace
<1> QED BY <1>2, <1>10 DEF InPutChar

LEMMA PhaseClear ==
    ASSUME Kinds, NEW t \in Thread, ClearCells(t)
    PROVE  InPutChar(t)' /\ Phase(out'[t], cell', index', cursor', paper')
<1> DEFINE o == out[t]
           d == out'[t]
           r == OnPaper(paper', Head(d.text), d.bx)
<1>1. o.pc = "clear" /\ Turn(t, "set hi", 0)
  BY TurnRoll
<1>2. d.pc = "set hi" /\ d.bx = 0 /\ d.text = o.text
  BY <1>1 DEF Turn, Goes
<1>3. Head(d.text) = Clear
  <2>1. o.text = <<Clear>>
    BY <1>1 DEF Kinds, IsOut, TextFits
  <2>2. ASSUME NEW x PROVE Head(<<x>>) = x
    OBVIOUS
  <2> QED BY <1>2, <2>1, <2>2, Zenon
<1>4. cell' = Cleared(cell)
  BY DEF ClearCells, Cleared
<1>5. AllCells(cell)
  BY DEF Kinds
<1>6. ShowsPaper(cell', r) /\ d.bx = Place(r)
  BY <1>2, <1>3, <1>4, <1>5, ClearShows
<1>7. Phase(d, cell', index', cursor', paper')
  BY <1>2, <1>6 DEF Phase, ToPlace
<1> QED BY <1>2, <1>7 DEF InPutChar

\* Selecting a byte of the cursor.
LEMMA PhaseSelect ==
    ASSUME Kinds, NEW t \in Thread,
           \/ /\ Select(t, "select hi", "in hi", "hi")
              /\ ShowsPaper(cell, paper) /\ CursorIs(cursor, Place(paper))
           \/ /\ Phase(out[t], cell, index, cursor, paper)
              /\ \/ Select(t, "select lo", "in lo", "lo")
                 \/ Select(t, "set hi", "out hi", "hi")
                 \/ Select(t, "set lo", "out lo", "lo")
    PROVE  InPutChar(t)' /\ Phase(out'[t], cell', index', cursor', paper')
<1> DEFINE o == out[t]
           d == out'[t]
           q == OnPaper(paper, Head(o.text), o.bx)
           r == OnPaper(paper', Head(d.text), d.bx)
<1>1. ASSUME NEW a, NEW b, NEW byte, Select(t, a, b, byte)
      PROVE  /\ o.pc = a /\ d.pc = b /\ d.bx = o.bx /\ d.text = o.text
             /\ index' = byte /\ UNCHANGED <<cell, cursor, paper>>
  <2>1. Turn(t, b, o.bx) /\ o.pc = a
    BY <1>1, TurnSelect
  <2>2. index' = byte /\ UNCHANGED <<cell, cursor, paper>>
    BY <1>1, Zenon DEF Select
  <2> QED BY <2>1, <2>2, Zenon DEF Turn, Goes
<1>2. ASSUME d.bx = o.bx, d.text = o.text, paper' = paper PROVE r = q
  BY <1>2
<1> HIDE DEF q, r
<1>3. CASE /\ Select(t, "select hi", "in hi", "hi")
           /\ ShowsPaper(cell, paper) /\ CursorIs(cursor, Place(paper))
  <2>1. d.pc = "in hi" /\ index' = "hi" /\ UNCHANGED <<cell, cursor, paper>>
    BY <1>1, <1>3
  <2> QED BY <1>3, <2>1 DEF Phase, ToPlace, InPutChar
<1>4. CASE Phase(out[t], cell, index, cursor, paper) /\ Select(t, "select lo", "in lo", "lo")
  <2>1. o.pc = "select lo" /\ d.pc = "in lo" /\ d.bx = o.bx /\ index' = "lo" /\ UNCHANGED <<cell, cursor, paper>>
    BY <1>1, <1>4
  <2>2. ShowsPaper(cell, paper) /\ CursorIs(cursor, Place(paper)) /\ o.bx = cursor.hi * Byte
    BY <1>4, <2>1 DEF Phase
  <2> QED BY <2>1, <2>2 DEF Phase, ToPlace, InPutChar
<1>5. CASE Phase(out[t], cell, index, cursor, paper) /\ Select(t, "set hi", "out hi", "hi")
  <2>1. /\ o.pc = "set hi" /\ d.pc = "out hi" /\ d.bx = o.bx /\ index' = "hi"
        /\ UNCHANGED <<cell, cursor, paper>> /\ d.text = o.text
    BY <1>1, <1>5
  <2>2. ShowsPaper(cell, q) /\ o.bx = Place(q)
    BY <1>5, <2>1 DEF Phase, ToPlace, q
  <2>3. ShowsPaper(cell', r) /\ d.bx = Place(r)
    BY <1>2, <2>1, <2>2
  <2> QED BY <2>1, <2>3 DEF Phase, ToPlace, InPutChar, r
<1>6. CASE Phase(out[t], cell, index, cursor, paper) /\ Select(t, "set lo", "out lo", "lo")
  <2>1. /\ o.pc = "set lo" /\ d.pc = "out lo" /\ d.bx = o.bx /\ index' = "lo"
        /\ UNCHANGED <<cell, cursor, paper>> /\ d.text = o.text
    BY <1>1, <1>6
  <2>2. ShowsPaper(cell, q) /\ o.bx = Place(q) /\ cursor.hi = o.bx \div Byte
    BY <1>6, <2>1 DEF Phase, ToPlace, q
  <2>3. ShowsPaper(cell', r) /\ d.bx = Place(r)
    BY <1>2, <2>1, <2>2
  <2> QED BY <2>1, <2>2, <2>3 DEF Phase, ToPlace, InPutChar, r
<1> QED BY <1>3, <1>4, <1>5, <1>6

\* Reading a byte of the cursor, and writing it.
\* The two reads.
Reads(t) == ReadByte(t, "in hi", "select lo", Byte) \/ ReadByte(t, "in lo", "draw", 1)

LEMMA PhaseRead ==
    ASSUME Kinds, NEW t \in Thread, Phase(out[t], cell, index, cursor, paper),
           Reads(t)
    PROVE  InPutChar(t)' /\ Phase(out'[t], cell', index', cursor', paper')
<1> DEFINE o == out[t]
           d == out'[t]
<1>1. ASSUME NEW a, NEW b, NEW weight, ReadByte(t, a, b, weight)
      PROVE  /\ o.pc = a /\ d.pc = b /\ d.bx = o.bx + weight * cursor[index]
             /\ UNCHANGED <<cell, index, cursor, paper>>
  <2>1. Turn(t, b, o.bx + weight * cursor[index]) /\ o.pc = a
    BY <1>1, TurnRead
  <2>2. UNCHANGED <<cell, index, cursor, paper>>
    BY <1>1, Zenon DEF ReadByte
  <2> QED BY <2>1, <2>2, Zenon DEF Turn, Goes
<1>2. IsOut(o) /\ cursor \in [hi : Int, lo : Int] /\ Byte \in Nat
  BY Sizes DEF Kinds
<1>3. CASE ReadByte(t, "in hi", "select lo", Byte)
  <2>1. /\ o.pc = "in hi" /\ d.pc = "select lo" /\ d.bx = o.bx + Byte * cursor[index]
        /\ UNCHANGED <<cell, index, cursor, paper>>
    BY <1>1, <1>3
  <2>2. ShowsPaper(cell, paper) /\ CursorIs(cursor, Place(paper)) /\ index = "hi"
    BY <2>1 DEF Phase
  <2>3. o.bx = 0
    BY <1>2, <2>1 DEF IsOut, ToPlace
  <2>4. d.bx = cursor.hi * Byte
    <3>1. cursor[index] = cursor.hi /\ cursor.hi \in Int
      BY <1>2, <2>2
    <3>2. PICK h \in Int : h = cursor.hi
      BY <3>1
    <3>3. d.bx = 0 + Byte * h
      BY <2>1, <2>3, <3>1, <3>2
    <3>4. 0 + Byte * h = h * Byte
      BY <1>2
    <3> QED BY <3>2, <3>3, <3>4
  <2> QED BY <2>1, <2>2, <2>4 DEF Phase, ToPlace, InPutChar
<1>4. CASE ReadByte(t, "in lo", "draw", 1)
  <2>1. PICK one : one = 1
    OBVIOUS
  <2>2. ReadByte(t, "in lo", "draw", one)
    BY <1>4, <2>1, Zenon
  <2>3. /\ o.pc = "in lo" /\ d.pc = "draw" /\ d.bx = o.bx + one * cursor[index]
        /\ UNCHANGED <<cell, index, cursor, paper>>
    BY <1>1, <2>2
  <2>4. ShowsPaper(cell, paper) /\ CursorIs(cursor, Place(paper)) /\ index = "lo" /\ o.bx = cursor.hi * Byte
    BY <2>3 DEF Phase
  <2>5. d.bx = Place(paper)
    <3>1. cursor[index] = cursor.lo /\ cursor.lo \in Int /\ cursor.hi \in Int
      BY <1>2, <2>4
    <3>2. PICK l \in Int, h \in Int : l = cursor.lo /\ h = cursor.hi
      BY <3>1
    <3>3. d.bx = h * Byte + one * l
      BY <2>3, <2>4, <3>1, <3>2
    <3>6. PICK x \in Int : x = h * Byte
      BY <1>2
    <3>7. x + 1 * l = x + l
      OBVIOUS
    <3>4. d.bx = h * Byte + l
      BY <2>1, <3>3, <3>6, <3>7, Zenon
    <3>5. h * Byte + l = Place(paper)
      BY <2>4, <3>2 DEF CursorIs
    <3> QED BY <3>4, <3>5
  <2> QED BY <2>3, <2>4, <2>5 DEF Phase, ToPlace, InPutChar
<1> QED BY <1>3, <1>4, Zenon DEF Reads

LEMMA PhaseWrite ==
    ASSUME Kinds, NEW t \in Thread, Phase(out[t], cell, index, cursor, paper),
           WriteByte(t, "out hi", "set lo", out[t].bx \div Byte)
    PROVE  InPutChar(t)' /\ Phase(out'[t], cell', index', cursor', paper')
<1> DEFINE o == out[t]
           d == out'[t]
           v == o.bx \div Byte
           q == OnPaper(paper, Head(o.text), o.bx)
           r == OnPaper(paper', Head(d.text), d.bx)
<1>1. Turn(t, "set lo", o.bx) /\ o.pc = "out hi"
  BY TurnWrite
<1>2. d.pc = "set lo" /\ d.bx = o.bx /\ d.text = o.text
  BY <1>1, Zenon DEF Turn, Goes
<1>3. cursor' = [cursor EXCEPT ![index] = v] /\ UNCHANGED <<cell, index, paper>>
  BY Zenon DEF WriteByte
<1>4. r = q
  BY <1>2, <1>3
<1> HIDE DEF q, r
<1>5. ShowsPaper(cell, q) /\ o.bx = Place(q) /\ index = "hi"
  BY <1>1 DEF Phase, ToPlace, q
<1>6. cursor'.hi = v
  <2> HIDE DEF v
  <2>1. cursor \in [hi : Int, lo : Int]
    BY DEF Kinds
  <2> QED BY <1>3, <1>5, <2>1
<1>7. ShowsPaper(cell', r) /\ d.bx = Place(r) /\ cursor'.hi = d.bx \div Byte
  BY <1>2, <1>3, <1>4, <1>5, <1>6
<1> QED BY <1>2, <1>7 DEF Phase, ToPlace, InPutChar, r

\* The character is on the screen.
LEMMA PhaseEnd ==
    ASSUME Kinds, NEW t \in Thread, Phase(out[t], cell, index, cursor, paper), EndChar(t), ~garbled
    PROVE  ~InPutChar(t)' /\ ShowsPaper(cell', paper') /\ CursorIs(cursor', Place(paper'))
<1> DEFINE o == out[t]
           d == out'[t]
           v == o.bx % Byte
           q == OnPaper(paper, Head(o.text), o.bx)
<1>1. o.pc = "out lo" /\ d.pc \in {"load", "done", "select hi"}
  BY EndCharTurns
<1>2. /\ cursor' = [cursor EXCEPT ![index] = v] /\ UNCHANGED <<cell, index>>
      /\ paper' = q
  BY Zenon DEF EndChar
<1>3. ShowsPaper(cell, q) /\ o.bx = Place(q) /\ index = "lo" /\ cursor.hi = o.bx \div Byte
  BY <1>1 DEF Phase, ToPlace
<1> HIDE DEF q
<1>4. cursor \in [hi : Int, lo : Int] /\ o.bx \in Int
  BY DEF Kinds, IsOut
<1>5. cursor'.lo = v /\ cursor'.hi = o.bx \div Byte
  <2> HIDE DEF v
  <2> QED BY <1>2, <1>3, <1>4
<1>6. cursor'.hi * Byte + cursor'.lo = o.bx
  <2>1. (o.bx \div Byte) * Byte + (o.bx % Byte) = o.bx
    BY <1>4, Bytes
  <2> QED BY <1>5, <2>1
<1>7. CursorIs(cursor', Place(paper'))
  BY <1>2, <1>3, <1>6 DEF CursorIs
<1>8. ShowsPaper(cell', paper')
  BY <1>2, <1>3
<1>9. ~InPutChar(t)'
  BY <1>1 DEF InPutChar
<1> QED BY <1>7, <1>8, <1>9

\* put_char leaves the other threads alone.
LEMMA PutCharTurns ==
    ASSUME Kinds, NEW t \in Thread, put_char(t)
    PROVE  \A u \in Thread \ {t} : out'[u] = out[u]
<1>1. (\E b, n : Turn(t, b, n)) \/ EndChar(t)
  <2>1. ASSUME NEW a, NEW b, NEW byte, Select(t, a, b, byte) PROVE \E c, n : Turn(t, c, n)
    BY <2>1, TurnSelect, Zenon
  <2>2. ASSUME NEW a, NEW b, NEW weight, ReadByte(t, a, b, weight) PROVE \E c, n : Turn(t, c, n)
    BY <2>2, TurnRead, Zenon
  <2>3. ASSUME NEW a, NEW b, NEW value, WriteByte(t, a, b, value) PROVE \E c, n : Turn(t, c, n)
    BY <2>3, TurnWrite, Zenon
  <2>4. ASSUME Draw(t) \/ Roll(t) \/ ClearCells(t) PROVE \E c, n : Turn(t, c, n)
    BY <2>4, TurnDraw, TurnRoll, Zenon
  <2> QED BY <2>1, <2>2, <2>3, <2>4, Zenon DEF put_char
<1> QED BY <1>1, EndCharTurns, Zenon DEF Turn

\* All of put_char.
LEMMA RelPutChar ==
    ASSUME Kinds, ScreenRel, NEW t \in Thread, put_char(t)
    PROVE  ScreenRel'
<1>1. /\ garbled' = (garbled \/ (\E u \in Thread \ {t} : InPutChar(u))
                             \/ (out[t].pc = "draw" /\ Head(out[t].text) = BS /\ out[t].bx = 0))
  BY Zenon DEF put_char
<1>2. CASE garbled'
  BY <1>2, Zenon DEF ScreenRel
<1>3. CASE ~garbled'
  <2>1. /\ ~garbled /\ \A u \in Thread \ {t} : ~InPutChar(u)
        /\ ~(out[t].pc = "draw" /\ Head(out[t].text) = BS /\ out[t].bx = 0)
    BY <1>1, <1>3, Zenon
  <2>2. ~Meet
    BY <2>1 DEF Meet
  <2>3. /\ Quiet => ShowsPaper(cell, paper) /\ CursorIs(cursor, Place(paper))
        /\ InPutChar(t) => Phase(out[t], cell, index, cursor, paper)
    BY <2>1, <2>2, Zenon DEF ScreenRel
  <2>4. \A u \in Thread \ {t} : out'[u] = out[u]
    BY PutCharTurns DEF Turn
  <2>5. \/ InPutChar(t)' /\ Phase(out'[t], cell', index', cursor', paper')
        \/ ~InPutChar(t)' /\ ShowsPaper(cell', paper') /\ CursorIs(cursor', Place(paper'))
    <3>1. CASE Select(t, "select hi", "in hi", "hi")
      <4>1. Quiet
        BY <2>1, <3>1 DEF Select, At, Quiet, InPutChar
      <4> QED BY <2>3, <3>1, <4>1, PhaseSelect
    <3>2. CASE ~Select(t, "select hi", "in hi", "hi")
      <4>1. InPutChar(t)
        BY <3>2 DEF put_char, Select, ReadByte, WriteByte, Draw, Roll, ClearCells, EndChar, At, InPutChar
      <4>2. Phase(out[t], cell, index, cursor, paper)
        BY <2>3, <4>1
      <4>3. CASE Draw(t)
        <5>1. out[t].pc = "draw"
          BY <4>3, Zenon DEF Draw, At
        <5> QED BY <2>1, <4>2, <4>3, <5>1, PhaseDraw
      <4>4. CASE EndChar(t)
        BY <2>1, <4>2, <4>4, PhaseEnd
      <4> QED BY <3>2, <4>2, <4>3, <4>4, PhaseSelect, PhaseRead, PhaseWrite, PhaseRoll, PhaseClear, Zenon DEF put_char, Reads
    <3> QED BY <3>1, <3>2
  <2> QED BY <2>1, <2>4, <2>5, AloneGoes
<1> QED BY <1>2, <1>3

\* put_int between its characters is outside of put_char.
LEMMA RelPutInt ==
    ASSUME Kinds, ScreenRel, NEW t \in Thread, PutIntStep(t)
    PROVE  ScreenRel'
<1>1. UNCHANGED <<Video, garbled>>
  BY DEF PutIntStep, Video
<1>2. out[t].pc \in {"fill", "skip", "load"}
  BY Zenon DEF PutIntStep, Fill, Skip, Load, At
<1>3. DOMAIN out = Thread /\ out = [u \in Thread |-> out[u]] /\ DOMAIN out[t] = Fields
  BY DEF Kinds, IsOut
<1>4. (\A u \in Thread \ {t} : out'[u] = out[u]) /\ out'[t].pc \in Outside
  <2>1. CASE Fill(t)
    <3>1. PICK edi, eax, b : /\ b = "skip" \/ b = "fill"
                             /\ out' = [out EXCEPT ![t].edi = edi, ![t].eax = eax, ![t].pc = b]
      BY <2>1, Zenon DEF Fill
    <3> QED BY <1>3, <3>1 DEF Fields, Outside
  <2>2. CASE Skip(t)
    <3>1. PICK edi, text, b : /\ b = "skip" \/ b = "select hi"
                              /\ out' = [out EXCEPT ![t].edi = edi, ![t].text = text, ![t].pc = b]
      BY <2>2, Zenon DEF Skip
    <3> QED BY <1>3, <3>1 DEF Fields, Outside
  <2>3. CASE Load(t)
    <3>1. \/ out' = [out EXCEPT ![t].pc = "done"]
          \/ \E edi, text : out' = [out EXCEPT ![t].edi = edi, ![t].text = text, ![t].pc = "select hi"]
      BY <2>3, Zenon DEF Load
    <3> QED BY <1>3, <3>1 DEF Fields, Outside
  <2> QED BY <2>1, <2>2, <2>3, Zenon DEF PutIntStep
<1>5. out[t].pc \in Outside
  BY <1>2 DEF Outside
<1> QED BY <1>1, <1>4, <1>5, RelOutside

\* A call, the end of one, and the lock of printk.
LEMMA RelOther ==
    ASSUME Kinds, ScreenRel, NEW t \in Thread,
           \/ \E m \in Messages : put_str(t, m) \/ printk(t, m)
           \/ EndStr(t) \/ NextLine(t) \/ Lock(t) \/ Unlock(t)
    PROVE  ScreenRel'
<1>1. UNCHANGED <<Video, garbled>>
  BY DEF put_str, printk, Call, EndStr, NextLine, Lock, Unlock, screenvars, Video
<1>2. Silent.pc \in Outside /\ \A m : \A a \in Outside : [Silent EXCEPT !.pc = a, !.text = m].pc \in Outside
  BY DEF Silent, Outside
<1>3. ASSUME NEW a \in Outside, NEW m, Begin(t, a, m) PROVE ScreenRel'
  <2>1. out[t].pc \in Outside
    BY <1>3 DEF Begin, At, Outside
  <2>2. out' = [out EXCEPT ![t] = [Silent EXCEPT !.pc = a, !.text = m]]
    BY <1>3, Zenon DEF Begin
  <2> QED BY <1>1, <1>2, <2>1, <2>2, RelCall
<1>4. ASSUME NEW m, put_str(t, m) \/ printk(t, m) PROVE ScreenRel'
  <2>1. EachChar(m) \in Outside /\ "lock" \in Outside
    BY DEF EachChar, Outside
  <2> QED BY <1>3, <1>4, <2>1, Zenon DEF put_str, printk
<1>5. ASSUME EndStr(t) \/ Unlock(t) PROVE ScreenRel'
  <2>1. out[t].pc \in Outside /\ out' = [out EXCEPT ![t] = Silent]
    BY <1>5 DEF EndStr, Unlock, At, Outside
  <2> QED BY <1>1, <1>2, <2>1, RelCall
<1>6. ASSUME NextLine(t) PROVE ScreenRel'
  <2>1. "lock" \in Outside
    BY DEF Outside
  <2> QED BY <1>3, <1>6, <2>1, Zenon DEF NextLine
<1>7. ASSUME Lock(t) PROVE ScreenRel'
  <2>1. out[t].pc = "lock"
    BY <1>7, Zenon DEF Lock, At
  <2>2. CASE out' = out
    BY <1>1, <2>2, RelFrame DEF InPutChar
  <2>3. CASE out' = [out EXCEPT ![t].pc = EachChar(out[t].text)]
    <3>1. PICK b : b = EachChar(out[t].text) /\ out' = [out EXCEPT ![t].pc = b]
      BY <2>3, Zenon
    <3>2. b \in Outside /\ out[t].pc \in Outside
      BY <2>1, <3>1 DEF EachChar, Outside
    <3>3. (\A u \in Thread \ {t} : out'[u] = out[u]) /\ out'[t].pc = b
      BY <3>1 DEF Kinds, IsOut, Fields
    <3> QED BY <1>1, <3>2, <3>3, RelOutside
  <2> QED BY <1>7, <2>2, <2>3, Zenon DEF Lock
<1> QED BY <1>4, <1>5, <1>6, <1>7, Zenon

\* A panic on top of a put_char spoils the screen; elsewhere it only begins a
\* printk.
LEMMA RelPanic ==
    ASSUME Kinds, ScreenRel, NEW t \in Thread, kernel_panic(t)
    PROVE  ScreenRel'
<1>1. /\ out' = [out EXCEPT ![t] = [Silent EXCEPT !.pc = "lock", !.text = Head(Report)]]
      /\ UNCHANGED Video
  BY Zenon DEF kernel_panic, Video
<1>2. CASE InPutChar(t)
  BY <1>2 DEF kernel_panic, ScreenRel
<1>3. CASE ~InPutChar(t)
  <2>1. garbled' = garbled
    BY <1>3, Zenon DEF kernel_panic
  <2>2. out[t].pc \in Outside
    BY <1>3 DEF InPutChar, Outside
  <2>3. [Silent EXCEPT !.pc = "lock", !.text = Head(Report)].pc \in Outside
    BY DEF Silent, Outside
  <2> QED BY <1>1, <2>1, <2>2, <2>3, RelCall
<1> QED BY <1>2, <1>3

LEMMA RelNumber ==
    ASSUME Kinds, ScreenRel, NEW t \in Thread, NEW n \in Numbers, put_int(t, n)
    PROVE  ScreenRel'
<1>1. UNCHANGED <<Video, garbled>> /\ out[t].pc \in Outside
  BY DEF put_int, Call, screenvars, Video, At, Outside
<1>2. PICK s : out' = [u \in Thread |->
                 IF u = t THEN [Silent EXCEPT !.pc = "fill", !.edi = Digits, !.num = n, !.eax = n, !.shared = s]
                 ELSE [out[u] EXCEPT !.shared = @ \/ InPutInt(u)]]
  BY Zenon DEF put_int
<1>3. out'[t].pc \in Outside
  BY <1>2 DEF Silent, Outside
<1>4. ASSUME NEW u \in Thread \ {t}
      PROVE  out'[u].pc = out[u].pc /\ out'[u].text = out[u].text /\ out'[u].bx = out[u].bx
  <2>1. PICK z : out'[u] = [out[u] EXCEPT !.shared = z]
    BY <1>2, Zenon
  <2>2. DOMAIN out[u] = Fields
    BY DEF Kinds, IsOut
  <2> QED BY <2>1, <2>2 DEF Fields
<1> QED BY <1>1, <1>3, <1>4, RelOutside

\* cls_screen and set_cursor do not read the cursor.
LEMMA RelPlace ==
    ASSUME Kinds, ScreenRel, NEW t \in Thread,
           cls_screen(t) \/ \E pos \in Places : set_cursor(t, pos)
    PROVE  ScreenRel'
<1>1. UNCHANGED <<Video, garbled>> /\ out[t].pc = "none"
  BY DEF cls_screen, set_cursor, Begin, Call, screenvars, Video, At
<1>2. ~InPutChar(t)
  BY <1>1 DEF InPutChar
<1>3. CASE cls_screen(t)
  <2>1. out' = [out EXCEPT ![t] = [Silent EXCEPT !.pc = "clear", !.text = <<Clear>>]]
    BY <1>3, Zenon DEF cls_screen, Begin
  <2>2. out'[t].pc = "clear" /\ \A u \in Thread \ {t} : out'[u] = out[u]
    BY <2>1 DEF Kinds, Silent
  <2>3. InPutChar(t)' /\ Phase(out'[t], cell, index, cursor, paper)
    BY <2>2 DEF InPutChar, Phase, ToPlace
  <2> QED BY <1>1, <1>2, <2>2, <2>3, RelEnter
<1>4. ASSUME NEW pos \in Places, set_cursor(t, pos) PROVE ScreenRel'
  <2> DEFINE d == out'[t]
  <2>1. out' = [out EXCEPT ![t] = [Silent EXCEPT !.pc = "set hi", !.text = <<Move>>, !.bx = pos]]
    BY <1>4, Zenon DEF set_cursor
  <2>2. d.pc = "set hi" /\ d.bx = pos /\ d.text = <<Move>> /\ \A u \in Thread \ {t} : out'[u] = out[u]
    BY <2>1 DEF Kinds, Silent
  <2>3. Head(d.text) = Move
    <3>1. ASSUME NEW x PROVE Head(<<x>>) = x
      OBVIOUS
    <3>2. d.text = <<Move>>
      BY <2>2, Zenon
    <3> QED BY <3>1, <3>2, Zenon
  <2>4. pos \in 0..(Screen - 1)
    BY MessagesDrawn
  <2>5. InPutChar(t)'
    BY <2>2 DEF InPutChar
  <2>6. ASSUME Quiet /\ ~garbled PROVE Phase(d, cell, index, cursor, paper)
    <3>1. ~Meet
      BY <2>6, Zenon DEF Quiet, Meet
    <3>2. ShowsPaper(cell, paper)
      BY <2>6, <3>1, Zenon DEF ScreenRel
    <3>3. ShowsPaper(cell, OnPaper(paper, Move, pos)) /\ Place(OnPaper(paper, Move, pos)) = pos
      BY <2>4, <3>2, MoveShows
    <3>4. ShowsPaper(cell, OnPaper(paper, Head(d.text), d.bx)) /\ d.bx = Place(OnPaper(paper, Head(d.text), d.bx))
      BY <2>2, <2>3, <3>3, Zenon
    <3>5. d.pc = "set hi"
      BY <2>2, Zenon
    <3> HIDE DEF d
    <3> QED BY <3>4, <3>5 DEF Phase, ToPlace
  <2> QED BY <1>1, <1>2, <2>2, <2>5, <2>6, RelEnter
<1> QED BY <1>3, <1>4

LEMMA RelNext == Kinds /\ ScreenRel /\ [Next]_vars => ScreenRel'
<1> SUFFICES ASSUME Kinds, ScreenRel, [Next]_vars PROVE ScreenRel'
  OBVIOUS
<1>1. ASSUME UNCHANGED <<Video, garbled, out>> PROVE ScreenRel'
  BY <1>1, RelFrame DEF InPutChar
<1>2. CASE UNCHANGED vars \/ Tick \/ \E t \in Thread : SpinLock(t)
  BY <1>1, <1>2 DEF vars, Tick, SpinLock, screenvars, printvars, Video
<1>3. ASSUME NEW t \in Thread, put_char(t) PROVE ScreenRel'
  BY <1>3, RelPutChar
<1>4. ASSUME NEW t \in Thread, PutIntStep(t) PROVE ScreenRel'
  BY <1>4, RelPutInt
<1>5. ASSUME NEW t \in Thread, NEW n \in Numbers, put_int(t, n) PROVE ScreenRel'
  BY <1>5, RelNumber
<1>6. ASSUME NEW t \in Thread,
             cls_screen(t) \/ \E pos \in Places : set_cursor(t, pos) PROVE ScreenRel'
  BY <1>6, RelPlace
<1>7. ASSUME NEW t \in Thread,
             \/ \E m \in Messages : put_str(t, m) \/ printk(t, m)
             \/ EndStr(t) \/ kernel_panic(t) \/ NextLine(t) \/ Lock(t) \/ Unlock(t)
      PROVE  ScreenRel'
  BY <1>7, RelOther, RelPanic
<1> QED BY <1>2, <1>3, <1>4, <1>5, <1>6, <1>7, Zenon DEF Next

LEMMA ScreenImplied == ScreenInv => ScreenShowsText
<1> SUFFICES ASSUME ScreenInv, ~garbled, \A t \in Thread : ~InPutChar(t)
             PROVE  /\ cursor.hi * Byte + cursor.lo = paper.pos - paper.top * Columns
                    /\ \A i \in 0..(Screen - 1) :
                          LET at == paper.top * Columns + i
                          IN  cell[i] = IF at \in DOMAIN paper.text THEN paper.text[at] ELSE Space
  BY Zenon DEF ScreenShowsText
<1>1. Quiet /\ ~Meet
  BY DEF Quiet, Meet
<1>2. ShowsPaper(cell, paper) /\ CursorIs(cursor, Place(paper))
  BY <1>1, Zenon DEF ScreenInv, ScreenRel
<1> QED BY <1>2, Zenon DEF ShowsPaper, Shows, CursorIs, Place

\* While no two threads are in put_char at once, and no backspace leaves the
\* screen, the video memory and the cursor are the last rows of what was printed
\* (print.s:25-141), for every screen, text and number of threads.
THEOREM ScreenShowsTextHolds == Spec => []ScreenShowsText
<1>1. Init => ScreenInv
  BY KindsInit, RelInit DEF ScreenInv
<1>2. ScreenInv /\ [Next]_vars => ScreenInv'
  BY KindsNext, RelNext DEF ScreenInv
<1> QED BY <1>1, <1>2, ScreenImplied, PTL DEF Spec

-----------------------------------------------------------------------------
(* The numbers.  A digit of put_int is what a division leaves; the invariant    *)
(* follows the digits through the buffer and out of it, for a thread that was   *)
(* alone in put_int all the time.                                               *)

Left(n) == CHOOSE q \in [0..Digits -> 0..n] : IsLeft(q, n)
Glyph(k) == HexDigits[(k % Base) + 1]

\* The buffer from edi on, and what is shown of l digits.
Filled(buf, q, edi) == \A p \in (edi + 1)..Digits : buf[p] = Glyph(q[Digits - p])
Spelled(s, q, l) == s \in Seq(Glyphs) /\ Len(s) <= l /\ \A i \in 1..Len(s) : s[i] = Glyph(q[l - i])

Printing == ToDraw \cup ToPlace

\* 0 has no digit that is not 0: put_int prints one all the same.
ShowsZero(o) ==
    /\ o.num = 0
    /\ o.pc \in Printing => o.edi = Digits + 1 /\ o.text = <<"0">> /\ o.shown = <<>>
    /\ o.pc = "load" => o.edi = Digits + 1
    /\ o.pc \in {"load", "done"} => o.shown = <<"0">>

\* l digits, the first of them not 0.
ShowsDigits(o, q, l) ==
    /\ q[l] = 0 /\ q[l - 1] # 0
    /\ Spelled(o.shown, q, l)
    /\ o.pc \in Printing => /\ o.edi = Digits - l + Len(o.shown) + 1 /\ o.edi <= Digits
                            /\ o.text = <<Glyph(q[Digits - o.edi])>>
    /\ o.pc = "load" => o.edi = Digits - l + Len(o.shown)
    /\ o.pc = "done" => Len(o.shown) = l

\* put_int at each of its points, with the buffer for itself.
InNumber(o, buf) ==
    LET q == Left(o.num)
    IN  /\ o.pc = "fill" => o.eax = q[Digits - o.edi] /\ Filled(buf, q, o.edi) /\ o.shown = <<>>
        /\ o.pc \notin {"fill", "done"} => Filled(buf, q, 0)
        /\ o.pc = "skip" => q[Digits - o.edi] = 0 /\ o.shown = <<>> /\ (o.edi > 0 => o.text = <<"0">>)
        /\ o.pc \in Printing \cup {"load", "done"} =>
              ShowsZero(o) \/ \E l \in 1..Digits : ShowsDigits(o, q, l)

IntLabels == {"fill", "skip", "load"}
NumberInv ==
    /\ \A t \in Thread : out[t].num \in Numbers \cup {-1} /\ out[t].shared \in BOOLEAN
    /\ \A t \in Thread : out[t].pc \in IntLabels => InPutInt(t)
    /\ \A t \in Thread : InPutInt(t) => out[t].pc \in IntLabels \cup Printing
    /\ \A t \in Thread : out[t].num >= 0 /\ ~out[t].shared =>
          /\ InNumber(out[t], put_int_buffer)
          /\ InPutInt(t) => \A u \in Thread : InPutInt(u) => u = t

\* Induction over a set of numbers: it has a least one.
LEMMA LeastOf ==
    ASSUME NEW T, T \subseteq Nat, T # {}
    PROVE  \E m \in T : \A k \in T : m <= k
<1> DEFINE R == OpToRel(<, Nat)
<1>1. IsWellFoundedOn(R, Nat)
  BY NatLessThanWellFounded
<1>2. \A x, y \in Nat : <<y, x>> \in R <=> y < x
  BY DEF OpToRel
<1> HIDE DEF R
<1>3. PICK m \in T : \A k \in T : ~(<<k, m>> \in R)
  BY <1>1, WFMin
<1>4. \A k \in T : ~(k < m)
  BY <1>2, <1>3
<1> QED BY <1>3, <1>4

\* Different digits look different.
LEMMA HexDigitsDiffer ==
    \A i, j \in 1..16 : HexDigits[i] = HexDigits[j] => i = j
BY DEF HexDigits

LEMMA Bases == Base \in Nat /\ Base > 1 /\ Base <= 16 /\ Digits \in Nat \ {0}
BY ConsoleAssumption

\* What the digit of k is.
LEMMA GlyphIs ==
    ASSUME NEW k \in Nat
    PROVE  /\ k % Base \in Nat /\ k % Base < Base
           /\ Glyph(k) \in Glyphs
           /\ DigitOf(Glyph(k)) = k % Base
           /\ Glyph(k) = "0" <=> k % Base = 0
<1>1. PICK d \in Nat : d = k % Base /\ d < Base /\ d <= 15
  BY Bases
<1>2. Glyph(k) = HexDigits[d + 1] /\ d \in 0..15 /\ d + 1 \in 1..16
  BY <1>1 DEF Glyph
<1>3. \A e \in 0..15 : HexDigits[e + 1] = HexDigits[d + 1] => e = d
  BY <1>2, HexDigitsDiffer
<1>4. DigitOf(HexDigits[d + 1]) = d
  BY <1>2, <1>3 DEF DigitOf
<1>5. HexDigits[1] = "0"
  BY DEF HexDigits
<1>6. HexDigits[d + 1] = "0" <=> d = 0
  BY <1>2, <1>3, <1>5
<1>7. HexDigits[d + 1] \in Glyphs
  BY <1>2 DEF Glyphs
<1> QED BY <1>1, <1>2, <1>4, <1>6, <1>7

\* What is left of a number is nothing after the last division.
LEMMA LeftIs ==
    ASSUME NEW n \in Numbers
    PROVE  /\ n \in Nat /\ Left(n)[0] = n /\ Left(n)[Digits] = 0
           /\ \A i \in 0..Digits : Left(n)[i] \in Nat
           /\ \A i \in 1..Digits : Left(n)[i] = Left(n)[i - 1] \div Base
<1>1. \E q \in [0..Digits -> 0..n] : IsLeft(q, n)
  BY ConsoleAssumption
<1>2. Left(n) \in [0..Digits -> 0..n] /\ IsLeft(Left(n), n)
  BY <1>1 DEF Left
<1>3. n \in Nat
  BY ConsoleAssumption
<1> QED BY <1>2, <1>3 DEF IsLeft

\* A division and its digit.
LEMMA Division ==
    ASSUME NEW a \in Nat
    PROVE  /\ a \div Base \in Nat
           /\ a = (a \div Base) * Base + (a % Base)
BY Bases

LEMMA NoDigit ==
    ASSUME NEW a \in Nat, a \div Base = 0
    PROVE  a % Base = a
BY Bases

\* The value of digits, from any function that adds them up.
LEMMA ValueIs ==
    ASSUME NEW d, NEW n \in Nat, Len(d) = n,
           NEW g, g = [i \in 0..n |-> IF i = 0 THEN 0 ELSE g[i - 1] * Base + DigitOf(d[i])]
    PROVE  ValueOf(d) = g[n]
<1> DEFINE v == CHOOSE v : v = [i \in 0..n |-> IF i = 0 THEN 0 ELSE v[i - 1] * Base + DigitOf(d[i])]
<1>1. v = [i \in 0..n |-> IF i = 0 THEN 0 ELSE v[i - 1] * Base + DigitOf(d[i])]
  OBVIOUS
<1>2. ValueOf(d) = v[n]
  BY DEF ValueOf
<1> HIDE DEF v
<1> DEFINE T == {i \in 0..n : v[i] # g[i]}
<1>3. T \subseteq Nat /\ \A i \in T : i \in 0..n /\ v[i] # g[i]
  OBVIOUS
<1>4. \A i \in 0..n : i \notin T => v[i] = g[i]
  OBVIOUS
<1> HIDE DEF T
<1>5. T = {}
  <2> SUFFICES ASSUME T # {} PROVE FALSE
    OBVIOUS
  <2>1. PICK m \in T : \A k \in T : m <= k
    BY <1>3, LeastOf
  <2>2. m \in 0..n /\ v[m] # g[m]
    BY <1>3
  <2>3. m # 0
    BY <1>1, <2>2
  <2>4. m - 1 \in 0..n /\ m - 1 \notin T
    BY <2>1, <2>2, <2>3
  <2>5. v[m - 1] = g[m - 1]
    BY <1>4, <2>4
  <2>6. v[m] = v[m - 1] * Base + DigitOf(d[m]) /\ g[m] = g[m - 1] * Base + DigitOf(d[m])
    BY <1>1, <2>2, <2>3
  <2> QED BY <2>2, <2>5, <2>6
<1>6. n \in 0..n
  OBVIOUS
<1> QED BY <1>2, <1>4, <1>5, <1>6

\* What l digits are worth.
LEMMA DigitsAreNumber ==
    ASSUME NEW n \in Numbers, NEW l \in 1..Digits, NEW s,
           Spelled(s, Left(n), l), Len(s) = l, Left(n)[l] = 0, Left(n)[l - 1] # 0
    PROVE  ValueOf(s) = n /\ (s[1] = "0" => Len(s) = 1)
<1> DEFINE q == Left(n)
           g == [i \in 0..l |-> q[l - i]]
<1>1. /\ q[0] = n /\ \A i \in 0..Digits : q[i] \in Nat
      /\ \A i \in 1..Digits : q[i] = q[i - 1] \div Base
  BY LeftIs
<1>2. q[l] = 0 /\ q[l - 1] # 0 /\ \A i \in 1..l : s[i] = Glyph(q[l - i])
  BY DEF Spelled
<1>3. l \in Nat /\ l >= 1 /\ l <= Digits /\ Digits \in Nat
  BY Bases
<1> HIDE DEF q
<1>4. ASSUME NEW i \in 1..l
      PROVE  q[l - i] = q[l - (i - 1)] * Base + DigitOf(s[i])
  <2>1. l - i \in 0..Digits /\ l - (i - 1) \in 1..Digits /\ (l - (i - 1)) - 1 = l - i
    BY <1>3
  <2>2. PICK a \in Nat : a = q[l - i]
    BY <1>1, <2>1
  <2>3. q[l - (i - 1)] = a \div Base
    BY <1>1, <2>1, <2>2
  <2>4. DigitOf(s[i]) = a % Base
    BY <1>2, <2>2, GlyphIs
  <2> QED BY <2>2, <2>3, <2>4, Division
<1>5. g = [i \in 0..l |-> IF i = 0 THEN 0 ELSE g[i - 1] * Base + DigitOf(s[i])]
  <2>1. ASSUME NEW i \in 0..l, i # 0
        PROVE  i - 1 \in 0..l /\ g[i - 1] = q[l - (i - 1)] /\ i \in 1..l
    BY <1>3, <2>1
  <2>2. \A i \in 0..l : g[i] = IF i = 0 THEN 0 ELSE g[i - 1] * Base + DigitOf(s[i])
    <3> SUFFICES ASSUME NEW i \in 0..l
                 PROVE  g[i] = IF i = 0 THEN 0 ELSE g[i - 1] * Base + DigitOf(s[i])
      OBVIOUS
    <3>1. CASE i = 0
      BY <1>2, <1>3, <3>1
    <3>2. CASE i # 0
      BY <1>4, <2>1, <3>2
    <3> QED BY <3>1, <3>2
  <2> QED BY <2>2
<1>6. g[l] = n
  BY <1>1, <1>3
<1> HIDE DEF g
<1>7. ValueOf(s) = n
  BY <1>3, <1>5, <1>6, ValueIs
<1>8. s[1] # "0" \/ l = 1
  <2>1. PICK a \in Nat : a = q[l - 1]
    BY <1>1, <1>3
  <2>2. a \div Base = 0 /\ a # 0
    BY <1>1, <1>2, <1>3, <2>1
  <2>3. s[1] = Glyph(a)
    BY <1>2, <1>3, <2>1
  <2> QED BY <2>2, <2>3, NoDigit, GlyphIs
<1> QED BY <1>7, <1>8

\* 0 is shown as one digit.
LEMMA ZeroIsNumber ==
    ValueOf(<<"0">>) = 0 /\ Len(<<"0">>) = 1
<1> DEFINE g == [i \in 0..1 |-> 0]
<1>1. DigitOf("0") = 0
  <2>1. Glyph(0) = HexDigits[1] /\ 0 % Base = 0
    BY Bases DEF Glyph
  <2>2. HexDigits[1] = "0"
    BY DEF HexDigits
  <2> QED BY <2>1, <2>2, GlyphIs
<1>2. PICK s : s = <<"0">>
  OBVIOUS
<1>3. Len(s) = 1 /\ s[1] = "0"
  BY <1>2
<1>4. g = [i \in 0..1 |-> IF i = 0 THEN 0 ELSE g[i - 1] * Base + DigitOf(s[i])]
  <2>1. \A i \in 0..1 : g[i] = IF i = 0 THEN 0 ELSE g[i - 1] * Base + DigitOf(s[i])
    BY <1>1, <1>3, Bases
  <2> QED BY <2>1
<1>5. g[1] = 0
  OBVIOUS
<1> HIDE DEF g
<1>6. ValueOf(s) = g[1]
  <2>1. 1 \in Nat
    OBVIOUS
  <2> QED BY <1>3, <1>4, <2>1, ValueIs, Zenon
<1> QED BY <1>2, <1>3, <1>5, <1>6

\* When put_int is done, its digits are the number.
LEMMA NumberImplied == NumberInv => NumbersWhole
<1> SUFFICES ASSUME NumberInv, NEW t \in Thread, out[t].num >= 0, out[t].pc = "done", ~out[t].shared
             PROVE  ValueOf(out[t].shown) = out[t].num /\ (out[t].shown[1] = "0" => Len(out[t].shown) = 1)
  BY DEF NumbersWhole
<1>1. out[t].num \in Numbers
  BY DEF NumberInv
<1>2. InNumber(out[t], put_int_buffer)
  BY DEF NumberInv
<1>3. ShowsZero(out[t]) \/ \E l \in 1..Digits : ShowsDigits(out[t], Left(out[t].num), l)
  BY <1>2 DEF InNumber
<1>4. CASE ShowsZero(out[t])
  <2>1. out[t].num = 0 /\ out[t].shown = <<"0">>
    BY <1>4 DEF ShowsZero
  <2> QED BY <2>1, ZeroIsNumber, Zenon
<1>5. ASSUME NEW l \in 1..Digits, ShowsDigits(out[t], Left(out[t].num), l)
      PROVE  ValueOf(out[t].shown) = out[t].num /\ (out[t].shown[1] = "0" => Len(out[t].shown) = 1)
  BY <1>1, <1>5, DigitsAreNumber, Zenon DEF ShowsDigits
<1> QED BY <1>3, <1>4, <1>5

\* Digits that are shown do not depend on the buffer any more.
LEMMA DoneAnyBuffer ==
    ASSUME NEW o, o.pc = "done", NEW a, NEW b, InNumber(o, a)
    PROVE  InNumber(o, b)
BY Zenon DEF InNumber

\* A thread makes a step in put_int or outside of it, or leaves it.
LEMMA NumberFrame ==
    ASSUME NumberInv, NEW t \in Thread, \A u \in Thread \ {t} : out'[u] = out[u],
           out'[t].num = out[t].num, out'[t].shared = out[t].shared,
           out'[t].pc \in IntLabels => InPutInt(t)',
           InPutInt(t)' => InPutInt(t) /\ out'[t].pc \in IntLabels \cup Printing,
           put_int_buffer' = put_int_buffer \/ InPutInt(t),
           out[t].num >= 0 /\ ~out[t].shared => InNumber(out'[t], put_int_buffer')
    PROVE  NumberInv'
<1>1. \A u \in Thread : InPutInt(u)' => InPutInt(u)
  BY DEF InPutInt
<1>2. \A u \in Thread : out'[u].num \in Numbers \cup {-1} /\ out'[u].shared \in BOOLEAN
  <2>1. \A u \in Thread : out'[u].num = out[u].num /\ out'[u].shared = out[u].shared
    BY Zenon
  <2> QED BY <2>1, Zenon DEF NumberInv
<1>3. \A u \in Thread : out'[u].pc \in IntLabels => InPutInt(u)'
  BY Zenon DEF NumberInv, InPutInt
<1>4. \A u \in Thread : InPutInt(u)' => out'[u].pc \in IntLabels \cup Printing
  BY Zenon DEF NumberInv, InPutInt
<1>5. ASSUME NEW u \in Thread, out'[u].num >= 0, ~out'[u].shared
      PROVE  InNumber(out'[u], put_int_buffer') /\ (InPutInt(u)' => \A w \in Thread : InPutInt(w)' => w = u)
  <2>1. out[u].num >= 0 /\ ~out[u].shared
    BY <1>5, Zenon
  <2>2. InNumber(out[u], put_int_buffer) /\ (InPutInt(u) => \A w \in Thread : InPutInt(w) => w = u)
    BY <2>1, Zenon DEF NumberInv
  <2>3. InNumber(out'[u], put_int_buffer')
    <3>1. CASE u = t
      BY <2>1, <3>1, Zenon
    <3>2. CASE u # t /\ put_int_buffer' = put_int_buffer
      BY <2>2, <3>2, Zenon
    <3>3. CASE u # t /\ InPutInt(t)
      <4>1. ~InPutInt(u)
        BY <2>2, <3>3, Zenon
      <4>2. out[u].pc = "done"
        BY <2>1, <4>1, Zenon DEF InPutInt
      <4> QED BY <2>2, <3>3, <4>2, DoneAnyBuffer, Zenon
    <3> QED BY <3>1, <3>2, <3>3, Zenon
  <2> QED BY <1>1, <2>2, <2>3, Zenon
<1> QED BY <1>2, <1>3, <1>4, <1>5, Zenon DEF NumberInv

\* A thread does something else than print a number.
LEMMA NumberElse ==
    ASSUME NumberInv, NEW t \in Thread, \A u \in Thread \ {t} : out'[u] = out[u],
           out'[t].num = -1, out'[t].shared \in BOOLEAN, out'[t].pc \notin IntLabels,
           put_int_buffer' = put_int_buffer
    PROVE  NumberInv'
<1>1. ~InPutInt(t)' /\ ~(out'[t].num >= 0)
  BY DEF InPutInt
<1>2. \A u \in Thread \ {t} : InPutInt(u)' = InPutInt(u)
  BY Zenon DEF InPutInt
<1>3. \A u \in Thread : InPutInt(u)' => InPutInt(u)
  BY <1>1, <1>2, Zenon
<1>4. \A u \in Thread : out'[u].num \in Numbers \cup {-1} /\ out'[u].shared \in BOOLEAN
  <2>1. \A u \in Thread \ {t} : out'[u].num \in Numbers \cup {-1} /\ out'[u].shared \in BOOLEAN
    BY Zenon DEF NumberInv
  <2>2. out'[t].num \in Numbers \cup {-1}
    BY Zenon
  <2> QED BY <2>1, <2>2, Zenon
<1>5. \A u \in Thread : out'[u].pc \in IntLabels => InPutInt(u)'
  BY <1>2, Zenon DEF NumberInv
<1>6. \A u \in Thread : InPutInt(u)' => out'[u].pc \in IntLabels \cup Printing
  BY <1>1, <1>2, Zenon DEF NumberInv
<1>7. ASSUME NEW u \in Thread, out'[u].num >= 0, ~out'[u].shared
      PROVE  InNumber(out'[u], put_int_buffer') /\ (InPutInt(u)' => \A w \in Thread : InPutInt(w)' => w = u)
  <2>1. u # t /\ out[u].num >= 0 /\ ~out[u].shared
    BY <1>1, <1>7, Zenon
  <2>2. InNumber(out[u], put_int_buffer) /\ (InPutInt(u) => \A w \in Thread : InPutInt(w) => w = u)
    BY <2>1, Zenon DEF NumberInv
  <2> QED BY <1>3, <2>1, <2>2, Zenon
<1> QED BY <1>4, <1>5, <1>6, <1>7, Zenon DEF NumberInv

\* Within a character nothing of the number changes.
LEMMA NumberTurn ==
    ASSUME NumberInv, Kinds, NEW t \in Thread, NEW b, NEW n, Turn(t, b, n),
           out[t].pc \in Printing \cup {"clear"}, b \in Printing, put_int_buffer' = put_int_buffer
    PROVE  NumberInv'
<1> DEFINE o == out[t]
           d == out'[t]
<1>1. /\ d.pc = b /\ d.text = o.text /\ d.edi = o.edi /\ d.num = o.num /\ d.shown = o.shown /\ d.shared = o.shared
      /\ \A u \in Thread \ {t} : out'[u] = out[u]
  BY Zenon DEF Turn, Goes
<1>2. d.pc \notin IntLabels /\ d.pc \in Printing /\ d.pc # "done" /\ o.pc # "done" /\ o.pc \notin {"fill", "skip", "load"}
  BY <1>1 DEF IntLabels, Printing, ToDraw, ToPlace
<1>3. InPutInt(t)' => InPutInt(t)
  BY <1>1, <1>2, Zenon DEF InPutInt
<1>4. ASSUME o.num >= 0, ~o.shared
      PROVE  InNumber(d, put_int_buffer')
  <2>1. InPutInt(t)
    BY <1>2, <1>4, Zenon DEF InPutInt
  <2>2. o.pc \in Printing
    BY <1>2, <2>1, Zenon DEF NumberInv, IntLabels
  <2>3. InNumber(o, put_int_buffer)
    BY <1>4, Zenon DEF NumberInv
  <2>6. d.pc \notin {"fill", "skip", "load", "done"}
    BY <1>2 DEF IntLabels
  <2>7. ShowsZero(o) => ShowsZero(d)
    <3> HIDE DEF o, d
    <3> QED BY <1>1, <1>2, <2>2, <2>6 DEF ShowsZero
  <2>8. ASSUME NEW q, NEW l PROVE ShowsDigits(o, q, l) => ShowsDigits(d, q, l)
    <3> HIDE DEF o, d
    <3> QED BY <1>1, <1>2, <2>2, <2>6, Zenon DEF ShowsDigits
  <2>9. Filled(put_int_buffer, Left(o.num), 0)
        /\ (ShowsZero(o) \/ \E l \in 1..Digits : ShowsDigits(o, Left(o.num), l))
    <3> HIDE DEF o, d
    <3> QED BY <1>2, <2>2, <2>3, Zenon DEF InNumber
  <2> HIDE DEF o, d
  <2>10. ShowsZero(d) \/ \E l \in 1..Digits : ShowsDigits(d, Left(d.num), l)
    BY <1>1, <2>7, <2>8, <2>9, Zenon
  <2>11. Filled(put_int_buffer', Left(d.num), 0)
    BY <1>1, <2>9, Zenon
  <2> QED BY <2>6, <2>10, <2>11, Zenon DEF InNumber
<1>5. InPutInt(t)' => d.pc \in IntLabels \cup Printing
  BY <1>2, Zenon
<1> QED BY <1>1, <1>2, <1>3, <1>4, <1>5, NumberFrame, Zenon

\* One more digit is shown.
LEMMA SpelledMore ==
    ASSUME NEW s, NEW q, NEW l \in Nat, NEW c, Spelled(s, q, l), Len(s) < l,
           c = Glyph(q[l - (Len(s) + 1)]), c \in Glyphs
    PROVE  Spelled(Append(s, c), q, l) /\ Len(Append(s, c)) = Len(s) + 1
<1>1. s \in Seq(Glyphs) /\ \A i \in 1..Len(s) : s[i] = Glyph(q[l - i])
  BY DEF Spelled
<1>2. PICK z : z = Append(s, c)
  OBVIOUS
<1>3. /\ z \in Seq(Glyphs) /\ Len(z) = Len(s) + 1 /\ z[Len(s) + 1] = c
      /\ \A i \in 1..Len(s) : z[i] = s[i]
  BY <1>1, <1>2
<1>4. Len(s) \in Nat
  BY <1>1
<1>5. ASSUME NEW i \in 1..Len(z) PROVE z[i] = Glyph(q[l - i])
  <2>1. CASE i = Len(s) + 1
    BY <1>3, <2>1
  <2>2. CASE i # Len(s) + 1
    <3>1. i \in 1..Len(s)
      BY <1>3, <1>4, <2>2
    <3> QED BY <1>1, <1>3, <3>1
  <2> QED BY <2>1, <2>2
<1>6. Len(z) <= l
  BY <1>3, <1>4
<1> QED BY <1>2, <1>3, <1>5, <1>6, Zenon DEF Spelled

\* put_char ends: the digit it had is shown.
LEMMA ShownMore ==
    ASSUME NEW o, NEW d, NEW q, NEW l \in 1..Digits, \A i \in 0..Digits : q[i] \in Nat,
           ShowsDigits(o, q, l), o.pc \in Printing,
           d.pc = "load", d.edi = o.edi, d.shown = Append(o.shown, Head(o.text))
    PROVE  ShowsDigits(d, q, l)
<1>1. /\ q[l] = 0 /\ q[l - 1] # 0 /\ Spelled(o.shown, q, l)
      /\ o.edi = Digits - l + Len(o.shown) + 1 /\ o.edi <= Digits
      /\ o.text = <<Glyph(q[Digits - o.edi])>>
  BY Zenon DEF ShowsDigits
<1>2. PICK k \in Nat : k = Len(o.shown) /\ k <= l
  BY <1>1 DEF Spelled
<1>3. l \in Nat /\ l >= 1 /\ l <= Digits /\ Digits \in Nat
  BY Bases
<1>4. k < l /\ Digits - o.edi = l - (k + 1) /\ Digits - o.edi \in 0..Digits
  BY <1>1, <1>2, <1>3
<1>5. PICK c : c = Glyph(q[l - (k + 1)]) /\ o.text = <<c>>
  BY <1>1, <1>4, Zenon
<1>6. c \in Glyphs
  <2>1. q[l - (k + 1)] \in Nat
    BY <1>4
  <2> QED BY <1>5, <2>1, GlyphIs, Zenon
<1>7. Head(o.text) = c
  <2>1. ASSUME NEW x PROVE Head(<<x>>) = x
    OBVIOUS
  <2> QED BY <1>5, <2>1, Zenon
<1>8. Spelled(d.shown, q, l) /\ Len(d.shown) = k + 1
  <2>1. Spelled(o.shown, q, l) /\ Len(o.shown) < l /\ c = Glyph(q[l - (Len(o.shown) + 1)]) /\ l \in Nat
    <3>1. Len(o.shown) < l
      BY <1>2, <1>4
    <3> QED BY <1>1, <1>2, <1>3, <1>5, <3>1, Zenon
  <2>2. Spelled(Append(o.shown, c), q, l) /\ Len(Append(o.shown, c)) = Len(o.shown) + 1
    <3>1. PICK s : s = o.shown
      OBVIOUS
    <3>2. Spelled(s, q, l) /\ Len(s) < l /\ c = Glyph(q[l - (Len(s) + 1)]) /\ l \in Nat
      BY <2>1, <3>1, Zenon
    <3>3. Spelled(Append(s, c), q, l) /\ Len(Append(s, c)) = Len(s) + 1
      BY <1>6, <3>2, SpelledMore
    <3> QED BY <3>1, <3>3, Zenon
  <2>3. d.shown = Append(o.shown, c)
    BY <1>7, Zenon
  <2>4. Len(d.shown) = k + 1
    BY <1>2, <2>2, <2>3, Zenon
  <2> QED BY <2>2, <2>3, <2>4, Zenon
<1>9. d.edi = Digits - l + Len(d.shown)
  <2>1. o.edi = Digits - l + (k + 1)
    BY <1>1, <1>2, <1>3
  <2> QED BY <1>8, <2>1, Zenon
<1>10. d.pc \notin Printing /\ d.pc # "done"
  BY DEF Printing, ToDraw, ToPlace
<1> QED BY <1>1, <1>8, <1>9, <1>10, Zenon DEF ShowsDigits

LEMMA ShownZero ==
    ASSUME NEW o, NEW d, ShowsZero(o), o.pc \in Printing, d.num = o.num,
           d.pc = "load", d.edi = o.edi, d.shown = Append(o.shown, Head(o.text))
    PROVE  ShowsZero(d)
<1>1. o.num = 0 /\ o.edi = Digits + 1 /\ o.text = <<"0">> /\ o.shown = <<>>
  BY Zenon DEF ShowsZero
<1>2. d.shown = <<"0">>
  <2>1. ASSUME NEW x PROVE Append(<<>>, Head(<<x>>)) = <<x>>
    OBVIOUS
  <2> QED BY <1>1, <2>1, Zenon
<1>3. d.pc \notin Printing
  BY DEF Printing, ToDraw, ToPlace
<1> QED BY <1>1, <1>2, <1>3, Zenon DEF ShowsZero

\* The end of a character, of a number or of a text.
LEMMA NumberEnd ==
    ASSUME NumberInv, Kinds, NEW t \in Thread, EndChar(t), put_int_buffer' = put_int_buffer
    PROVE  NumberInv'
<1> DEFINE o == out[t]
           d == out'[t]
<1>1. o.pc = "out lo"
  BY DEF EndChar, At
<1>2. PICK b, r, s : /\ b = (IF InPutInt(t) THEN "load" ELSE EachChar(Tail(o.text)))
                     /\ s = (IF InPutInt(t) THEN Append(o.shown, Head(o.text)) ELSE o.shown)
                     /\ out' = [out EXCEPT ![t].pc = b, ![t].text = r, ![t].bx = 0, ![t].shown = s]
  BY Zenon DEF EndChar
<1>3. DOMAIN out = Thread /\ IsOut(o)
  BY DEF Kinds
<1>4. /\ \A u \in Thread \ {t} : out'[u] = out[u]
      /\ d.pc = b /\ d.edi = o.edi /\ d.num = o.num /\ d.shown = s /\ d.shared = o.shared
  BY <1>2, <1>3 DEF IsOut, Fields
<1>5. o.pc \in Printing /\ o.pc # "done"
  BY <1>1 DEF Printing, ToPlace
<1>6. InPutInt(t) <=> o.num >= 0
  BY <1>5 DEF InPutInt
<1>7. CASE o.num >= 0
  <2>1. d.pc = "load" /\ d.shown = Append(o.shown, Head(o.text))
    BY <1>2, <1>4, <1>6, <1>7, Zenon
  <2>2. ASSUME ~o.shared PROVE InNumber(d, put_int_buffer')
    <3>1. InNumber(o, put_int_buffer) /\ o.num \in Numbers
      <4>1. o.num \in Numbers
        BY <1>7 DEF NumberInv
      <4> QED BY <1>7, <2>2, <4>1, Zenon DEF NumberInv
    <3>2. o.pc \notin {"fill", "done"}
      BY <1>1
    <3>3. /\ Filled(put_int_buffer, Left(o.num), 0)
          /\ ShowsZero(o) \/ \E l \in 1..Digits : ShowsDigits(o, Left(o.num), l)
      <4> HIDE DEF o, d
      <4> QED BY <1>5, <3>1, <3>2, Zenon DEF InNumber
    <3>4. \A i \in 0..Digits : Left(o.num)[i] \in Nat
      BY <3>1, LeftIs, Zenon
    <3> HIDE DEF o, d
    <3>5. ShowsZero(d) \/ \E l \in 1..Digits : ShowsDigits(d, Left(d.num), l)
      BY <1>4, <1>5, <2>1, <3>3, <3>4, ShownZero, ShownMore, Zenon
    <3>6. d.pc \notin {"fill", "skip"}
      BY <2>1
    <3> QED BY <1>4, <3>3, <3>5, <3>6, Zenon DEF InNumber
  <2>3. d.pc \in IntLabels
    BY <2>1 DEF IntLabels
  <2>4. InPutInt(t)' /\ InPutInt(t)
    <3>1. d.pc # "done" /\ d.num >= 0
      BY <1>4, <1>7, <2>1
    <3> QED BY <1>6, <1>7, <3>1, Zenon DEF InPutInt
  <2> QED BY <1>4, <2>2, <2>3, <2>4, NumberFrame, Zenon
<1>8. CASE ~(o.num >= 0)
  <2>1. d.pc \in {"done", "select hi"}
    BY <1>2, <1>4, <1>6, <1>8 DEF EachChar
  <2>2. d.pc \notin IntLabels
    BY <2>1 DEF IntLabels
  <2>3. ~InPutInt(t)'
    BY <1>4, <1>8, Zenon DEF InPutInt
  <2> QED BY <1>4, <1>8, <2>2, <2>3, NumberFrame, Zenon
<1> QED BY <1>7, <1>8

\* All of put_char.
LEMMA NumberPutChar ==
    ASSUME NumberInv, Kinds, NEW t \in Thread, put_char(t)
    PROVE  NumberInv'
<1>1. put_int_buffer' = put_int_buffer
  BY DEF put_char
<1>2. ASSUME NEW a, NEW b, NEW n, out[t].pc = a, Turn(t, b, n), a \in Printing \cup {"clear"}, b \in Printing
      PROVE  NumberInv'
  BY <1>1, <1>2, NumberTurn, Zenon
<1>3. ASSUME NEW a \in Printing, NEW b \in Printing, NEW x, Select(t, a, b, x) \/ ReadByte(t, a, b, x) \/ WriteByte(t, a, b, x)
      PROVE  NumberInv'
  <2>1. out[t].pc = a /\ \E n : Turn(t, b, n)
    BY <1>3, TurnSelect, TurnRead, TurnWrite, Zenon
  <2> QED BY <1>2, <2>1, Zenon
<1>4. CASE Draw(t) \/ Roll(t) \/ ClearCells(t)
  <2>1. \E n, b : out[t].pc \in {"draw", "roll", "clear"} /\ Turn(t, b, n) /\ b \in {"set hi", "roll"}
    BY <1>4, TurnDraw, TurnRoll, Zenon
  <2>2. {"draw", "roll", "clear"} \subseteq Printing \cup {"clear"} /\ {"set hi", "roll"} \subseteq Printing
    BY DEF Printing, ToDraw, ToPlace
  <2> QED BY <1>2, <2>1, <2>2, Zenon
<1>5. CASE EndChar(t)
  BY <1>1, <1>5, NumberEnd
<1>6. /\ {"select hi", "in hi", "select lo", "in lo", "draw"} \subseteq Printing
      /\ {"set hi", "out hi", "set lo", "out lo"} \subseteq Printing
  BY DEF Printing, ToDraw, ToPlace
<1> QED BY <1>3, <1>4, <1>5, <1>6, Zenon DEF put_char

LEMMA LabelsApart ==
    /\ "fill" \notin Printing /\ "skip" \notin Printing /\ "load" \notin Printing /\ "done" \notin Printing
    /\ "select hi" \in Printing
    /\ "fill" \in IntLabels /\ "skip" \in IntLabels /\ "load" \in IntLabels
BY DEF Printing, ToDraw, ToPlace, IntLabels

\* A digit goes into the buffer: what is left is one division further.
LEMMA FillStep ==
    ASSUME NEW o, NEW d, NEW b, NEW c, o.num \in Numbers, InNumber(o, b), o.pc = "fill",
           o.edi \in 1..Digits, DOMAIN b = 1..Digits,
           c = [b EXCEPT ![o.edi] = HexDigits[(o.eax % Base) + 1]],
           d.num = o.num, d.edi = o.edi - 1, d.eax = o.eax \div Base, d.shown = o.shown,
           d.pc = IF o.edi = 1 THEN "skip" ELSE "fill"
    PROVE  InNumber(d, c)
<1>1. PICK q : q = Left(o.num)
  OBVIOUS
<1>2. /\ q[Digits] = 0 /\ \A i \in 0..Digits : q[i] \in Nat
      /\ \A i \in 1..Digits : q[i] = q[i - 1] \div Base
  BY <1>1, LeftIs, Zenon
<1>3. o.eax = q[Digits - o.edi] /\ Filled(b, q, o.edi) /\ o.shown = <<>>
  BY <1>1, Zenon DEF InNumber
<1>4. PICK e \in 1..Digits : e = o.edi
  OBVIOUS
<1>5. c[e] = Glyph(q[Digits - e]) /\ \A p \in 1..Digits : p # e => c[p] = b[p]
  BY <1>3, <1>4 DEF Glyph
<1>6. Filled(c, q, e - 1)
  <2>1. ASSUME NEW p \in (e - 1 + 1)..Digits PROVE c[p] = Glyph(q[Digits - p])
    <3>1. CASE p = e
      BY <1>5, <3>1
    <3>2. CASE p # e
      <4>1. p \in (e + 1)..Digits /\ p \in 1..Digits
        BY <3>2, Bases
      <4> QED BY <1>3, <1>4, <1>5, <3>2, <4>1 DEF Filled
    <3> QED BY <3>1, <3>2
  <2> QED BY <2>1 DEF Filled
<1>7. d.eax = q[Digits - (e - 1)]
  <2>1. Digits - (e - 1) \in 1..Digits /\ (Digits - (e - 1)) - 1 = Digits - e
    BY <1>4, Bases
  <2> QED BY <1>2, <1>3, <1>4, <2>1
<1>8. CASE e = 1
  <2>1. d.pc = "skip" /\ d.edi = 0 /\ d.shown = <<>>
    BY <1>3, <1>4, <1>8
  <2>2. Filled(c, q, 0) /\ q[Digits - 0] = 0 /\ ~(0 > 0)
    BY <1>2, <1>6, <1>8, Bases
  <2>3. d.pc \notin Printing \cup {"load", "done"} /\ d.pc # "fill"
    BY <2>1, LabelsApart
  <2> QED BY <1>1, <2>1, <2>2, <2>3, Zenon DEF InNumber
<1>9. CASE e # 1
  <2>1. d.pc = "fill" /\ d.edi = e - 1 /\ d.shown = <<>>
    BY <1>3, <1>4, <1>9
  <2>2. d.pc \notin Printing \cup {"load", "done"} /\ d.pc # "skip"
    BY <2>1, LabelsApart
  <2>3. d.pc \in {"fill", "done"}
    BY <2>1
  <2> QED BY <1>1, <1>6, <1>7, <2>1, <2>2, <2>3, Zenon DEF InNumber
<1> QED BY <1>8, <1>9

\* What Skip and Load do to a number in print.
Skips(o, d, b, edi, dl) ==
    /\ edi = o.edi + 1 /\ d.num = o.num /\ d.edi = edi /\ d.text = <<dl>> /\ d.shown = o.shown
    /\ dl = (IF edi > Digits THEN Head(o.text) ELSE b[edi])
    /\ d.pc = (IF ~(edi > Digits) /\ dl = "0" THEN "skip" ELSE "select hi")
Loads(o, d, b) ==
    /\ d.num = o.num /\ d.shown = o.shown
    /\ o.edi + 1 > Digits => d.pc = "done"
    /\ ~(o.edi + 1 > Digits) => d.pc = "select hi" /\ d.edi = o.edi + 1 /\ d.text = <<b[o.edi + 1]>>

\* A zero is skipped, or the first digit that is none is taken, or there is none.
LEMMA SkipStep ==
    ASSUME NEW o, NEW d, NEW b, NEW edi, NEW dl, o.num \in Numbers, InNumber(o, b), o.pc = "skip",
           o.edi \in 0..Digits, Skips(o, d, b, edi, dl)
    PROVE  InNumber(d, b)
<1>0. edi = o.edi + 1 /\ d.num = o.num /\ d.edi = edi /\ d.text = <<dl>> /\ d.shown = o.shown
  BY Zenon DEF Skips
<1>10. /\ edi > Digits => dl = Head(o.text) /\ d.pc = "select hi"
       /\ ~(edi > Digits) => dl = b[edi]
       /\ ~(edi > Digits) /\ dl = "0" => d.pc = "skip"
       /\ dl # "0" => d.pc = "select hi"
  BY Zenon DEF Skips
<1>11. edi = o.edi + 1
  BY <1>0, Zenon
<1>1. PICK q : q = Left(o.num)
  OBVIOUS
<1>2. /\ q[0] = o.num /\ \A i \in 0..Digits : q[i] \in Nat
      /\ \A i \in 1..Digits : q[i] = q[i - 1] \div Base
  BY <1>1, LeftIs, Zenon
<1>3. o.pc \notin {"fill", "done"}
  OBVIOUS
<1>4. /\ Filled(b, q, 0) /\ q[Digits - o.edi] = 0 /\ o.shown = <<>>
      /\ o.edi > 0 => o.text = <<"0">>
  BY <1>1, <1>3, Zenon DEF InNumber
<1>5. edi \in 1..(Digits + 1) /\ Digits \in Nat \ {0}
  BY <1>11, Bases
<1>6. CASE edi > Digits
  <2>1. edi = Digits + 1 /\ Digits - o.edi = 0 /\ o.edi > 0
    BY <1>5, <1>6, <1>11
  <2>2. o.num = 0 /\ o.text = <<"0">>
    BY <1>2, <1>4, <2>1, Zenon
  <2>3. dl = "0"
    <3>1. ASSUME NEW x PROVE Head(<<x>>) = x
      OBVIOUS
    <3> QED BY <1>6, <1>10, <2>2, <3>1, Zenon
  <2>4. d.pc = "select hi"
    BY <1>6, <1>10, Zenon
  <2>5. d.pc \notin {"load", "done"} /\ d.pc # "fill" /\ d.pc # "skip"
    BY <2>4
  <2>6. ShowsZero(d)
    BY <1>0, <1>4, <2>1, <2>2, <2>3, <2>5, Zenon DEF ShowsZero
  <2> QED BY <1>0, <1>1, <1>4, <2>5, <2>6, Zenon DEF InNumber
<1>7. CASE ~(edi > Digits)
  <2>1. edi \in 1..Digits /\ edi \in (0 + 1)..Digits /\ Digits - edi \in 0..Digits /\ Digits - o.edi \in 1..Digits
        /\ (Digits - o.edi) - 1 = Digits - edi
    BY <1>5, <1>7, <1>11
  <2>2. PICK a \in Nat : a = q[Digits - edi]
    BY <1>2, <2>1
  <2>3. a \div Base = 0
    BY <1>2, <1>4, <2>1, <2>2
  <2>4. dl = Glyph(a)
    BY <1>4, <1>7, <1>10, <2>1, <2>2, Zenon DEF Filled
  <2>5. dl = "0" <=> a = 0
    BY <2>3, <2>4, NoDigit, GlyphIs
  <2>6. CASE dl = "0"
    <3>1. d.pc = "skip" /\ q[Digits - d.edi] = 0 /\ d.text = <<"0">> /\ d.shown = <<>>
      BY <1>0, <1>4, <1>7, <1>10, <2>2, <2>5, <2>6, Zenon
    <3>2. d.pc \notin Printing \cup {"load", "done"} /\ d.pc # "fill"
      BY <3>1, LabelsApart
    <3> QED BY <1>0, <1>1, <1>4, <3>1, <3>2, Zenon DEF InNumber
  <2>7. CASE dl # "0"
    <3>1. d.pc = "select hi" /\ d.shown = <<>> /\ d.text = <<Glyph(q[Digits - d.edi])>>
      BY <1>0, <1>4, <1>10, <2>2, <2>4, <2>7, Zenon
    <3>2. d.pc \notin {"load", "done"} /\ d.pc # "fill" /\ d.pc # "skip"
      BY <3>1
    <3>3. PICK l : l = Digits - o.edi
      OBVIOUS
    <3>4. l \in 1..Digits /\ l - 1 = Digits - edi /\ edi = Digits - l + 0 + 1 /\ edi <= Digits /\ 0 <= l
      BY <1>5, <1>7, <1>11, <3>3
    <3>5. q[l] = 0 /\ q[l - 1] # 0
      BY <1>4, <2>2, <2>5, <2>7, <3>3, <3>4, Zenon
    <3>6. Len(<<>>) = 0 /\ <<>> \in Seq(Glyphs) /\ 1..0 = {}
      OBVIOUS
    <3>7. Spelled(d.shown, q, l)
      BY <3>1, <3>4, <3>6, Zenon DEF Spelled
    <3>8. ShowsDigits(d, q, l)
      BY <1>0, <3>1, <3>2, <3>4, <3>5, <3>6, <3>7, Zenon DEF ShowsDigits
    <3> QED BY <1>0, <1>1, <1>4, <3>2, <3>4, <3>8, Zenon DEF InNumber
  <2> QED BY <2>6, <2>7
<1> QED BY <1>6, <1>7

\* The next digit is taken, or all have been shown.
LEMMA LoadStep ==
    ASSUME NEW o, NEW d, NEW b, o.num \in Numbers, InNumber(o, b), o.pc = "load",
           o.edi \in 0..(Digits + 1), Loads(o, d, b)
    PROVE  InNumber(d, b)
<1>0. /\ d.num = o.num /\ d.shown = o.shown
      /\ o.edi + 1 > Digits => d.pc = "done"
      /\ ~(o.edi + 1 > Digits) => d.pc = "select hi" /\ d.edi = o.edi + 1 /\ d.text = <<b[o.edi + 1]>>
  BY Zenon DEF Loads
<1>1. PICK q : q = Left(o.num)
  OBVIOUS
<1>2. o.pc \notin {"fill", "done"} /\ o.pc \in Printing \cup {"load", "done"} /\ o.pc \in {"load", "done"}
  OBVIOUS
<1>3. Filled(b, q, 0) /\ (ShowsZero(o) \/ \E l \in 1..Digits : ShowsDigits(o, q, l))
  BY <1>1, <1>2, Zenon DEF InNumber
<1>4. d.pc \in {"done", "select hi"}
  BY <1>0, Zenon
<1>5. d.pc # "fill" /\ d.pc # "skip" /\ d.pc # "load" /\ (d.pc = "done" => d.pc \notin Printing)
  BY <1>4, LabelsApart
<1>6. CASE ShowsZero(o)
  <2>1. o.num = 0 /\ o.edi = Digits + 1 /\ o.shown = <<"0">>
    BY <1>2, <1>6, Zenon DEF ShowsZero
  <2>2. o.edi + 1 > Digits
    BY <2>1, Bases
  <2>3. d.pc = "done"
    BY <1>0, <2>2, Zenon
  <2>4. ShowsZero(d)
    BY <1>0, <1>5, <2>1, <2>3, Zenon DEF ShowsZero
  <2> QED BY <1>0, <1>1, <1>3, <1>5, <2>4, Zenon DEF InNumber
<1>7. ASSUME NEW l \in 1..Digits, ShowsDigits(o, q, l)
      PROVE  InNumber(d, b)
  <2>1. q[l] = 0 /\ q[l - 1] # 0 /\ Spelled(o.shown, q, l) /\ o.edi = Digits - l + Len(o.shown)
    BY <1>7, Zenon DEF ShowsDigits
  <2>2. PICK k \in Nat : k = Len(o.shown) /\ k <= l
    BY <2>1 DEF Spelled
  <2>3. CASE o.edi + 1 > Digits
    <3>1. d.pc = "done"
      BY <1>0, <2>3, Zenon
    <3>2. k = l
      BY <2>1, <2>2, <2>3, Bases
    <3>3. ShowsDigits(d, q, l)
      BY <1>0, <1>5, <2>1, <2>2, <3>1, <3>2, Zenon DEF ShowsDigits
    <3> QED BY <1>0, <1>1, <1>3, <1>5, <3>3, Zenon DEF InNumber
  <2>4. CASE ~(o.edi + 1 > Digits)
    <3>1. d.pc = "select hi" /\ d.edi = o.edi + 1 /\ d.text = <<b[o.edi + 1]>>
      BY <1>0, <2>4, Zenon
    <3>2. o.edi + 1 \in (0 + 1)..Digits /\ o.edi + 1 = Digits - l + k + 1 /\ o.edi + 1 <= Digits
      BY <2>1, <2>2, <2>4, Bases
    <3>3. b[o.edi + 1] = Glyph(q[Digits - (o.edi + 1)])
      BY <1>3, <3>2, Zenon DEF Filled
    <3>4. d.pc # "done"
      BY <3>1
    <3>5. ShowsDigits(d, q, l)
      BY <1>0, <1>5, <2>1, <2>2, <3>1, <3>2, <3>3, <3>4, Zenon DEF ShowsDigits
    <3> QED BY <1>0, <1>1, <1>3, <1>5, <3>4, <3>5, Zenon DEF InNumber
  <2> QED BY <2>3, <2>4
<1> QED BY <1>3, <1>6, <1>7

\* The same as steps of a thread.
LEMMA NumberFill ==
    ASSUME NumberInv, Kinds, NEW t \in Thread, Fill(t)
    PROVE  NumberInv'
<1> DEFINE o == out[t]
           d == out'[t]
<1>1. o.pc = "fill" /\ InPutInt(t)
  BY Zenon DEF Fill, At, NumberInv, IntLabels
<1>2. PICK e, a, b : /\ e = o.edi - 1 /\ a = o.eax \div Base /\ b = (IF o.edi = 1 THEN "skip" ELSE "fill")
                     /\ out' = [out EXCEPT ![t].edi = e, ![t].eax = a, ![t].pc = b]
                     /\ put_int_buffer' = [put_int_buffer EXCEPT ![o.edi] = HexDigits[(o.eax % Base) + 1]]
  BY <1>1, Zenon DEF Fill
<1>3. DOMAIN out = Thread /\ IsOut(o) /\ put_int_buffer \in [1..Digits -> Glyphs]
  BY DEF Kinds
<1>4. /\ \A u \in Thread \ {t} : out'[u] = out[u]
      /\ d.pc = b /\ d.edi = e /\ d.eax = a /\ d.num = o.num /\ d.shown = o.shown /\ d.shared = o.shared
  BY <1>2, <1>3 DEF IsOut, Fields
<1>5. o.edi \in 1..Digits /\ DOMAIN put_int_buffer = 1..Digits
  BY <1>1, <1>3 DEF IsOut
<1>6. ASSUME o.num >= 0, ~o.shared PROVE InNumber(d, put_int_buffer')
  <2>1. InNumber(o, put_int_buffer)
    BY <1>6, Zenon DEF NumberInv
  <2>2. o.num \in Numbers
    BY <1>6 DEF NumberInv
  <2>3. d.num = o.num /\ d.shown = o.shown /\ d.edi = o.edi - 1 /\ d.eax = o.eax \div Base
        /\ d.pc = (IF o.edi = 1 THEN "skip" ELSE "fill")
        /\ put_int_buffer' = [put_int_buffer EXCEPT ![o.edi] = HexDigits[(o.eax % Base) + 1]]
    BY <1>2, <1>4, Zenon
  <2> HIDE DEF o, d
  <2> QED BY <1>1, <1>5, <2>1, <2>2, <2>3, FillStep, Zenon
<1>7. d.pc \in IntLabels
  BY <1>2, <1>4 DEF IntLabels
<1>8. InPutInt(t)'
  <2>1. d.pc # "done"
    BY <1>2, <1>4
  <2> QED BY <1>1, <1>4, <2>1, Zenon DEF InPutInt
<1> QED BY <1>1, <1>4, <1>6, <1>7, <1>8, NumberFrame, Zenon

LEMMA NumberSkip ==
    ASSUME NumberInv, Kinds, NEW t \in Thread, Skip(t)
    PROVE  NumberInv'
<1> DEFINE o == out[t]
           d == out'[t]
<1>1. o.pc = "skip" /\ InPutInt(t) /\ put_int_buffer' = put_int_buffer
  BY Zenon DEF Skip, At, NumberInv, IntLabels
<1>2. PICK e, dl, b : /\ e = o.edi + 1 /\ dl = (IF e > Digits THEN Head(o.text) ELSE put_int_buffer[e])
                      /\ b = (IF ~(e > Digits) /\ dl = "0" THEN "skip" ELSE "select hi")
                      /\ out' = [out EXCEPT ![t].edi = e, ![t].text = <<dl>>, ![t].pc = b]
  BY Zenon DEF Skip
<1>3. DOMAIN out = Thread /\ IsOut(o)
  BY DEF Kinds
<1>4. PICK x : x = <<dl>> /\ out' = [out EXCEPT ![t].edi = e, ![t].text = x, ![t].pc = b]
  BY <1>2, Zenon
<1>5. /\ \A u \in Thread \ {t} : out'[u] = out[u]
      /\ d.pc = b /\ d.edi = e /\ d.text = x /\ d.num = o.num /\ d.shown = o.shown /\ d.shared = o.shared
  BY <1>3, <1>4 DEF IsOut, Fields
<1>6. o.edi \in 0..Digits
  BY <1>1, <1>3, Bases DEF IsOut
<1>7. ASSUME o.num >= 0, ~o.shared PROVE InNumber(d, put_int_buffer')
  <2>1. InNumber(o, put_int_buffer)
    BY <1>7, Zenon DEF NumberInv
  <2>2. o.num \in Numbers
    BY <1>7 DEF NumberInv
  <2>3. Skips(o, d, put_int_buffer, e, dl)
    BY <1>2, <1>4, <1>5, Zenon DEF Skips
  <2> HIDE DEF o, d
  <2> QED BY <1>1, <1>6, <2>1, <2>2, <2>3, SkipStep, Zenon
<1>8. d.pc \in IntLabels \cup Printing /\ d.pc # "done"
  <2>1. d.pc = "skip" \/ d.pc = "select hi"
    BY <1>2, <1>5, Zenon
  <2>2. "skip" # "done" /\ "select hi" # "done"
    OBVIOUS
  <2> QED BY <2>1, <2>2, LabelsApart, Zenon
<1>9. InPutInt(t)'
  BY <1>1, <1>5, <1>8, Zenon DEF InPutInt
<1> QED BY <1>1, <1>5, <1>7, <1>8, <1>9, NumberFrame, Zenon

LEMMA NumberLoad ==
    ASSUME NumberInv, Kinds, NEW t \in Thread, Load(t)
    PROVE  NumberInv'
<1> DEFINE o == out[t]
           d == out'[t]
           e == o.edi + 1
<1>1. o.pc = "load" /\ InPutInt(t) /\ put_int_buffer' = put_int_buffer
  BY Zenon DEF Load, At, NumberInv, IntLabels
<1>2. \/ e > Digits /\ out' = [out EXCEPT ![t].pc = "done"]
      \/ /\ ~(e > Digits)
         /\ out' = [out EXCEPT ![t].edi = e, ![t].text = <<put_int_buffer[e]>>, ![t].pc = "select hi"]
  BY Zenon DEF Load
<1>3. DOMAIN out = Thread /\ IsOut(o) /\ o.edi \in 0..(Digits + 1)
  BY DEF Kinds, IsOut
<1>4. /\ \A u \in Thread \ {t} : out'[u] = out[u]
      /\ d.num = o.num /\ d.shared = o.shared /\ Loads(o, d, put_int_buffer)
      /\ d.pc \in {"done", "select hi"}
  <2>1. CASE e > Digits
    <3>1. out' = [out EXCEPT ![t].pc = "done"]
      BY <1>2, <2>1, Zenon
    <3>2. /\ \A u \in Thread \ {t} : out'[u] = out[u]
          /\ d.pc = "done" /\ d.num = o.num /\ d.shown = o.shown /\ d.shared = o.shared
      BY <1>3, <3>1 DEF IsOut, Fields
    <3> QED BY <2>1, <3>2, Zenon DEF Loads
  <2>2. CASE ~(e > Digits)
    <3>1. PICK x, y : x = <<put_int_buffer[e]>> /\ y = e
                      /\ out' = [out EXCEPT ![t].edi = y, ![t].text = x, ![t].pc = "select hi"]
      BY <1>2, <2>2, Zenon
    <3>2. /\ \A u \in Thread \ {t} : out'[u] = out[u]
          /\ d.pc = "select hi" /\ d.edi = y /\ d.text = x
          /\ d.num = o.num /\ d.shown = o.shown /\ d.shared = o.shared
      BY <1>3, <3>1 DEF IsOut, Fields
    <3> QED BY <2>2, <3>1, <3>2, Zenon DEF Loads
  <2> QED BY <2>1, <2>2
<1>5. ASSUME o.num >= 0, ~o.shared PROVE InNumber(d, put_int_buffer')
  <2>1. InNumber(o, put_int_buffer)
    BY <1>5, Zenon DEF NumberInv
  <2>2. o.num \in Numbers
    BY <1>5 DEF NumberInv
  <2> HIDE DEF o, d
  <2> QED BY <1>1, <1>3, <1>4, <2>1, <2>2, LoadStep, Zenon
<1>6. d.pc \notin IntLabels /\ (d.pc # "done" => d.pc \in Printing)
  BY <1>4, LabelsApart DEF IntLabels
<1>7. InPutInt(t)' => d.pc # "done"
  BY Zenon DEF InPutInt
<1> QED BY <1>1, <1>4, <1>5, <1>6, <1>7, NumberFrame, Zenon

\* A number begins: alone, or shared from the start.
LEMMA NumberBegins ==
    ASSUME NumberInv, Kinds, NEW t \in Thread, NEW n \in Numbers, put_int(t, n)
    PROVE  NumberInv'
<1> DEFINE d == out'[t]
<1>1. put_int_buffer' = put_int_buffer
  BY DEF put_int, Call, screenvars
<1>2. PICK s : /\ s = (\E v \in Thread : InPutInt(v))
               /\ out' = [u \in Thread |->
                    IF u = t THEN [Silent EXCEPT !.pc = "fill", !.edi = Digits, !.num = n, !.eax = n, !.shared = s]
                    ELSE [out[u] EXCEPT !.shared = @ \/ InPutInt(u)]]
  BY Zenon DEF put_int
<1>3. d.pc = "fill" /\ d.edi = Digits /\ d.num = n /\ d.eax = n /\ d.shared = s /\ d.shown = <<>>
  BY <1>2 DEF Silent
<1>4. n \in Nat /\ n >= 0 /\ Digits \in Nat
  BY MessagesDrawn, Bases
<1>5. InNumber(d, put_int_buffer)
  <2>1. PICK q : q = Left(d.num)
    OBVIOUS
  <2>2. q[0] = n
    BY <1>3, <2>1, LeftIs, Zenon
  <2>3. Digits - Digits = 0 /\ (Digits + 1)..Digits = {}
    BY <1>4
  <2>4. d.eax = q[Digits - d.edi] /\ Filled(put_int_buffer, q, d.edi)
    BY <1>3, <2>2, <2>3, Zenon DEF Filled
  <2>5. d.pc \in {"fill", "done"} /\ d.pc \notin Printing \cup {"load", "done"} /\ d.pc # "skip"
    BY <1>3, LabelsApart
  <2> QED BY <1>3, <2>1, <2>4, <2>5, Zenon DEF InNumber
<1>6. ASSUME NEW u \in Thread \ {t}
      PROVE  /\ out'[u].shared = (out[u].shared \/ InPutInt(u))
             /\ out'[u].pc = out[u].pc /\ out'[u].num = out[u].num
             /\ \A b : InNumber(out[u], b) => InNumber(out'[u], b)
  <2> DEFINE o == out[u]
             p == out'[u]
  <2>1. PICK z : z = (o.shared \/ InPutInt(u)) /\ p = [o EXCEPT !.shared = z]
    BY <1>2, Zenon
  <2>2. DOMAIN o = Fields
    BY DEF Kinds, IsOut
  <2>3. /\ p.shared = z /\ p.pc = o.pc /\ p.num = o.num /\ p.edi = o.edi /\ p.eax = o.eax
        /\ p.text = o.text /\ p.shown = o.shown
    BY <2>1, <2>2 DEF Fields
  <2> HIDE DEF o, p
  <2>4. ShowsZero(o) => ShowsZero(p)
    BY <2>3, Zenon DEF ShowsZero
  <2>5. ASSUME NEW q, NEW l, ShowsDigits(o, q, l) PROVE ShowsDigits(p, q, l)
    BY <2>3, <2>5, Zenon DEF ShowsDigits
  <2>6. ASSUME NEW b, InNumber(o, b) PROVE InNumber(p, b)
    BY <2>3, <2>4, <2>5, <2>6, Zenon DEF InNumber
  <2> QED BY <2>1, <2>3, <2>6, Zenon DEF o, p
<1>7. /\ InPutInt(t)' /\ \A u \in Thread \ {t} : InPutInt(u)' <=> InPutInt(u)
      /\ ~InPutInt(t)
  <2>1. d.num >= 0 /\ d.pc # "done"
    BY <1>3, <1>4
  <2>2. out[t].pc = "none"
    BY Zenon DEF put_int, At
  <2>3. "none" \notin IntLabels \cup Printing
    BY DEF IntLabels, Printing, ToDraw, ToPlace
  <2> QED BY <1>6, <2>1, <2>2, <2>3, Zenon DEF InPutInt, NumberInv
<1> HIDE DEF d
<1>8. s \in BOOLEAN
  BY <1>2, Zenon
<1>9. ASSUME NEW u \in Thread
      PROVE  /\ out'[u].num \in Numbers \cup {-1} /\ out'[u].shared \in BOOLEAN
             /\ out'[u].pc \in IntLabels => InPutInt(u)'
             /\ InPutInt(u)' => out'[u].pc \in IntLabels \cup Printing
             /\ out'[u].num >= 0 /\ ~out'[u].shared =>
                   /\ InNumber(out'[u], put_int_buffer')
                   /\ InPutInt(u)' => \A w \in Thread : InPutInt(w)' => w = u
  <2>1. CASE u = t
    <3>1. out'[u] = d
      BY <2>1, Zenon DEF d
    <3>2. "fill" \in IntLabels
      BY LabelsApart
    <3>3. ASSUME ~d.shared, NEW w \in Thread, InPutInt(w)' PROVE w = u
      BY <1>2, <1>3, <1>7, <2>1, <3>3, Zenon
    <3>4. d.num \in Numbers /\ d.shared \in BOOLEAN /\ d.pc \in IntLabels
      BY <1>3, <1>8, <3>2, Zenon
    <3> QED BY <1>1, <1>5, <1>7, <2>1, <3>1, <3>3, <3>4, Zenon
  <2>2. CASE u # t
    <3>1. out[u].num \in Numbers \cup {-1} /\ out[u].shared \in BOOLEAN
      BY Zenon DEF NumberInv
    <3>2. out'[u].num \in Numbers \cup {-1} /\ out'[u].shared \in BOOLEAN
      <4>1. (out[u].shared \/ InPutInt(u)) \in BOOLEAN
        BY <3>1, Zenon
      <4> QED BY <1>6, <2>2, <3>1, <4>1, Zenon
    <3>3. /\ out'[u].pc \in IntLabels => InPutInt(u)'
          /\ InPutInt(u)' => out'[u].pc \in IntLabels \cup Printing
      BY <1>6, <1>7, <2>2, Zenon DEF NumberInv
    <3>4. ASSUME out'[u].num >= 0, ~out'[u].shared
          PROVE  InNumber(out'[u], put_int_buffer') /\ ~InPutInt(u)'
      <4>1. out[u].num >= 0 /\ ~out[u].shared /\ ~InPutInt(u)
        BY <1>6, <2>2, <3>4, Zenon
      <4>2. InNumber(out[u], put_int_buffer)
        BY <4>1, Zenon DEF NumberInv
      <4> QED BY <1>1, <1>6, <1>7, <2>2, <4>1, <4>2, Zenon
    <3> QED BY <3>2, <3>3, <3>4, Zenon
  <2> QED BY <2>1, <2>2
<1> QED BY <1>9, Zenon DEF NumberInv

\* Whatever begins or ends that is not a number.
LEMMA NumberOther ==
    ASSUME NumberInv, Kinds, NEW t \in Thread,
           \/ \E m \in Messages : put_str(t, m) \/ printk(t, m)
           \/ \E pos \in Places : set_cursor(t, pos)
           \/ cls_screen(t) \/ EndStr(t) \/ kernel_panic(t) \/ NextLine(t) \/ Lock(t) \/ Unlock(t)
    PROVE  NumberInv'
<1>1. put_int_buffer' = put_int_buffer
  BY DEF put_str, printk, set_cursor, cls_screen, EndStr, kernel_panic, NextLine, Lock, Unlock, Call, screenvars
<1>2. DOMAIN out = Thread
  BY DEF Kinds
<1>3. ASSUME NEW o, o.num = -1, o.shared = FALSE, o.pc \notin IntLabels, out' = [out EXCEPT ![t] = o]
      PROVE  NumberInv'
  <2>1. out'[t] = o /\ \A u \in Thread \ {t} : out'[u] = out[u]
    BY <1>2, <1>3
  <2> QED BY <1>1, <1>3, <2>1, NumberElse, Zenon
<1>4. ASSUME NEW a, a \notin IntLabels, NEW m, Begin(t, a, m) PROVE NumberInv'
  <2>1. PICK o : o = [Silent EXCEPT !.pc = a, !.text = m]
    OBVIOUS
  <2>2. o.num = -1 /\ o.shared = FALSE /\ o.pc = a
    BY <2>1 DEF Silent
  <2>3. out' = [out EXCEPT ![t] = o]
    BY <1>4, <2>1, Zenon DEF Begin
  <2> QED BY <1>3, <1>4, <2>2, <2>3, Zenon
<1>5. /\ "lock" \notin IntLabels /\ "clear" \notin IntLabels /\ "set hi" \notin IntLabels /\ "none" \notin IntLabels
      /\ \A m : EachChar(m) \notin IntLabels
      /\ "lock" \notin Printing
  BY DEF IntLabels, EachChar, Printing, ToDraw, ToPlace
<1>6. ASSUME \E m \in Messages : put_str(t, m) \/ printk(t, m) PROVE NumberInv'
  BY <1>4, <1>5, <1>6, Zenon DEF put_str, printk
<1>7. ASSUME cls_screen(t) \/ NextLine(t) PROVE NumberInv'
  BY <1>4, <1>5, <1>7, Zenon DEF cls_screen, NextLine
<1>8. ASSUME NEW pos \in Places, set_cursor(t, pos) PROVE NumberInv'
  <2>1. PICK o : o = [Silent EXCEPT !.pc = "set hi", !.text = <<Move>>, !.bx = pos]
    OBVIOUS
  <2>2. o.num = -1 /\ o.shared = FALSE /\ o.pc = "set hi"
    BY <2>1 DEF Silent
  <2>3. out' = [out EXCEPT ![t] = o]
    BY <1>8, <2>1, Zenon DEF set_cursor
  <2> QED BY <1>3, <1>5, <2>2, <2>3, Zenon
<1>9. ASSUME out' = [out EXCEPT ![t] = Silent] PROVE NumberInv'
  <2>1. Silent.num = -1 /\ Silent.shared = FALSE /\ Silent.pc = "none"
    BY DEF Silent
  <2> QED BY <1>3, <1>5, <1>9, <2>1, Zenon
<1>10. CASE Lock(t)
  <2>1. out[t].pc = "lock"
    BY <1>10, Zenon DEF Lock, At
  <2>2. ~InPutInt(t) /\ ~(out[t].num >= 0)
    <3>1. out[t].pc \notin IntLabels \cup Printing /\ out[t].pc # "done"
      BY <1>5, <2>1
    <3> QED BY <3>1, Zenon DEF NumberInv, InPutInt
  <2>3. PICK a : a \notin IntLabels /\ (out' = out \/ out' = [out EXCEPT ![t].pc = a])
    BY <1>5, <1>10, Zenon DEF Lock
  <2>4. /\ \A u \in Thread \ {t} : out'[u] = out[u]
        /\ out'[t].num = out[t].num /\ out'[t].shared = out[t].shared
        /\ out'[t].pc \in {out[t].pc, a}
    <3>1. DOMAIN out[t] = Fields
      BY DEF Kinds, IsOut
    <3>2. CASE out' = out
      BY <3>2, Zenon
    <3>3. CASE out' = [out EXCEPT ![t].pc = a]
      BY <1>2, <3>1, <3>3 DEF Fields
    <3> QED BY <2>3, <3>2, <3>3, Zenon
  <2>5. ~InPutInt(t)' /\ out'[t].pc \notin IntLabels
    <3>1. out'[t].pc \notin IntLabels
      BY <1>5, <2>1, <2>3, <2>4
    <3> QED BY <2>2, <2>4, <3>1, Zenon DEF InPutInt
  <2> QED BY <1>1, <2>2, <2>4, <2>5, NumberFrame, Zenon
<1>11. CASE kernel_panic(t)
  <2>1. PICK o : o = [Silent EXCEPT !.pc = "lock", !.text = Head(Report)]
    OBVIOUS
  <2>2. o.num = -1 /\ o.shared = FALSE /\ o.pc = "lock"
    BY <2>1 DEF Silent
  <2>3. out' = [out EXCEPT ![t] = o]
    BY <1>11, <2>1, Zenon DEF kernel_panic
  <2> QED BY <1>3, <1>5, <2>2, <2>3, Zenon
<1> QED BY <1>6, <1>7, <1>8, <1>9, <1>10, <1>11, Zenon DEF EndStr, Unlock

LEMMA NumberInit == Init => NumberInv
<1> SUFFICES ASSUME Init PROVE NumberInv
  OBVIOUS
<1>1. \A t \in Thread : out[t].num = -1 /\ out[t].shared = FALSE /\ out[t].pc = "none"
  BY DEF Init, Silent
<1>2. \A t \in Thread : ~InPutInt(t) /\ ~(out[t].num >= 0)
  <2>1. ~(-1 >= 0)
    OBVIOUS
  <2> QED BY <1>1, <2>1, Zenon DEF InPutInt
<1>3. "none" \notin IntLabels
  BY DEF IntLabels
<1> QED BY <1>1, <1>2, <1>3, Zenon DEF NumberInv

LEMMA NumberNext == Kinds /\ NumberInv /\ [Next]_vars => NumberInv'
<1> SUFFICES ASSUME Kinds, NumberInv, [Next]_vars PROVE NumberInv'
  OBVIOUS
<1>1. ASSUME UNCHANGED <<out, put_int_buffer>> PROVE NumberInv'
  <2>1. out' = out /\ put_int_buffer' = put_int_buffer
    BY <1>1
  <2>2. \A t \in Thread : InPutInt(t)' = InPutInt(t)
    BY <2>1, Zenon DEF InPutInt
  <2> QED BY <2>1, <2>2, Zenon DEF NumberInv
<1>2. CASE UNCHANGED vars \/ Tick \/ \E t \in Thread : SpinLock(t)
  BY <1>1, <1>2 DEF vars, Tick, SpinLock, screenvars, printvars
<1>3. ASSUME NEW t \in Thread, put_char(t) PROVE NumberInv'
  BY <1>3, NumberPutChar
<1>4. ASSUME NEW t \in Thread, PutIntStep(t) PROVE NumberInv'
  BY <1>4, NumberFill, NumberSkip, NumberLoad, Zenon DEF PutIntStep
<1>5. ASSUME NEW t \in Thread, NEW n \in Numbers, put_int(t, n) PROVE NumberInv'
  BY <1>5, NumberBegins
<1>6. ASSUME NEW t \in Thread,
             \/ \E m \in Messages : put_str(t, m) \/ printk(t, m)
             \/ \E pos \in Places : set_cursor(t, pos)
             \/ cls_screen(t) \/ EndStr(t) \/ kernel_panic(t) \/ NextLine(t) \/ Lock(t) \/ Unlock(t)
      PROVE  NumberInv'
  BY <1>6, NumberOther
<1> QED BY <1>2, <1>3, <1>4, <1>5, <1>6, Zenon DEF Next

\* A number that a thread prints with put_int to itself comes out as its own digits
\* (print.s:166-222), whatever other threads print meanwhile, whether or not they
\* meet it in put_char, for every base up to 16 and every number that fits.
THEOREM NumbersWholeHolds == Spec => []NumbersWhole
<1>1. Init => Kinds /\ NumberInv
  BY KindsInit, NumberInit
<1>2. Kinds /\ NumberInv /\ [Next]_vars => (Kinds /\ NumberInv)'
  BY KindsNext, NumberNext
<1> QED BY <1>1, <1>2, NumberImplied, PTL DEF Spec
=============================================================================
