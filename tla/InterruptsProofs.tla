--------------------------- MODULE InterruptsProofs ---------------------------
(***************************************************************************)
(* The two sides of the timer's interrupt.  The interrupt flag and the      *)
(* frames of every thread, for any number of threads: each frame will       *)
(* restore the flag that the frame below it needs, interrupts do not nest,  *)
(* and a section of the scheduler is alone.  Then the delays that count     *)
(* ticks, for any width of the counter and any length of a tick.            *)
(***************************************************************************)
EXTENDS Interrupts, Timer, RoundRobinProofs

\* The frames there are, each at a step of its function.
StepsOf(fn) ==
    IF fn = "body" THEN {"off", "on", "halt", "hlt"}
    ELSE IF fn = "syscall" THEN {"sti", "iret"}
    ELSE IF fn = "exit" THEN {"cli", "section", "free", "gone"}
    ELSE IF fn \in Calls THEN {"cli", "section", "restore"}
    ELSE {"eoi", "handler", "iret"}
AnyStep == {"off", "on", "halt", "hlt", "sti", "iret", "cli", "section", "restore", "free", "gone",
            "eoi", "handler"}
KnownFrame ==
    {f \in [fn : Calls \cup Vector \cup {"body", "syscall"}, step : AnyStep, saved : BOOLEAN] :
        f.step \in StepsOf(f.fn)}

\* Which function is found on top of which, and at which step of the lower
\* one: only what was interrupted with interrupts on, or a call of its own.
Over(u, l) ==
    /\ u.fn # "body"
    /\ NeedsFlag(l) => u.saved = TRUE
    /\ ~NeedsFlag(l) => u.saved = FALSE
    /\ l.fn = "body" => l.step \in {"on", "halt"}
    /\ l.fn = "syscall" => u.fn \in Vector /\ l.step = "iret"
    /\ u.fn = "exit" => l.fn = "body" /\ l.step = "on"
    /\ l.fn \in Calls =>
          \/ u.fn \in Vector /\ l.step = "cli" /\ l.saved = TRUE
          \/ u.fn \in Calls /\ l.fn = "exit" /\ l.step = "free"
    /\ l.fn \in Vector => u.fn \in Calls /\ l.fn = "ide" /\ l.step \in {"handler", "iret"}

Chain(s) ==
    /\ s \in Seq(KnownFrame) /\ Len(s) \in Nat \ {0}
    /\ s[Len(s)].fn = "body"
    /\ \A i \in 1..(Len(s) - 1) : Over(s[i], s[i + 1])

LEMMA FrameKnown ==
    ASSUME NEW f \in KnownFrame
    PROVE  /\ f.fn \in Calls \cup Vector \cup {"body", "syscall"} /\ f.saved \in BOOLEAN
           /\ f.fn = "body" => f.step \in {"off", "on", "halt", "hlt"}
           /\ f.fn = "syscall" => f.step \in {"sti", "iret"}
           /\ f.fn = "exit" => f.step \in {"cli", "section", "free", "gone"}
           /\ f.fn \in Calls \ {"exit"} => f.step \in {"cli", "section", "restore"}
           /\ f.fn \in Vector => f.step \in {"eoi", "handler", "iret"}
BY DEF KnownFrame, StepsOf, Calls, Vector

\* The flag needed, function by function.
LEMMA FlagNeeded ==
    ASSUME NEW f \in KnownFrame
    PROVE  /\ f.fn = "body" => (NeedsFlag(f) <=> f.step # "off")
           /\ f.fn = "syscall" => (NeedsFlag(f) <=> f.step = "iret")
           /\ f.fn \in Calls => (NeedsFlag(f) <=> f.step = "cli" /\ f.saved = TRUE)
           /\ f.fn \in Vector => ~NeedsFlag(f)
<1>1. f.fn \in Calls \cup Vector \cup {"body", "syscall"} /\ f.saved \in BOOLEAN
  BY FrameKnown
<1> QED BY <1>1 DEF NeedsFlag, Calls, Vector

LEMMA ChainPush ==
    ASSUME NEW s, Chain(s), NEW f \in KnownFrame, Over(f, s[1])
    PROVE  Chain(<<f>> \o s) /\ Head(<<f>> \o s) = f
<1> DEFINE q == <<f>> \o s
<1>1. s \in Seq(KnownFrame) /\ Len(s) \in Nat \ {0}
  BY DEF Chain
<1>2. /\ q \in Seq(KnownFrame) /\ Len(q) = 1 + Len(s)
      /\ \A i \in 1..Len(q) : q[i] = IF i <= 1 THEN f ELSE s[i - 1]
  <2>1. <<f>> \in Seq(KnownFrame) /\ Len(<<f>>) = 1 /\ <<f>>[1] = f
    OBVIOUS
  <2> QED BY <1>1, <2>1, ConcatProperties
<1>3. Head(q) = f
  BY <1>1, FrontOfSeq
<1> HIDE DEF q
<1>4. q[Len(q)] = s[Len(s)]
  BY <1>1, <1>2
<1>5. ASSUME NEW i \in 1..(Len(q) - 1) PROVE Over(q[i], q[i + 1])
  <2>1. CASE i = 1
    <3>1. q[i] = f /\ q[i + 1] = s[1]
      BY <1>1, <1>2, <2>1
    <3> QED BY <3>1
  <2>2. CASE i # 1
    <3>1. i - 1 \in 1..(Len(s) - 1) /\ q[i] = s[i - 1] /\ q[i + 1] = s[(i - 1) + 1]
      BY <1>1, <1>2, <2>2
    <3> QED BY <3>1 DEF Chain
  <2> QED BY <2>1, <2>2
<1>6. Chain(q)
  BY <1>1, <1>2, <1>4, <1>5 DEF Chain
<1> QED BY <1>3, <1>6 DEF q

LEMMA ChainAdvance ==
    ASSUME NEW s, Chain(s), NEW a \in StepsOf(s[1].fn)
    PROVE  LET q == [s EXCEPT ![1].step = a]
           IN  /\ Chain(q) /\ q[1] \in KnownFrame
               /\ q[1].fn = s[1].fn /\ q[1].step = a /\ q[1].saved = s[1].saved
<1> DEFINE q == [s EXCEPT ![1].step = a]
<1>1. /\ s \in Seq(KnownFrame) /\ Len(s) \in Nat \ {0} /\ 1 \in 1..Len(s) /\ s[1] \in KnownFrame
  BY ElementOfSeq DEF Chain
<1>2. PICK f : f = [s[1] EXCEPT !.step = a]
  OBVIOUS
<1>3. f \in KnownFrame /\ f.fn = s[1].fn /\ f.step = a /\ f.saved = s[1].saved
  <2>1. s[1] \in [fn : Calls \cup Vector \cup {"body", "syscall"}, step : AnyStep, saved : BOOLEAN]
    BY <1>1 DEF KnownFrame
  <2>2. a \in AnyStep
    BY DEF StepsOf, AnyStep
  <2> QED BY <1>2, <2>1, <2>2 DEF KnownFrame
<1>4. q = [s EXCEPT ![1] = f]
  BY <1>2
<1>5. q \in Seq(KnownFrame) /\ Len(q) = Len(s) /\ q[1] = f /\ \A i \in 2..Len(s) : q[i] = s[i]
  BY <1>1, <1>3, <1>4, ExceptSeq
<1> HIDE DEF q
<1>6. q[Len(q)].fn = "body"
  BY <1>1, <1>3, <1>5 DEF Chain
<1>7. ASSUME NEW i \in 1..(Len(q) - 1) PROVE Over(q[i], q[i + 1])
  <2>1. PICK n \in Nat \ {0} : n = Len(s)
    BY <1>1
  <2>2. i \in 1..(Len(s) - 1) /\ i + 1 \in 2..Len(s) /\ (i = 1 \/ i \in 2..Len(s))
    BY <1>5, <2>1
  <2>3. Over(s[i], s[i + 1])
    BY <2>2 DEF Chain
  <2>4. q[i + 1] = s[i + 1] /\ q[i].fn = s[i].fn /\ q[i].saved = s[i].saved
    BY <1>3, <1>5, <2>2
  <2> QED BY <2>3, <2>4 DEF Over
<1>8. Chain(q)
  BY <1>1, <1>5, <1>6, <1>7 DEF Chain
<1> QED BY <1>3, <1>5, <1>8 DEF q

LEMMA ChainPop ==
    ASSUME NEW s, Chain(s), s[1].fn # "body"
    PROVE  Chain(Tail(s)) /\ Over(s[1], Tail(s)[1])
<1>1. s \in Seq(KnownFrame) /\ Len(s) \in Nat \ {0} /\ s # <<>> /\ Len(s) # 1
  BY EmptySeq DEF Chain
<1>2. /\ Tail(s) \in Seq(KnownFrame) /\ Len(Tail(s)) = Len(s) - 1
      /\ \A i \in 1..Len(Tail(s)) : Tail(s)[i] = s[i + 1]
  BY <1>1, HeadTailProperties
<1>3. Over(s[1], s[2])
  BY <1>1 DEF Chain
<1>4. PICK q : q = Tail(s)
  OBVIOUS
<1>5. ASSUME NEW i \in 1..(Len(q) - 1) PROVE Over(q[i], q[i + 1])
  <2>1. i + 1 \in 1..(Len(s) - 1) /\ q[i] = s[i + 1] /\ q[i + 1] = s[(i + 1) + 1]
    BY <1>1, <1>2, <1>4
  <2> QED BY <2>1 DEF Chain
<1>6. q[Len(q)].fn = "body" /\ q[1] = s[2]
  BY <1>1, <1>2, <1>4 DEF Chain
<1> QED BY <1>1, <1>2, <1>3, <1>4, <1>5, <1>6 DEF Chain

\* Four frames are the most, and one of them at most is an interrupt's.
LEMMA ChainDepth ==
    ASSUME NEW s, Chain(s)
    PROVE  /\ Len(s) \in 1..4
           /\ \A i, j \in 1..Len(s) : s[i].fn \in Vector /\ s[j].fn \in Vector => i = j
<1>1. s \in Seq(KnownFrame) /\ Len(s) \in Nat \ {0} /\ s[Len(s)].fn = "body"
  BY DEF Chain
<1>2. \A i \in 1..Len(s) : s[i] \in KnownFrame
  BY <1>1, ElementOfSeq
<1>3. \A i \in 1..(Len(s) - 1) : Over(s[i], s[i + 1]) /\ i + 1 \in 1..Len(s) /\ i \in 1..Len(s)
  BY <1>1 DEF Chain
<1>4. \A f \in KnownFrame : f.fn \in Calls \cup Vector \cup {"body", "syscall"}
  BY FrameKnown
<1>5. ASSUME NEW i \in 1..(Len(s) - 1), s[i].fn \in Calls \cup {"syscall"}, s[i + 1].fn # "body"
      PROVE  i = 1
  <2>1. PICK u \in KnownFrame, l \in KnownFrame : u = s[i] /\ l = s[i + 1] /\ Over(u, l)
    BY <1>2, <1>3
  <2>2. ~NeedsFlag(l) /\ u.fn \in Calls \ {"exit"} /\ u.fn # "syscall"
    <3>1. u.fn \in Calls \cup {"syscall"} /\ l.fn # "body" /\ l.fn \in Calls \cup Vector \cup {"syscall"}
      BY <1>4, <1>5, <2>1
    <3>2. u.fn \notin Vector /\ "syscall" \notin Vector \cup Calls
      BY <3>1 DEF Calls, Vector
    <3>3. l.fn # "syscall"
      BY <2>1, <3>2 DEF Over
    <3>4. u.fn \in Calls \ {"exit"}
      BY <2>1, <3>1, <3>2, <3>3 DEF Over
    <3>5. CASE l.fn \in Vector
      BY <3>5, <3>2, <3>4, FlagNeeded
    <3>6. CASE l.fn \in Calls
      BY <2>1, <3>2, <3>4, <3>6, FlagNeeded DEF Over
    <3> QED BY <3>1, <3>2, <3>3, <3>4, <3>5, <3>6
  <2>3. u.saved = FALSE
    BY <2>1, <2>2 DEF Over
  <2>4. CASE i # 1
    <3>1. Over(s[i - 1], u)
      <4>1. i - 1 \in 1..(Len(s) - 1) /\ i = (i - 1) + 1
        BY <1>1, <2>4
      <4> QED BY <1>3, <2>1, <4>1
    <3> QED BY <2>2, <2>3, <3>1 DEF Over
  <2> QED BY <2>4
<1>6. ASSUME NEW i \in 1..(Len(s) - 1), s[i].fn \in Vector, i # 1
      PROVE  i = 2 /\ s[1].fn \in Calls
  <2>1. i - 1 \in 1..(Len(s) - 1) /\ (i - 1) + 1 = i
    BY <1>1, <1>6
  <2>2. s[i - 1].fn \in Calls
    <3>1. Over(s[i - 1], s[i])
      BY <1>3, <2>1
    <3> QED BY <1>6, <3>1 DEF Over
  <2>3. s[i].fn # "body"
    BY <1>6 DEF Vector
  <2>4. i - 1 = 1
    BY <1>5, <2>1, <2>2, <2>3
  <2> QED BY <2>1, <2>2, <2>4
<1>7. ASSUME NEW i \in 1..(Len(s) - 1), s[i].fn \in Calls \cup {"syscall"}, i # 1
      PROVE  s[i + 1].fn = "body" /\ i <= 3
  <2>1. i - 1 \in 1..(Len(s) - 1) /\ (i - 1) + 1 = i
    BY <1>1, <1>7
  <2>2. s[i + 1].fn = "body"
    BY <1>5, <1>7
  <2>3. s[i - 1].fn \in Calls \cup Vector /\ s[i].fn # "body"
    <3>1. Over(s[i - 1], s[i])
      BY <1>3, <2>1
    <3> QED BY <1>7, <3>1 DEF Over, Calls
  <2>4. i - 1 = 1 \/ i - 1 = 2
    BY <1>5, <1>6, <2>1, <2>3
  <2> QED BY <2>1, <2>2, <2>4
<1>8. \A i \in 1..(Len(s) - 1) : s[i + 1].fn = "body" => i + 1 = Len(s)
  <2> SUFFICES ASSUME NEW i \in 1..(Len(s) - 1), s[i + 1].fn = "body", i + 1 # Len(s) PROVE FALSE
    OBVIOUS
  <2>1. i + 1 \in 1..(Len(s) - 1)
    BY <1>1
  <2> QED BY <1>3, <2>1 DEF Over
<1>9. PICK n \in Nat \ {0} : n = Len(s)
  BY <1>1
<1>10. n <= 4
  <2>1. CASE n = 1
    BY <2>1
  <2>2. CASE n # 1
    <3>1. n - 1 \in 1..(Len(s) - 1) /\ (n - 1) + 1 = n
      BY <1>9, <2>2
    <3>2. s[n - 1].fn \in Calls \cup Vector \cup {"syscall"}
      BY <1>2, <1>3, <1>4, <3>1 DEF Over
    <3>3. n - 1 <= 3
      BY <1>6, <1>7, <3>1, <3>2
    <3> QED BY <1>9, <3>3
  <2> QED BY <2>1, <2>2
<1>11. ASSUME NEW i \in 1..Len(s), NEW j \in 1..Len(s), s[i].fn \in Vector, s[j].fn \in Vector, i < j
       PROVE  FALSE
  <2>1. j # Len(s) /\ i # Len(s)
    BY <1>1, <1>11 DEF Vector
  <2>2. j \in 1..(Len(s) - 1) /\ i \in 1..(Len(s) - 1) /\ j # 1
    BY <1>1, <1>11, <2>1
  <2>3. j = 2 /\ s[1].fn \in Calls
    BY <1>6, <1>11, <2>2
  <2>4. i = 1
    BY <1>11, <2>2, <2>3
  <2> QED BY <1>11, <2>3, <2>4 DEF Calls, Vector
<1>12. \A i, j \in 1..Len(s) : s[i].fn \in Vector /\ s[j].fn \in Vector => i = j
  BY <1>1, <1>11
<1>13. Len(s) \in 1..4
  BY <1>9, <1>10
<1> QED BY <1>12, <1>13

-----------------------------------------------------------------------------
\* A thread that left the CPU did so at the end of a section or of a tick, with
\* interrupts off, or has not begun.
Left(f) == ~NeedsFlag(f) /\ f.step # "section" /\ ~(f.fn = "timer" /\ f.step = "handler")

Top == stack[running][1]

FlagInv ==
    /\ OnePlace
    /\ intr \in BOOLEAN /\ pending \subseteq Vector /\ in_service \subseteq Vector
    /\ stack \in [Thread -> Seq(KnownFrame)]
    /\ \A t \in Thread : Chain(stack[t])
    /\ intr = TRUE <=> NeedsFlag(Top)
    /\ \A t \in Thread : t # running => Left(stack[t][1])

\* A step of the running thread among its own frames.
LEMMA FlagOwnFrames ==
    ASSUME FlagInv, NEW q, Chain(q), SetStack(q), UNCHANGED rrvars,
           intr' \in BOOLEAN, intr' = TRUE <=> NeedsFlag(q[1]),
           pending' \subseteq Vector, in_service' \subseteq Vector
    PROVE  FlagInv'
<1>1. /\ stack \in [Thread -> Seq(KnownFrame)] /\ running \in Thread /\ q \in Seq(KnownFrame)
      /\ running' = running /\ stack' = [stack EXCEPT ![running] = q]
  BY DEF FlagInv, OnePlace, SetStack, rrvars, Chain
<1>2. OnePlace'
  BY OnePlaceNext DEF FlagInv
<1>3. /\ stack' \in [Thread -> Seq(KnownFrame)] /\ stack'[running'] = q
      /\ \A t \in Thread : t # running' => stack'[t] = stack[t]
  BY <1>1
<1>4. \A t \in Thread : Chain(stack'[t])
  BY <1>1, <1>3 DEF FlagInv
<1>5. \A t \in Thread : t # running' => Left(stack'[t][1])
  BY <1>1, <1>3 DEF FlagInv
<1>6. intr' = TRUE <=> NeedsFlag(stack'[running'][1])
  BY <1>3
<1> QED BY <1>2, <1>3, <1>4, <1>5, <1>6 DEF FlagInv, Top

\* A step after which any thread may have the CPU, with interrupts off.
LEMMA FlagSwitch ==
    ASSUME FlagInv, NEW q, Chain(q), SetStack(q), [RRNext]_rrvars, Left(q[1]),
           intr = FALSE, UNCHANGED <<intr, pending, in_service>>
    PROVE  FlagInv'
<1>1. /\ stack \in [Thread -> Seq(KnownFrame)] /\ running \in Thread /\ q \in Seq(KnownFrame)
      /\ stack' = [stack EXCEPT ![running] = q]
  BY DEF FlagInv, OnePlace, SetStack, Chain
<1>2. OnePlace' /\ running' \in Thread
  BY OnePlaceNext DEF FlagInv, OnePlace
<1>3. /\ stack' \in [Thread -> Seq(KnownFrame)] /\ stack'[running] = q
      /\ \A t \in Thread : t # running => stack'[t] = stack[t]
  BY <1>1
<1>4. \A t \in Thread : Chain(stack'[t]) /\ Left(stack'[t][1])
  BY <1>1, <1>3 DEF FlagInv
<1>5. ~NeedsFlag(stack'[running'][1])
  BY <1>2, <1>4 DEF Left
<1>6. intr' = FALSE /\ pending' \subseteq Vector /\ in_service' \subseteq Vector
  BY DEF FlagInv
<1> QED BY <1>2, <1>3, <1>4, <1>5, <1>6 DEF FlagInv, Top

\* What every action starts from.
LEMMA TopKnown ==
    ASSUME FlagInv
    PROVE  /\ running \in Thread /\ Chain(stack[running]) /\ Top \in KnownFrame
           /\ Head(stack[running]) = Top /\ intr \in BOOLEAN
           /\ intr = TRUE <=> NeedsFlag(Top)
           /\ \A fn, step : At(fn, step) <=> Top.fn = fn /\ Top.step = step
<1>1. running \in Thread /\ Chain(stack[running]) /\ intr \in BOOLEAN
  BY DEF FlagInv, OnePlace
<1>2. stack[running] \in Seq(KnownFrame) /\ Len(stack[running]) \in Nat \ {0}
  BY <1>1 DEF Chain
<1>3. Top \in KnownFrame /\ Head(stack[running]) = Top
  BY <1>2, ElementOfSeq DEF Top
<1> QED BY <1>1, <1>3 DEF FlagInv, At

\* The frame on top moves on.
LEMMA TopAdvance ==
    ASSUME FlagInv, NEW a \in StepsOf(Top.fn)
    PROVE  /\ Chain(Advance(a)) /\ Advance(a)[1] \in KnownFrame
           /\ Advance(a)[1].fn = Top.fn /\ Advance(a)[1].step = a
           /\ Advance(a)[1].saved = Top.saved
BY TopKnown, ChainAdvance DEF Advance, Top

LEMMA NewFrame ==
    ASSUME NEW fn \in Calls \cup Vector \cup {"syscall"}, NEW a \in StepsOf(fn), NEW b \in BOOLEAN
    PROVE  /\ Frame(fn, a, b) \in KnownFrame /\ Frame(fn, a, b).fn = fn
           /\ Frame(fn, a, b).step = a /\ Frame(fn, a, b).saved = b
BY DEF Frame, KnownFrame, AnyStep, StepsOf

LEMMA VectorNext == VectorSteps[1] = "eoi" /\ NextStep("eoi") = "handler" /\ NextStep("handler") = "iret"
<1>1. VectorSteps[1] = "eoi" /\ VectorSteps[2] = "handler" /\ VectorSteps[3] = "iret"
  BY DEF VectorSteps
<1>2. \A i \in 2..3 : i = 2 \/ i = 3
  OBVIOUS
<1>3. (CHOOSE i \in 2..3 : VectorSteps[i - 1] = "eoi") = 2
  BY <1>1, <1>2
<1>4. (CHOOSE i \in 2..3 : VectorSteps[i - 1] = "handler") = 3
  BY <1>1, <1>2
<1> QED BY <1>1, <1>3, <1>4 DEF NextStep

LEMMA FlagInit == Init => FlagInv
<1> SUFFICES ASSUME Init PROVE FlagInv
  OBVIOUS
<1>1. PICK f : f = Frame("body", "off", FALSE)
  OBVIOUS
<1>2. f \in KnownFrame /\ f.fn = "body" /\ f.step = "off"
  BY <1>1 DEF Frame, KnownFrame, AnyStep, StepsOf
<1>3. ~NeedsFlag(f)
  BY <1>2, FlagNeeded
<1>4. <<f>> \in Seq(KnownFrame) /\ Len(<<f>>) = 1 /\ <<f>>[1] = f
  BY <1>2
<1>5. Chain(<<f>>)
  BY <1>2, <1>4 DEF Chain
<1>6. stack = [t \in Thread |-> <<f>>] /\ intr = FALSE /\ running \in Thread
  BY <1>1, ThreadAssumption DEF Init, NewStack, RRInit
<1>7. OnePlace /\ pending \subseteq Vector /\ in_service \subseteq Vector
  BY PlaceInit DEF Init, Vector
<1>8. Left(f)
  BY <1>2, <1>3 DEF Left
<1>9. \A t \in Thread : stack[t] = <<f>>
  BY <1>6
<1> QED BY <1>3, <1>4, <1>5, <1>6, <1>7, <1>8, <1>9 DEF FlagInv, Top

-----------------------------------------------------------------------------
(* The actions.                                                            *)

\* An interrupt finds a frame that runs with interrupts on, and its own will
\* leave them on.
LEMMA FlagInterrupt ==
    ASSUME FlagInv, NEW v \in Vector, Interrupt(v)
    PROVE  FlagInv'
<1>1. /\ intr = TRUE /\ intr' = FALSE /\ UNCHANGED rrvars
      /\ pending' \subseteq Vector /\ in_service' \subseteq Vector
  BY TopKnown DEF Interrupt, Gate, FlagInv
<1>2. NeedsFlag(Top) /\ Top \in KnownFrame
  BY <1>1, TopKnown
<1>3. PICK f : f = Frame(v, "eoi", TRUE)
  OBVIOUS
<1>4. f \in KnownFrame /\ f.fn = v /\ f.step = "eoi" /\ f.saved = TRUE
  <2>1. "eoi" \in StepsOf(v)
    BY DEF StepsOf, Calls, Vector
  <2> QED BY <1>3, <2>1, NewFrame
<1>5. f.fn \in Vector /\ f.fn \notin Calls \cup {"body", "syscall"} /\ ~NeedsFlag(f)
  BY <1>4, FlagNeeded DEF Vector, Calls
<1>6. CASE At("body", "hlt")
  <2>1. Top.fn = "body" /\ "on" \in StepsOf(Top.fn)
    BY <1>6, TopKnown DEF StepsOf
  <2>2. PICK q : q = Advance("on")
    OBVIOUS
  <2>3. Chain(q) /\ q[1] \in KnownFrame /\ q[1].fn = "body" /\ q[1].step = "on"
    BY <2>1, <2>2, TopAdvance
  <2>4. Over(f, q[1])
    BY <1>4, <1>5, <2>3, FlagNeeded DEF Over, Calls, Vector
  <2>5. Chain(<<f>> \o q) /\ (<<f>> \o q)[1] = f
    BY <1>4, <2>3, <2>4, ChainPush
  <2>6. SetStack(<<f>> \o q)
    BY <1>1, <1>3, <1>6, <2>2, VectorNext DEF Interrupt
  <2> QED BY <1>1, <1>5, <2>5, <2>6, FlagOwnFrames
<1>7. CASE ~At("body", "hlt")
  <2>1. Chain(stack[running]) /\ stack[running][1] = Top /\ ~(Top.fn = "body" /\ Top.step = "hlt")
    BY <1>7, TopKnown DEF Top
  <2>2. Over(f, Top)
    BY <1>2, <1>4, <1>5, <2>1, FlagNeeded, FrameKnown DEF Over
  <2>3. Chain(<<f>> \o stack[running]) /\ (<<f>> \o stack[running])[1] = f
    BY <1>4, <2>1, <2>2, ChainPush
  <2>4. SetStack(<<f>> \o stack[running])
    BY <1>1, <1>3, <1>7, VectorNext DEF Interrupt
  <2> QED BY <1>1, <1>5, <2>3, <2>4, FlagOwnFrames
<1> QED BY <1>6, <1>7

\* The steps that only move the frame on top, and set the flag for it.
LEMMA FlagAdvance ==
    ASSUME FlagInv, NEW a \in StepsOf(Top.fn), SetStack(Advance(a)), UNCHANGED rrvars,
           intr' \in BOOLEAN, intr' = TRUE <=> NeedsFlag(Advance(a)[1]),
           pending' \subseteq Vector, in_service' \subseteq Vector
    PROVE  FlagInv'
BY TopAdvance, FlagOwnFrames

LEMMA FlagSteps ==
    ASSUME FlagInv,
           \/ \E v \in Vector : Eoi(v)
           \/ kernel_thread \/ SleepCpu \/ SyscallSti \/ IdeHandler
           \/ \E fn \in Calls : Cli(fn)
    PROVE  FlagInv'
<1>1. pending' \subseteq Vector /\ in_service' \subseteq Vector /\ UNCHANGED rrvars
  BY DEF Eoi, kernel_thread, SleepCpu, SyscallSti, IdeHandler, Cli, Instruction, FlagInv
<1>2. CASE \E v \in Vector : Eoi(v)
  <2>1. PICK v \in Vector : Eoi(v)
    BY <1>2
  <2>2. Top.fn \in Vector /\ SetStack(Advance("handler")) /\ intr' = intr /\ "handler" \in StepsOf(Top.fn)
    BY <2>1, TopKnown, VectorNext DEF Eoi, StepsOf, Vector, Calls
  <2>3. ~NeedsFlag(Top) /\ ~NeedsFlag(Advance("handler")[1])
    BY <2>2, TopKnown, TopAdvance, FlagNeeded
  <2> QED BY <1>1, <2>2, <2>3, TopKnown, FlagAdvance
<1>3. CASE kernel_thread
  <2>1. Top.fn = "body" /\ SetStack(Advance("on")) /\ intr' = TRUE /\ "on" \in StepsOf(Top.fn)
    BY <1>3, TopKnown DEF kernel_thread, StepsOf
  <2>2. NeedsFlag(Advance("on")[1])
    BY <2>1, TopAdvance, FlagNeeded
  <2> QED BY <1>1, <2>1, <2>2, FlagAdvance
<1>4. CASE SleepCpu
  <2>1. Top.fn = "body" /\ SetStack(Advance("hlt")) /\ intr' = TRUE /\ "hlt" \in StepsOf(Top.fn)
    BY <1>4, TopKnown DEF SleepCpu, StepsOf
  <2>2. NeedsFlag(Advance("hlt")[1])
    BY <2>1, TopAdvance, FlagNeeded
  <2> QED BY <1>1, <2>1, <2>2, FlagAdvance
<1>5. CASE SyscallSti
  <2>1. Top.fn = "syscall" /\ SetStack(Advance("iret")) /\ intr' = TRUE /\ "iret" \in StepsOf(Top.fn)
    BY <1>5, TopKnown DEF SyscallSti, StepsOf
  <2>2. NeedsFlag(Advance("iret")[1])
    BY <2>1, TopAdvance, FlagNeeded
  <2> QED BY <1>1, <2>1, <2>2, FlagAdvance
<1>6. CASE IdeHandler
  <2>1. Top.fn \in Vector /\ SetStack(Advance("iret")) /\ intr' = intr /\ "iret" \in StepsOf(Top.fn)
    BY <1>6, TopKnown, VectorNext DEF IdeHandler, StepsOf, Calls, Vector
  <2>2. ~NeedsFlag(Top) /\ ~NeedsFlag(Advance("iret")[1])
    BY <2>1, TopKnown, TopAdvance, FlagNeeded
  <2> QED BY <1>1, <2>1, <2>2, TopKnown, FlagAdvance
<1>7. CASE \E fn \in Calls : Cli(fn)
  <2>1. PICK fn \in Calls : Cli(fn)
    BY <1>7
  <2>2. Top.fn \in Calls /\ SetStack(Advance("section")) /\ intr' = FALSE /\ "section" \in StepsOf(Top.fn)
    BY <2>1, TopKnown DEF Cli, Disabled, StepsOf, Calls
  <2>3. ~NeedsFlag(Advance("section")[1])
    BY <2>2, TopAdvance, FlagNeeded
  <2> QED BY <1>1, <2>2, <2>3, FlagAdvance
<1> QED BY <1>2, <1>3, <1>4, <1>5, <1>6, <1>7

\* The end of a function, found again in the frame.
LEMMA FlagReturn ==
    ASSUME FlagInv, NEW a \in {"iret", "restore"}, Return(a)
    PROVE  FlagInv'
<1>1. Top \in KnownFrame /\ Top.step = a /\ Chain(stack[running])
  BY TopKnown DEF Return
<1>2. Top.fn # "body" /\ Top.saved \in BOOLEAN
  BY <1>1, FrameKnown
<1>3. PICK q : q = Tail(stack[running])
  OBVIOUS
<1>4. Chain(q) /\ Over(Top, q[1])
  BY <1>1, <1>2, <1>3, ChainPop DEF Top
<1>5. SetStack(q) /\ intr' = Top.saved /\ UNCHANGED <<rrvars, pending, in_service>>
  BY <1>3, TopKnown DEF Return, Instruction
<1>6. intr' = TRUE <=> NeedsFlag(q[1])
  BY <1>4, <1>5 DEF Over
<1>7. pending' \subseteq Vector /\ in_service' \subseteq Vector
  BY <1>5 DEF FlagInv
<1> QED BY <1>2, <1>4, <1>5, <1>6, <1>7, FlagOwnFrames

\* A section, and the handler of the timer: another thread may be on the CPU
\* afterwards, and the one that leaves has finished with the scheduler.
LEMMA FlagServe ==
    ASSUME FlagInv, (\E fn \in Calls : Serve(fn)) \/ TimerHandler
    PROVE  FlagInv'
<1>1. CASE \E fn \in Calls : Serve(fn)
  <2>1. PICK fn \in Calls : Serve(fn)
    BY <1>1
  <2>2. PICK a : a = Served(fn)
    OBVIOUS
  <2>3. /\ Top.fn = fn /\ Top.step = "section" /\ SetStack(Advance(a))
        /\ a \in {"restore", "free", "gone"} /\ a \in StepsOf(fn)
        /\ UNCHANGED <<intr, pending, in_service>>
    BY <2>1, <2>2, TopKnown DEF Serve, Instruction, Served, StepsOf, Calls
  <2>4. [RRNext]_rrvars
    BY <2>1 DEF Serve, Section, RRNext
  <2>5. intr = FALSE
    BY <2>3, TopKnown, FlagNeeded
  <2>6. PICK q : q = Advance(a)
    OBVIOUS
  <2>7. Chain(q) /\ q[1] \in KnownFrame /\ q[1].fn = fn /\ q[1].step = a
    BY <2>3, <2>6, TopAdvance
  <2>8. Left(q[1])
    <3>1. ~NeedsFlag(q[1]) /\ fn # "timer"
      BY <2>3, <2>7, FlagNeeded DEF Calls
    <3> QED BY <2>3, <2>7, <3>1 DEF Left
  <2> QED BY <2>3, <2>4, <2>5, <2>6, <2>7, <2>8, FlagSwitch
<1>2. CASE TimerHandler
  <2>1. /\ Top.fn = "timer" /\ SetStack(Advance("iret"))
        /\ "iret" \in StepsOf(Top.fn) /\ UNCHANGED <<intr, pending, in_service>>
    BY <1>2, TopKnown, VectorNext DEF TimerHandler, Instruction, StepsOf, Calls
  <2>2. [RRNext]_rrvars
    BY <1>2 DEF TimerHandler, RRNext
  <2>3. intr = FALSE
    BY <2>1, TopKnown, FlagNeeded DEF Vector
  <2>4. PICK q : q = Advance("iret")
    OBVIOUS
  <2>5. Chain(q) /\ q[1] \in KnownFrame /\ q[1].fn = "timer" /\ q[1].step = "iret"
    BY <2>1, <2>4, TopAdvance
  <2>6. Left(q[1])
    BY <2>5, FlagNeeded DEF Left, Vector
  <2> QED BY <2>1, <2>2, <2>3, <2>4, <2>5, <2>6, FlagSwitch
<1> QED BY <1>1, <1>2

\* A function is called with the flag as it is, which its frame records; the
\* caller's own frame may move on at the same time.
LEMMA FlagPush ==
    ASSUME FlagInv, NEW fn \in Calls \cup {"syscall"}, NEW a \in StepsOf(fn), NEW q,
           Chain(q), q[1] \in KnownFrame, Over(Frame(fn, a, intr), q[1]),
           SetStack(<<Frame(fn, a, intr)>> \o q), UNCHANGED <<rrvars, pending, in_service>>,
           intr' \in BOOLEAN, intr' = TRUE <=> NeedsFlag(Frame(fn, a, intr))
    PROVE  FlagInv'
<1>1. Frame(fn, a, intr) \in KnownFrame
  BY TopKnown, NewFrame
<1>2. /\ Chain(<<Frame(fn, a, intr)>> \o q)
      /\ (<<Frame(fn, a, intr)>> \o q)[1] = Frame(fn, a, intr)
  BY <1>1, ChainPush
<1>3. pending' \subseteq Vector /\ in_service' \subseteq Vector
  BY DEF FlagInv
<1> QED BY <1>2, <1>3, FlagOwnFrames

LEMMA FlagCall ==
    ASSUME FlagInv, NEW fn \in Calls, Call(fn)
    PROVE  FlagInv'
<1>1. /\ UNCHANGED <<rrvars, pending, in_service>> /\ intr' = intr /\ intr \in BOOLEAN
      /\ "cli" \in StepsOf(fn) /\ Chain(stack[running]) /\ Top \in KnownFrame
      /\ Top = stack[running][1] /\ fn \in Calls \cup {"syscall"}
  BY TopKnown DEF Call, Instruction, StepsOf, Calls, Top
<1>2. PICK f : f = Frame(fn, "cli", intr)
  OBVIOUS
<1>3. f \in KnownFrame /\ f.fn = fn /\ f.step = "cli" /\ f.saved = intr
  BY <1>1, <1>2, NewFrame
<1>4. /\ intr' = TRUE <=> NeedsFlag(f)
      /\ fn \notin Vector /\ fn # "body" /\ fn # "syscall"
  BY <1>1, <1>3, FlagNeeded DEF Calls, Vector
<1>5. ASSUME At("body", "on") PROVE intr = TRUE /\ Over(f, Top)
  <2>1. Top.fn = "body" /\ Top.step = "on" /\ Top.fn \notin Calls \cup Vector
    BY <1>5, TopKnown DEF Calls, Vector
  <2>2. NeedsFlag(Top)
    BY <1>1, <2>1, FlagNeeded
  <2> QED BY <1>3, <1>4, <2>1, <2>2, TopKnown DEF Over
<1>6. CASE At("body", "on") /\ SetStack(<<f>> \o stack[running])
  BY <1>1, <1>2, <1>4, <1>5, <1>6, FlagPush
<1>7. CASE At("body", "on") /\ fn = "block" /\ SetStack(<<f>> \o Advance("halt"))
  <2>1. Top.fn = "body" /\ "halt" \in StepsOf(Top.fn)
    BY <1>7, TopKnown DEF StepsOf
  <2>2. PICK q : q = Advance("halt")
    OBVIOUS
  <2>3. Chain(q) /\ q[1] \in KnownFrame /\ q[1].fn = "body" /\ q[1].step = "halt"
    BY <2>1, <2>2, TopAdvance
  <2>4. Over(f, q[1])
    <3>1. NeedsFlag(q[1]) /\ q[1].fn \notin Calls \cup Vector
      BY <2>3, FlagNeeded DEF Calls, Vector
    <3> QED BY <1>3, <1>4, <1>5, <1>7, <2>3, <3>1 DEF Over
  <2> QED BY <1>1, <1>2, <1>4, <1>7, <2>2, <2>3, <2>4, FlagPush
<1>8. ASSUME At("ide", "handler"), fn # "exit" PROVE intr = FALSE /\ Over(f, Top)
  <2>1. /\ Top.fn = "ide" /\ Top.step = "handler" /\ Top.fn \notin Calls \cup {"body", "syscall"}
        /\ Top.fn \in Vector
    BY <1>8, TopKnown DEF Calls, Vector
  <2>2. ~NeedsFlag(Top)
    BY <1>1, <2>1, FlagNeeded
  <2> QED BY <1>3, <1>4, <1>8, <2>1, <2>2, TopKnown DEF Over
<1>9. CASE At("ide", "handler") /\ fn = "yield" /\ SetStack(<<f>> \o stack[running])
  BY <1>1, <1>2, <1>4, <1>8, <1>9, FlagPush
<1>10. CASE At("ide", "handler") /\ fn = "unblock" /\ SetStack(<<f>> \o Advance(NextStep("handler")))
  <2>1. Top.fn = "ide" /\ "iret" \in StepsOf(Top.fn)
    BY <1>10, TopKnown DEF StepsOf, Calls
  <2>2. PICK q : q = Advance("iret")
    OBVIOUS
  <2>3. /\ Chain(q) /\ q[1] \in KnownFrame /\ q[1].fn = "ide" /\ q[1].step = "iret"
        /\ q[1].fn \in Vector /\ q[1].fn \notin Calls \cup {"body", "syscall"}
    BY <2>1, <2>2, TopAdvance DEF Calls, Vector
  <2>4. Over(f, q[1])
    <3>1. ~NeedsFlag(q[1])
      BY <2>3, FlagNeeded
    <3> QED BY <1>3, <1>4, <1>8, <1>10, <2>3, <3>1 DEF Over
  <2> QED BY <1>1, <1>2, <1>4, <1>10, <2>2, <2>3, <2>4, VectorNext, FlagPush
<1>11. CASE At("exit", "free") /\ fn \in {"yield", "block", "unblock"} /\ SetStack(<<f>> \o stack[running])
  <2>1. Top.fn = "exit" /\ Top.step = "free" /\ Top.fn \in Calls /\ Top.fn \notin Vector \cup {"body", "syscall"}
    BY <1>11, TopKnown DEF Calls, Vector
  <2>2. ~NeedsFlag(Top) /\ fn # "exit"
    BY <1>1, <1>11, <2>1, FlagNeeded
  <2>3. Over(f, Top)
    BY <1>3, <1>4, <2>1, <2>2, TopKnown DEF Over
  <2> QED BY <1>1, <1>2, <1>4, <1>11, <2>3, FlagPush
<1>12. Caller(fn)
  BY DEF Call
<1> QED BY <1>2, <1>6, <1>7, <1>9, <1>10, <1>11, <1>12 DEF Caller

LEMMA FlagSyscall ==
    ASSUME FlagInv, SyscallEntry
    PROVE  FlagInv'
<1>1. /\ UNCHANGED <<rrvars, pending, in_service>> /\ intr' = FALSE /\ intr \in BOOLEAN
      /\ "sti" \in StepsOf("syscall") /\ Chain(stack[running]) /\ Top \in KnownFrame
      /\ Top = stack[running][1] /\ Top.fn = "body" /\ Top.step = "on"
  BY TopKnown DEF SyscallEntry, Instruction, StepsOf, Top, Gate
<1>2. PICK f : f = Frame("syscall", "sti", intr)
  OBVIOUS
<1>3. f \in KnownFrame /\ f.fn = "syscall" /\ f.step = "sti" /\ f.saved = intr
  BY <1>1, <1>2, NewFrame
<1>4. ~NeedsFlag(f) /\ NeedsFlag(Top) /\ Top.fn \notin Calls \cup Vector
  BY <1>1, <1>3, FlagNeeded DEF Calls, Vector
<1>5. Over(f, Top)
  BY <1>1, <1>3, <1>4, TopKnown DEF Over
<1>6. SetStack(<<f>> \o stack[running])
  BY <1>2 DEF SyscallEntry
<1> QED BY <1>1, <1>2, <1>4, <1>5, <1>6, FlagPush

LEMMA FlagNext == FlagInv /\ [Next]_vars => FlagInv'
<1> SUFFICES ASSUME FlagInv, [Next]_vars PROVE FlagInv'
  OBVIOUS
<1>1. CASE UNCHANGED vars
  <2>1. OnePlace'
    BY <1>1, OnePlaceNext DEF vars, FlagInv
  <2> QED BY <1>1, <2>1 DEF vars, rrvars, FlagInv, Top
<1>2. CASE \E v \in Vector : Raise(v)
  <2>1. OnePlace'
    BY <1>2, OnePlaceNext DEF Raise, FlagInv
  <2> QED BY <1>2, <2>1 DEF Raise, rrvars, FlagInv, Top
<1>3. CASE KernelStep
  BY <1>3, FlagInterrupt, FlagSteps, FlagReturn, FlagServe, FlagCall DEF KernelStep, Restore, Iretd
<1> QED BY <1>1, <1>2, <1>3, FlagCall, FlagSyscall DEF Next

\* The inductive invariant.
THEOREM FlagInvariant == Spec => []FlagInv
BY FlagInit, FlagNext, PTL DEF Spec

-----------------------------------------------------------------------------
(* The properties.                                                         *)

LEMMA FrameOf ==
    ASSUME FlagInv, NEW f \in Frames
    PROVE  \E t \in Thread, i \in Nat :
              /\ i \in 1..Len(stack[t]) /\ f = <<t, i>> /\ FrameAt(f) = stack[t][i] /\ FrameAt(f) \in KnownFrame
              /\ Chain(stack[t]) /\ stack[t] \in Seq(KnownFrame)
<1>1. PICK t \in Thread : \E i \in DOMAIN stack[t] : f = <<t, i>>
  BY DEF Frames
<1>2. Chain(stack[t]) /\ stack[t] \in Seq(KnownFrame) /\ DOMAIN stack[t] = 1..Len(stack[t])
  BY LenProperties DEF FlagInv, Chain
<1>3. PICK i \in 1..Len(stack[t]) : f = <<t, i>>
  BY <1>1, <1>2
<1> QED BY <1>2, <1>3, ElementOfSeq DEF FrameAt

LEMMA StepsAgree ==
    ASSUME NEW f \in KnownFrame
    PROVE  f.fn \in DOMAIN Steps /\ f.step \in Steps[f.fn] /\ f.saved \in BOOLEAN
<1>1. f.fn \in Calls \cup Vector \cup {"body", "syscall"} /\ f.saved \in BOOLEAN
  BY FrameKnown
<1>2. DOMAIN Steps = {"body", "syscall", "yield", "block", "run", "unblock", "exit", "timer", "ide"}
  BY DEF Steps
<1>3. \A fn \in DOMAIN Steps : StepsOf(fn) = Steps[fn]
  BY <1>2 DEF Steps, StepsOf, Calls
<1>4. f.fn \in DOMAIN Steps
  BY <1>1, <1>2 DEF Calls, Vector
<1> QED BY <1>1, <1>3, <1>4 DEF KnownFrame

\* Types, four frames at most on a stack, and one interrupt's at most: IRQs do
\* not nest, whichever threads they interrupt and switch between.
LEMMA FramesTyped == FlagInv => TypeOK
<1> SUFFICES ASSUME FlagInv PROVE TypeOK
  OBVIOUS
<1>1. ASSUME NEW f \in Frames
      PROVE  FrameAt(f).fn \in DOMAIN Steps /\ FrameAt(f).step \in Steps[FrameAt(f).fn]
             /\ FrameAt(f).saved \in BOOLEAN
  BY FrameOf, StepsAgree
<1>2. ASSUME NEW t \in Thread
      PROVE  /\ Len(stack[t]) \in 1..4
             /\ \A i, j \in DOMAIN stack[t] :
                   stack[t][i].fn \in Vector /\ stack[t][j].fn \in Vector => i = j
  <2>1. Chain(stack[t]) /\ DOMAIN stack[t] = 1..Len(stack[t])
    BY LenProperties DEF FlagInv, Chain
  <2> QED BY <2>1, ChainDepth
<1>3. /\ intr \in BOOLEAN /\ pending \subseteq Vector /\ in_service \subseteq Vector
      /\ DOMAIN stack = Thread
  BY DEF FlagInv
<1> QED BY <1>1, <1>2, <1>3 DEF TypeOK

\* While a function of thread.c is at the scheduler's lists nobody else is on
\* the CPU, in a handler or in another section: all of the time between its cli
\* and the restored flag, but for the page_free with which a thread other than
\* main exits (thread.c:178).
THEOREM SchedulerExclusiveHolds == Spec => []SchedulerExclusive
<1>1. ASSUME FlagInv PROVE SchedulerExclusive
  <2> SUFFICES ASSUME NEW f \in Frames,
                      \/ FrameAt(f).step = "section"
                      \/ FrameAt(f).fn = "timer" /\ FrameAt(f).step = "handler"
               PROVE  f = <<running, 1>> /\ intr = FALSE
    BY <1>1, TopKnown DEF SchedulerExclusive
  <2>1. PICK t \in Thread, i \in Nat :
              /\ i \in 1..Len(stack[t]) /\ f = <<t, i>> /\ FrameAt(f) = stack[t][i] /\ FrameAt(f) \in KnownFrame
              /\ Chain(stack[t])
    BY <1>1, FrameOf
  <2>2. PICK g \in KnownFrame : g = stack[t][i]
    BY <2>1
  <2>3. g.step = "section" \/ (g.fn = "timer" /\ g.step = "handler")
    BY <2>1, <2>2
  <2>4. g.fn \in Calls \cup {"timer"} /\ g.step \notin {"cli", "free"}
    BY <2>2, <2>3, FrameKnown DEF Vector
  <2>5. i = 1
    <3>1. CASE i # 1
      <4>1. PICK n \in Nat : n = Len(stack[t]) /\ i \in 1..n
        BY <2>1 DEF Chain
      <4>2. i - 1 \in 1..(Len(stack[t]) - 1) /\ (i - 1) + 1 = i
        BY <3>1, <4>1
      <4>3. Over(stack[t][i - 1], g)
        BY <2>1, <2>2, <4>2 DEF Chain
      <4> QED BY <2>4, <4>3 DEF Over, Vector
    <3> QED BY <3>1
  <2>6. t = running
    BY <1>1, <2>2, <2>3, <2>5 DEF FlagInv, Left
  <2>7. ~NeedsFlag(g)
    BY <2>2, <2>3, <2>4, FlagNeeded DEF Vector
  <2>8. intr = FALSE
    BY <1>1, <2>2, <2>5, <2>6, <2>7, TopKnown DEF Top
  <2> QED BY <2>1, <2>5, <2>6, <2>8
<1> QED BY <1>1, FlagInvariant, PTL

\* The flag is right for what runs, and every frame will leave it right for the
\* frame below, although switch_to does not save it.
THEOREM FlagFollowsContextHolds == Spec => []FlagFollowsContext
<1>1. ASSUME FlagInv PROVE FlagFollowsContext
  <2>1. intr = NeedsFlag(Head(stack[running]))
    <3>1. Top \in KnownFrame /\ Top = Head(stack[running]) /\ intr \in BOOLEAN
          /\ (intr = TRUE <=> NeedsFlag(Top))
      BY <1>1, TopKnown
    <3>2. NeedsFlag(Top) \in BOOLEAN
      <4>1. Top.fn \in Calls \cup Vector \cup {"body", "syscall"} /\ Top.saved \in BOOLEAN
        BY <3>1, FrameKnown
      <4> QED BY <4>1 DEF NeedsFlag, Calls, Vector
    <3> QED BY <3>1, <3>2
  <2>2. ASSUME NEW f \in Frames, f[2] < Len(stack[f[1]])
        PROVE  FrameAt(f).saved = NeedsFlag(stack[f[1]][f[2] + 1])
    <3>1. PICK t \in Thread, i \in Nat :
                /\ i \in 1..Len(stack[t]) /\ f = <<t, i>> /\ FrameAt(f) = stack[t][i] /\ FrameAt(f) \in KnownFrame
                /\ Chain(stack[t]) /\ stack[t] \in Seq(KnownFrame)
      BY <1>1, FrameOf
    <3>2. PICK n \in Nat : n = Len(stack[t]) /\ i < n /\ i \in 1..n
      BY <2>2, <3>1 DEF Chain
    <3>3. i \in 1..(Len(stack[t]) - 1) /\ i + 1 \in 1..Len(stack[t])
      BY <3>2
    <3>4. PICK l \in KnownFrame : l = stack[t][i + 1]
      BY <3>1, <3>3, ElementOfSeq
    <3>5. Over(stack[t][i], l)
      BY <3>1, <3>3, <3>4 DEF Chain
    <3>6. NeedsFlag(l) \in BOOLEAN
      <4>1. l.fn \in Calls \cup Vector \cup {"body", "syscall"} /\ l.saved \in BOOLEAN
        BY FrameKnown
      <4> QED BY <4>1 DEF NeedsFlag, Calls, Vector
    <3>7. FrameAt(f).saved = NeedsFlag(l)
      BY <3>1, <3>5, <3>6 DEF Over
    <3> QED BY <3>1, <3>4, <3>7
  <2> QED BY <1>1, <2>1, <2>2, FramesTyped DEF FlagFollowsContext
<1> QED BY <1>1, FlagInvariant, PTL

-----------------------------------------------------------------------------
(* Timer.                                                                  *)

\* Unsigned subtraction, and counting, modulo the width.
LEMMA Wraps ==
    ASSUME NEW w \in Nat \ {0}
    PROVE  /\ \A n \in 0..(w - 1) : n % w = n /\ (n - w) % w = n
           /\ w % w = 0
<1>1. ASSUME NEW n \in 0..(w - 1) PROVE n % w = n
  OBVIOUS
<1>2. ASSUME NEW n \in 0..(w - 1) PROVE (n - w) % w = n
  OBVIOUS
<1>3. w % w = 0
  OBVIOUS
<1> QED BY <1>1, <1>2, <1>3

LEMMA Divides ==
    ASSUME NEW T \in Nat \ {0}, NEW n \in Nat
    PROVE  n \div T \in Nat /\ (n \div T) * T <= n /\ n < (n \div T) * T + T
OBVIOUS

LEMMA Times ==
    ASSUME NEW T \in Nat, NEW a \in Nat, NEW b \in Nat
    PROVE  /\ a * T \in Nat /\ (a + 1) * T = a * T + T
           /\ a <= b => a * T <= b * T
<1>1. a * T \in Nat /\ (a + 1) * T = a * T + T
  OBVIOUS
<1>2. ASSUME a <= b PROVE a * T <= b * T
  <2>1. PICK d \in Nat : b = a + d
    <3>1. b - a \in Nat /\ b = a + (b - a)
      BY <1>2
    <3> QED BY <3>1
  <2>2. b * T = a * T + d * T /\ d * T \in Nat /\ a * T \in Nat
    BY <2>1
  <2> QED BY <2>2
<1> QED BY <1>1, <1>2

\* What StillWaiting compares with sleep_ticks.
Elapsed == IF jiffies >= start_ticks THEN jiffies - start_ticks ELSE jiffies - start_ticks + Word

TimerTypes ==
    /\ jiffies \in 0..(Word - 1) /\ start_ticks \in 0..(Word - 1) /\ phase \in 0..(SYS_TICK_US - 1)
    /\ sleep_ticks \in Nat /\ asked \in Nat /\ slept \in Nat /\ ticks \in Nat
\* The counter has moved on by the ticks of the sleep, until it comes round.
CountsTicks == Elapsed <= ticks /\ (ticks < Word => Elapsed = ticks)
\* A sleep that began inside a tick is ahead of its ticks by less than one.
AheadOfTicks == slept + SYS_TICK_US > ticks * SYS_TICK_US + phase
\* What the conversions round down.
RoundedDown == asked < Word => (sleep_ticks + 1) * SYS_TICK_US > asked
TimerInv ==
    /\ TimerTypes
    /\ Sleeping => CountsTicks /\ AheadOfTicks /\ RoundedDown

LEMMA ElapsedIs ==
    ASSUME TimerTypes
    PROVE  (jiffies - start_ticks) % Word = Elapsed
<1>1. Word \in Nat \ {0} /\ jiffies \in 0..(Word - 1) /\ start_ticks \in 0..(Word - 1)
  BY TimerAssumption DEF TimerTypes
<1>2. CASE jiffies >= start_ticks
  <2>1. jiffies - start_ticks \in 0..(Word - 1)
    BY <1>1, <1>2
  <2> QED BY <1>1, <1>2, <2>1, Wraps DEF Elapsed
<1>3. CASE ~(jiffies >= start_ticks)
  <2>1. PICK e \in 0..(Word - 1) : e = jiffies - start_ticks + Word
    BY <1>1, <1>3
  <2>2. jiffies - start_ticks = e - Word
    BY <1>1, <2>1
  <2> QED BY <1>1, <1>3, <2>1, <2>2, Wraps DEF Elapsed
<1> QED BY <1>2, <1>3

LEMMA TimerStarts == TimerInit => TimerInv
<1> SUFFICES ASSUME TimerInit PROVE TimerInv
  OBVIOUS
<1>1. Word \in Nat \ {0} /\ SYS_TICK_US \in Nat \ {0}
  BY TimerAssumption
<1>2. 0 \in 0..(Word - 1) /\ 0 \in 0..(SYS_TICK_US - 1)
  BY <1>1
<1> QED BY <1>2 DEF TimerInit, TimerInv, TimerTypes, Sleeping

LEMMA TimerMicrosecond ==
    ASSUME TimerInv, Microsecond
    PROVE  TimerInv'
<1>1. Word \in Nat \ {0} /\ SYS_TICK_US \in Nat \ {0} /\ TimerTypes
  BY TimerAssumption DEF TimerInv
<1>2. UNCHANGED <<pc, asked, start_ticks, sleep_ticks>> /\ (Sleeping' <=> Sleeping)
  BY DEF Microsecond, sleepvars, Sleeping
<1>3. CASE phase + 1 # SYS_TICK_US
  <2>1. /\ phase' = phase + 1 /\ jiffies' = jiffies /\ ticks' = ticks
        /\ slept' = IF Sleeping THEN slept + 1 ELSE slept
    BY <1>3 DEF Microsecond
  <2>2. TimerTypes'
    BY <1>1, <1>2, <1>3, <2>1 DEF TimerTypes
  <2>3. Sleeping => CountsTicks' /\ RoundedDown'
    BY <1>2, <2>1 DEF TimerInv, CountsTicks, Elapsed, RoundedDown
  <2>4. ASSUME Sleeping PROVE AheadOfTicks'
    <3>1. PICK m \in Nat : m = ticks * SYS_TICK_US
      BY <1>1, Times DEF TimerTypes
    <3> QED BY <1>1, <2>1, <2>4, <3>1 DEF TimerInv, AheadOfTicks, TimerTypes
  <2> QED BY <1>2, <2>2, <2>3, <2>4 DEF TimerInv
<1>4. CASE phase + 1 = SYS_TICK_US
  <2>1. /\ phase' = 0 /\ jiffies' = (jiffies + 1) % Word
        /\ ticks' = (IF Sleeping THEN ticks + 1 ELSE ticks)
        /\ slept' = IF Sleeping THEN slept + 1 ELSE slept
    BY <1>4 DEF Microsecond
  <2>2. jiffies' = IF jiffies + 1 = Word THEN 0 ELSE jiffies + 1
    <3>1. CASE jiffies + 1 = Word
      BY <1>1, <2>1, <3>1, Wraps
    <3>2. CASE jiffies + 1 # Word
      <4>1. jiffies + 1 \in 0..(Word - 1)
        BY <1>1, <3>2 DEF TimerTypes
      <4> QED BY <1>1, <2>1, <3>2, <4>1, Wraps
    <3> QED BY <3>1, <3>2
  <2>3. TimerTypes'
    BY <1>1, <1>2, <2>1, <2>2 DEF TimerTypes
  <2>4. ASSUME Sleeping PROVE CountsTicks'
    BY <1>1, <1>2, <2>1, <2>2, <2>4 DEF TimerInv, TimerTypes, CountsTicks, Elapsed
  <2>5. Sleeping => RoundedDown'
    BY <1>2 DEF TimerInv, RoundedDown
  <2>6. ASSUME Sleeping PROVE AheadOfTicks'
    <3>1. PICK m \in Nat : m = ticks * SYS_TICK_US /\ (ticks + 1) * SYS_TICK_US = m + SYS_TICK_US
      BY <1>1, Times DEF TimerTypes
    <3>2. slept + SYS_TICK_US > m + phase
      BY <2>6, <3>1 DEF TimerInv, AheadOfTicks
    <3>3. ticks' * SYS_TICK_US = m + SYS_TICK_US /\ slept' = slept + 1
      BY <2>1, <2>6, <3>1
    <3> QED BY <1>1, <1>4, <2>1, <3>1, <3>2, <3>3 DEF AheadOfTicks, TimerTypes
  <2> QED BY <1>2, <2>3, <2>4, <2>5, <2>6 DEF TimerInv
<1> QED BY <1>3, <1>4

LEMMA TimerBegins ==
    ASSUME TimerInv, NEW len \in Lengths, msleep(len) \/ usleep(len)
    PROVE  TimerInv'
<1>1. /\ Word \in Nat \ {0} /\ SYS_TICK_US \in Nat \ {0} /\ MS_US \in Nat \ {0} /\ TimerTypes
      /\ len \in Nat
  BY TimerAssumption DEF TimerInv
<1>2. /\ jiffies' = jiffies /\ phase' = phase /\ start_ticks' = jiffies
      /\ slept' = 0 /\ ticks' = 0
  BY DEF msleep, usleep, BeginSleep
<1>3. PICK n \in Nat :
         /\ asked' = n
         /\ \E k \in Nat : sleep_ticks' = k \div SYS_TICK_US /\ (n < Word => k = n)
  <2>1. CASE msleep(len)
    <3>1. PICK n \in Nat : n = len * MS_US
      BY <1>1, Times
    <3>2. n % Word \in Nat /\ (n < Word => n % Word = n)
      <4>1. n % Word \in Nat
        BY <1>1
      <4>2. n < Word => n % Word = n
        BY <1>1, Wraps
      <4> QED BY <4>1, <4>2
    <3>3. asked' = n /\ sleep_ticks' = (n % Word) \div SYS_TICK_US
      BY <2>1, <3>1 DEF msleep, BeginSleep, msecs_to_jiffies
    <3> QED BY <3>2, <3>3
  <2>2. CASE usleep(len)
    BY <1>1, <2>2 DEF usleep, BeginSleep, usecs_to_jiffies
  <2> QED BY <2>1, <2>2
<1>4. PICK k \in Nat : sleep_ticks' = k \div SYS_TICK_US /\ (n < Word => k = n)
  BY <1>3
<1>5. sleep_ticks' \in Nat /\ k < sleep_ticks' * SYS_TICK_US + SYS_TICK_US
  BY <1>1, <1>4, Divides
<1>6. (sleep_ticks' + 1) * SYS_TICK_US = sleep_ticks' * SYS_TICK_US + SYS_TICK_US
  BY <1>1, <1>5, Times
<1>7. RoundedDown'
  BY <1>3, <1>4, <1>5, <1>6 DEF RoundedDown
<1>8. CountsTicks'
  BY <1>1, <1>2 DEF CountsTicks, Elapsed, TimerTypes
<1>9. AheadOfTicks'
  <2>1. 0 * SYS_TICK_US = 0
    BY <1>1
  <2> QED BY <1>1, <1>2, <2>1 DEF AheadOfTicks, TimerTypes
<1>10. TimerTypes'
  BY <1>1, <1>2, <1>3, <1>5 DEF TimerTypes
<1> QED BY <1>7, <1>8, <1>9, <1>10 DEF TimerInv

LEMMA TimerStep == TimerInv /\ [TimerNext]_timervars => TimerInv'
<1> SUFFICES ASSUME TimerInv, [TimerNext]_timervars PROVE TimerInv'
  OBVIOUS
<1>1. CASE WakeUp
  BY <1>1 DEF WakeUp, sleepvars, TimerInv, TimerTypes, Sleeping
<1>2. CASE UNCHANGED timervars
  BY <1>2 DEF timervars, TimerInv, TimerTypes, Sleeping, CountsTicks, Elapsed, AheadOfTicks, RoundedDown
<1> QED BY <1>1, <1>2, TimerMicrosecond, TimerBegins DEF TimerNext

THEOREM TimerInvariant == TimerSpec => []TimerInv
BY TimerStarts, TimerStep, PTL DEF TimerSpec

\* The loop of msleep and usleep ends after its ticks and not before, wherever
\* the counter started and wrapped.
THEOREM WaitsItsTicksHolds == TimerSpec => []WaitsItsTicks
<1>1. ASSUME TimerInv PROVE WaitsItsTicks
  <2>1. StillWaiting <=> Elapsed < sleep_ticks
    BY <1>1, ElapsedIs DEF TimerInv, StillWaiting
  <2>2. Elapsed \in Nat /\ ticks \in Nat /\ sleep_ticks \in Nat
    BY <1>1, TimerAssumption DEF TimerInv, TimerTypes, Elapsed
  <2> QED BY <1>1, <2>1, <2>2 DEF TimerInv, CountsTicks, WaitsItsTicks
<1> QED BY <1>1, TimerInvariant, PTL

\* A sleep is short of what it asked for by less than two ticks, whatever the
\* tick, the millisecond and the moment it began.
THEOREM ShortByUnderTwoTicksHolds == TimerSpec => ShortByUnderTwoTicks
<1>1. TimerInv /\ [TimerNext]_timervars
        => [WakeUp => slept + 2 * SYS_TICK_US > asked \/ asked >= Word]_timervars
  <2> SUFFICES ASSUME TimerInv, WakeUp, ~(asked >= Word)
               PROVE  slept + 2 * SYS_TICK_US > asked
    OBVIOUS
  <2>1. TimerTypes /\ CountsTicks /\ AheadOfTicks /\ RoundedDown /\ ~StillWaiting
    BY DEF TimerInv, WakeUp
  <2>2. Elapsed \in Nat /\ ~(Elapsed < sleep_ticks)
    BY <2>1, ElapsedIs, TimerAssumption DEF StillWaiting, TimerTypes, Elapsed
  <2>3. sleep_ticks <= ticks
    BY <2>1, <2>2 DEF TimerTypes, CountsTicks
  <2>4. PICK T \in Nat \ {0} : T = SYS_TICK_US
    BY TimerAssumption
  <2>5. PICK m \in Nat : m = ticks * T
    BY <2>1, <2>4, Times DEF TimerTypes
  <2>6. PICK p \in Nat : p = sleep_ticks * T /\ (sleep_ticks + 1) * T = p + T /\ p <= m
    BY <2>1, <2>3, <2>4, <2>5, Times DEF TimerTypes
  <2>7. asked < Word /\ p + T > asked
    BY <2>1, <2>4, <2>6, TimerAssumption DEF RoundedDown, TimerTypes
  <2>8. slept + T > m + phase
    BY <2>1, <2>4, <2>5 DEF AheadOfTicks
  <2>9. phase \in Nat /\ slept \in Nat /\ asked \in Nat
    BY <2>1, TimerAssumption DEF TimerTypes
  <2> QED BY <2>4, <2>5, <2>6, <2>7, <2>8, <2>9
<1> QED BY <1>1, TimerInvariant, PTL DEF TimerSpec, ShortByUnderTwoTicks
=============================================================================
