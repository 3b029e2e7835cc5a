---------------------------- MODULE SemaphoreProofs ----------------------------
(***************************************************************************)
(* The semaphore for any number of threads, permits and interrupts: its     *)
(* spinlock excludes threads and handlers from one another, count-- and     *)
(* count++ lose no permit, and sema_up reaches live waiters only.  None of  *)
(* it needs Thread to be finite: each step adds at most one interrupt and   *)
(* takes at most one permit.                                                *)
(***************************************************************************)
EXTENDS Semaphore, RoundRobinProofs, FiniteSetTheorems

\* Contexts are pairs.
LEMMA Contexts ==
    /\ \A t \in Thread : /\ Own(t) \in Context /\ Own(t)[1] = t /\ Own(t)[2] = "thread"
                         /\ Irq(t) \in Context /\ Irq(t)[1] = t /\ Irq(t)[2] = "irq"
    /\ \A c \in Context : /\ c[1] \in Thread
                          /\ \/ c[2] = "thread" /\ c = Own(c[1])
                             \/ c[2] = "irq" /\ c = Irq(c[1])
BY DEF Context, Own, Irq

SemaTypes ==
    /\ slock \in {0, 1}
    /\ count \in Nat /\ given \in Nat /\ spent \in Nat
    /\ wait_list \in Seq(Thread)
    /\ op \in [Thread -> {"down", "up"}]
    /\ pc \in [Context -> PcLabel]
    /\ reg \in [Context -> Nat]
    /\ wakee \in [Context -> Thread \cup {NULL}]

\* The labels a context reaches are those of the function it is in.
LabelsAgree ==
    \A c \in Context :
        /\ pc[c] \in {"test", "take", "dec", "took", "park", "parked", "block", "cs"} => ~Upping(c)
        /\ pc[c] \in {"load", "inc", "pop", "wake", "release"} => Upping(c)

Excludes ==
    /\ \A c, d \in Context : HoldsSlock(c) /\ HoldsSlock(d) => c = d
    /\ slock = 1 <=> \E c \in Context : HoldsSlock(c)

\* Between the load and the store of count-- or count++ nobody else stores, and
\* the test of sema_down still holds at its count--.
RegAgrees ==
    \A c \in Context :
        /\ pc[c] \in {"dec", "inc"} => reg[c] = count
        /\ pc[c] \in {"take", "dec"} => count > 0

HoldInv == SemaTypes /\ pc[Own(Idle)] = "out" /\ LabelsAgree /\ Excludes /\ RegAgrees

-----------------------------------------------------------------------------
LEMMA GoEffect ==
    ASSUME pc \in [Context -> PcLabel], NEW c \in Context, NEW a, NEW b, Go(c, a, b)
    PROVE  /\ pc[c] = a /\ pc'[c] = b /\ running = c[1]
           /\ \A d \in Context \ {c} : pc'[d] = pc[d]
           /\ b \in PcLabel => pc' \in [Context -> PcLabel]
BY DEF Go

\* A context takes a step.
DownStep(t) ==
    \/ DownEnter(t) \/ DownTest(t) \/ DownTake(t) \/ DownDec(t) \/ DownTook(t)
    \/ DownPark(t) \/ DownParked(t) \/ DownBlock(t) \/ UpEnter(t) \/ Consume(t)
Does(c) ==
    \/ Step(c)
    \/ c[2] = "thread" /\ DownStep(c[1])
    \/ c[2] = "irq" /\ Interrupt(c[1])

LEMMA NextIsDoes ==
    [Next]_vars => \/ \E c \in Context : Does(c)
                   \/ UNCHANGED semavars /\ (UNCHANGED rrvars \/ Rotate \/ (running = Idle /\ Sleep)
                                              \/ \E t \in Thread : Start(t))
<1> SUFFICES ASSUME Next PROVE \/ \E c \in Context : Does(c)
                               \/ UNCHANGED semavars /\ (UNCHANGED rrvars \/ Rotate
                                     \/ (running = Idle /\ Sleep) \/ \E t \in Thread : Start(t))
  BY DEF vars
<1>1. ASSUME NEW t \in Thread, ThreadStep(t) PROVE Does(Own(t)) \/ Does(Irq(t))
  BY <1>1, Contexts DEF ThreadStep, Does, DownStep
<1> QED BY <1>1, Contexts DEF Next, Does, Spawn, IdleBlock, Preempt

\* It is the running thread's, or a handler's on its stack, and leaves the
\* label, register and local variable of every other context alone.
LEMMA Local ==
    ASSUME SemaTypes, NEW c \in Context, Does(c)
    PROVE  /\ running = c[1]
           /\ \A d \in Context \ {c} : /\ pc'[d] = pc[d] /\ (Upping(d)' <=> Upping(d))
                                       /\ reg'[d] = reg[d] /\ wakee'[d] = wakee[d]
<1>1. /\ pc \in [Context -> PcLabel] /\ reg \in [Context -> Nat]
      /\ wakee \in [Context -> Thread \cup {NULL}] /\ op \in [Thread -> {"down", "up"}]
  BY DEF SemaTypes
<1>2. CASE Step(c)
  <2>1. op' = op
    BY <1>2 DEF Step, SpinXchg, SpinTest, SpinYield, UpLoad, UpInc, UpPop, UpWake, UpRelease, SpinUnlock
  <2>2. running = c[1] /\ \A d \in Context \ {c} : pc'[d] = pc[d]
    BY <1>1, <1>2
    DEF Step, SpinXchg, SpinTest, SpinYield, UpLoad, UpInc, UpPop, UpWake, UpRelease, SpinUnlock, Go
  <2>3. \A d \in Context \ {c} : reg'[d] = reg[d] /\ wakee'[d] = wakee[d]
    BY <1>1, <1>2
    DEF Step, SpinXchg, SpinTest, SpinYield, UpLoad, UpInc, UpPop, UpWake, UpRelease, SpinUnlock
  <2> QED BY <2>1, <2>2, <2>3 DEF Upping
<1>3. CASE c[2] = "irq" /\ Interrupt(c[1])
  <2>1. c = Irq(c[1]) /\ Go(c, "out", "xchg") /\ op' = op /\ reg' = reg /\ wakee' = wakee
    BY <1>3, Contexts DEF Interrupt
  <2> QED BY <1>1, <2>1, GoEffect DEF Upping
<1>4. CASE c[2] = "thread" /\ DownStep(c[1])
  <2>1. PICK t \in Thread : t = c[1] /\ c = Own(t) /\ DownStep(t)
    BY <1>4, Contexts
  <2>2. running = c[1] /\ \A d \in Context \ {c} : pc'[d] = pc[d]
    <3>1. \E a, b : Go(Own(t), a, b)
      BY <2>1
      DEF DownStep, DownEnter, DownTest, DownTake, DownDec, DownTook, DownPark, DownParked, DownBlock,
          UpEnter, Consume, SpinUnlock
    <3> QED BY <1>1, <2>1, <3>1, GoEffect
  <2>3. wakee' = wakee /\ \A d \in Context \ {c} : reg'[d] = reg[d]
    BY <1>1, <2>1
    DEF DownStep, DownEnter, DownTest, DownTake, DownDec, DownTook, DownPark, DownParked, DownBlock,
        UpEnter, Consume, SpinUnlock
  <2>4. \A u \in Thread \ {t} : op'[u] = op[u]
    BY <1>1, <2>1
    DEF DownStep, DownEnter, DownTest, DownTake, DownDec, DownTook, DownPark, DownParked, DownBlock,
        UpEnter, Consume, SpinUnlock
  <2>5. \A d \in Context \ {c} : d[2] = "irq" \/ d[1] \in Thread \ {t}
    BY <2>1, Contexts
  <2> QED BY <2>2, <2>3, <2>4, <2>5 DEF Upping
<1> QED BY <1>2, <1>3, <1>4 DEF Does

-----------------------------------------------------------------------------
(* Exclusion.                                                              *)

LEMMA HoldInit == Init => HoldInv
<1> SUFFICES ASSUME Init PROVE HoldInv
  OBVIOUS
<1>1. SemaTypes
  BY SemaAssumption, EmptySeq DEF Init, SemaTypes, PcLabel
<1>2. \A c \in Context : pc[c] = "out"
  BY DEF Init
<1>3. slock = 0 /\ Own(Idle) \in Context
  BY ThreadAssumption, Contexts DEF Init
<1> QED BY <1>1, <1>2, <1>3 DEF HoldInv, LabelsAgree, Excludes, RegAgrees, HoldsSlock

\* A thread's own step, by its parts.
LEMMA DownIs ==
    ASSUME NEW c \in Context, c[2] = "thread", DownStep(c[1])
    PROVE  \E t \in Thread : t = c[1] /\ c = Own(t) /\ DownStep(t)
BY Contexts

LEMMA HoldTypes ==
    ASSUME HoldInv, NEW c \in Context, Does(c)
    PROVE  SemaTypes'
<1>1. /\ slock \in {0, 1} /\ count \in Nat /\ given \in Nat /\ spent \in Nat
      /\ wait_list \in Seq(Thread) /\ op \in [Thread -> {"down", "up"}]
      /\ pc \in [Context -> PcLabel] /\ reg \in [Context -> Nat]
      /\ wakee \in [Context -> Thread \cup {NULL}] /\ RegAgrees
  BY DEF HoldInv, SemaTypes
<1>2. CASE Step(c)
  <2>1. pc' \in [Context -> PcLabel]
    BY <1>1, <1>2
    DEF Step, SpinXchg, SpinTest, SpinYield, UpLoad, UpInc, UpPop, UpWake, UpRelease, SpinUnlock,
        Go, Inside, PcLabel
  <2>2. /\ slock' \in {0, 1} /\ given' \in Nat /\ spent' \in Nat /\ op' \in [Thread -> {"down", "up"}]
    BY <1>1, <1>2
    DEF Step, SpinXchg, SpinTest, SpinYield, UpLoad, UpInc, UpPop, UpWake, UpRelease, SpinUnlock
  <2>3. count' \in Nat /\ reg' \in [Context -> Nat]
    BY <1>1, <1>2
    DEF Step, SpinXchg, SpinTest, SpinYield, UpLoad, UpInc, UpPop, UpWake, UpRelease, SpinUnlock
  <2>4. wait_list # <<>> => Head(wait_list) \in Thread /\ Tail(wait_list) \in Seq(Thread)
    BY <1>1, HeadTailProperties
  <2>5. wait_list' \in Seq(Thread) /\ wakee' \in [Context -> Thread \cup {NULL}]
    BY <1>1, <1>2, <2>4
    DEF Step, SpinXchg, SpinTest, SpinYield, UpLoad, UpInc, UpPop, UpWake, UpRelease, SpinUnlock
  <2> QED BY <2>1, <2>2, <2>3, <2>5 DEF SemaTypes
<1>3. CASE c[2] = "irq" /\ Interrupt(c[1])
  <2>1. c = Irq(c[1]) /\ Go(c, "out", "xchg")
    BY <1>3, Contexts DEF Interrupt
  <2>2. pc' \in [Context -> PcLabel]
    BY <1>1, <2>1, GoEffect DEF PcLabel
  <2> QED BY <1>1, <1>3, <2>2 DEF Interrupt, SemaTypes
<1>4. CASE c[2] = "thread" /\ DownStep(c[1])
  <2>1. PICK t \in Thread : t = c[1] /\ c = Own(t) /\ DownStep(t)
    BY <1>4, DownIs
  <2>2. pc' \in [Context -> PcLabel]
    BY <1>1, <2>1
    DEF DownStep, DownEnter, DownTest, DownTake, DownDec, DownTook, DownPark, DownParked, DownBlock,
        UpEnter, Consume, SpinUnlock, Go, PcLabel
  <2>3. slock' \in {0, 1} /\ given' \in Nat /\ wakee' \in [Context -> Thread \cup {NULL}]
    BY <1>1, <2>1
    DEF DownStep, DownEnter, DownTest, DownTake, DownDec, DownTook, DownPark, DownParked, DownBlock,
        UpEnter, Consume, SpinUnlock
  <2>4. spent' \in Nat
    <3>1. spent' = spent \/ spent' = spent + 1
      BY <2>1
      DEF DownStep, DownEnter, DownTest, DownTake, DownDec, DownTook, DownPark, DownParked, DownBlock,
          UpEnter, Consume, SpinUnlock
    <3> QED BY <1>1, <3>1
  <2>5. op' \in [Thread -> {"down", "up"}]
    <3>1. op' = op \/ op' = [op EXCEPT ![t] = "down"] \/ op' = [op EXCEPT ![t] = "up"]
      BY <2>1
      DEF DownStep, DownEnter, DownTest, DownTake, DownDec, DownTook, DownPark, DownParked, DownBlock,
          UpEnter, Consume, SpinUnlock
    <3> QED BY <1>1, <3>1
  <2>6. wait_list' \in Seq(Thread)
    <3>1. Append(wait_list, t) \in Seq(Thread)
      BY <1>1, AppendProperties
    <3>2. wait_list' = wait_list \/ wait_list' = Append(wait_list, t)
      BY <2>1
      DEF DownStep, DownEnter, DownTest, DownTake, DownDec, DownTook, DownPark, DownParked, DownBlock,
          UpEnter, Consume, SpinUnlock
    <3> QED BY <1>1, <3>1, <3>2
  <2>7. reg' \in [Context -> Nat]
    BY <1>1, <2>1
    DEF DownStep, DownEnter, DownTest, DownTake, DownDec, DownTook, DownPark, DownParked, DownBlock,
        UpEnter, Consume, SpinUnlock
  <2>8. count' \in Nat
    <3>1. CASE DownDec(t)
      <4>1. pc[c] = "dec" /\ count' = reg[c] - 1
        BY <2>1, <3>1 DEF DownDec, Go
      <4>2. reg[c] = count /\ count > 0
        BY <1>1, <4>1 DEF RegAgrees
      <4> QED BY <1>1, <4>1, <4>2
    <3>2. CASE ~DownDec(t)
      BY <1>1, <2>1, <3>2
      DEF DownStep, DownEnter, DownTest, DownTake, DownTook, DownPark, DownParked, DownBlock,
          UpEnter, Consume, SpinUnlock
    <3> QED BY <3>1, <3>2
  <2> QED BY <2>2, <2>3, <2>6, <2>7, <2>8, <2>4, <2>5 DEF SemaTypes
<1> QED BY <1>2, <1>3, <1>4 DEF Does

\* The three ways a step can affect who is inside the spinlock.
LEMMA HoldChange ==
    ASSUME HoldInv, NEW c \in Context, Does(c)
    PROVE  \/ (HoldsSlock(c)' <=> HoldsSlock(c)) /\ slock' = slock
           \/ ~HoldsSlock(c) /\ slock # 1 /\ HoldsSlock(c)' /\ slock' = 1
           \/ HoldsSlock(c) /\ ~HoldsSlock(c)' /\ slock' = 0
<1>1. pc \in [Context -> PcLabel] /\ slock \in {0, 1}
  BY DEF HoldInv, SemaTypes
<1>2. CASE Step(c)
  BY <1>1, <1>2
  DEF Step, SpinXchg, SpinTest, SpinYield, UpLoad, UpInc, UpPop, UpWake, UpRelease, SpinUnlock,
      Go, Inside, HoldsSlock
<1>3. CASE c[2] = "irq" /\ Interrupt(c[1])
  <2>1. Go(c, "out", "xchg") /\ slock' = slock
    BY <1>3, Contexts DEF Interrupt
  <2> QED BY <1>1, <2>1, GoEffect DEF HoldsSlock
<1>4. CASE c[2] = "thread" /\ DownStep(c[1])
  <2>1. PICK t \in Thread : t = c[1] /\ c = Own(t) /\ DownStep(t)
    BY <1>4, DownIs
  <2> QED
    BY <1>1, <2>1
    DEF DownStep, DownEnter, DownTest, DownTake, DownDec, DownTook, DownPark, DownParked, DownBlock,
        UpEnter, Consume, SpinUnlock, Go, HoldsSlock
<1> QED BY <1>2, <1>3, <1>4 DEF Does

LEMMA HoldExcludes ==
    ASSUME HoldInv, NEW c \in Context, Does(c)
    PROVE  Excludes'
<1>1. \A d \in Context \ {c} : HoldsSlock(d)' <=> HoldsSlock(d)
  BY Local DEF HoldInv, HoldsSlock
<1>2. Excludes
  BY DEF HoldInv
<1>3. CASE (HoldsSlock(c)' <=> HoldsSlock(c)) /\ slock' = slock
  BY <1>1, <1>2, <1>3 DEF Excludes
<1>4. CASE ~HoldsSlock(c) /\ slock # 1 /\ HoldsSlock(c)' /\ slock' = 1
  BY <1>1, <1>2, <1>4 DEF Excludes
<1>5. CASE HoldsSlock(c) /\ ~HoldsSlock(c)' /\ slock' = 0
  BY <1>1, <1>2, <1>5 DEF Excludes
<1> QED BY <1>3, <1>4, <1>5, HoldChange

\* What the step of a context leaves to it: labels of its function, and a
\* register that agrees with count.
LEMMA HoldLabels ==
    ASSUME HoldInv, NEW c \in Context, Does(c)
    PROVE  LabelsAgree'
<1>1. /\ pc \in [Context -> PcLabel] /\ op \in [Thread -> {"down", "up"}] /\ LabelsAgree /\ SemaTypes
  BY DEF HoldInv, SemaTypes
<1>2. /\ pc'[c] \in {"test", "take", "dec", "took", "park", "parked", "block", "cs"} => ~Upping(c)'
      /\ pc'[c] \in {"load", "inc", "pop", "wake", "release"} => Upping(c)'
  <2>1. CASE Step(c)
    <3>1. Upping(c)' <=> Upping(c)
      BY <2>1
      DEF Step, SpinXchg, SpinTest, SpinYield, UpLoad, UpInc, UpPop, UpWake, UpRelease, SpinUnlock,
          Upping
    <3>2. \/ pc'[c] \in {"spin", "xchg", "yield", "out"}
          \/ pc'[c] = "load" /\ Upping(c)
          \/ pc'[c] = "test" /\ ~Upping(c)
          \/ pc'[c] \in {"inc", "pop", "wake", "release"} /\ pc[c] \in {"load", "inc", "pop", "wake"}
      BY <1>1, <2>1
      DEF Step, SpinXchg, SpinTest, SpinYield, UpLoad, UpInc, UpPop, UpWake, UpRelease, SpinUnlock,
          Go, Inside
    <3> QED BY <1>1, <3>1, <3>2 DEF LabelsAgree
  <2>2. CASE c[2] = "irq" /\ Interrupt(c[1])
    <3>1. Go(c, "out", "xchg")
      BY <2>2, Contexts DEF Interrupt
    <3> QED BY <1>1, <3>1, GoEffect
  <2>3. CASE c[2] = "thread" /\ DownStep(c[1])
    <3>1. PICK t \in Thread : t = c[1] /\ c = Own(t) /\ DownStep(t)
      BY <2>3, DownIs
    <3>2. \/ pc'[c] \in {"xchg", "out"}
          \/ /\ pc'[c] \in {"take", "dec", "took", "park", "parked", "block", "cs"}
             /\ pc[c] \in {"test", "take", "dec", "took", "park", "parked"} /\ op' = op
      BY <1>1, <3>1
      DEF DownStep, DownEnter, DownTest, DownTake, DownDec, DownTook, DownPark, DownParked, DownBlock,
          UpEnter, Consume, SpinUnlock, Go
    <3> QED BY <1>1, <3>2 DEF LabelsAgree, Upping
  <2> QED BY <2>1, <2>2, <2>3 DEF Does
<1> QED BY <1>1, <1>2, Local DEF LabelsAgree

LEMMA HoldRegs ==
    ASSUME HoldInv, NEW c \in Context, Does(c)
    PROVE  RegAgrees'
<1>1. /\ pc \in [Context -> PcLabel] /\ reg \in [Context -> Nat] /\ count \in Nat
      /\ RegAgrees /\ SemaTypes /\ Excludes
  BY DEF HoldInv, SemaTypes
<1>2. /\ pc'[c] \in {"dec", "inc"} => reg'[c] = count'
      /\ pc'[c] \in {"take", "dec"} => count' > 0
      /\ count' # count => HoldsSlock(c)
  <2>1. CASE Step(c)
    <3>1. /\ pc'[c] \notin {"take", "dec"} /\ (pc'[c] = "inc" => reg'[c] = count')
      BY <1>1, <2>1
      DEF Step, SpinXchg, SpinTest, SpinYield, UpLoad, UpInc, UpPop, UpWake, UpRelease, SpinUnlock,
          Go, Inside
    <3>2. count' # count => pc[c] = "inc"
      BY <1>1, <2>1
      DEF Step, SpinXchg, SpinTest, SpinYield, UpLoad, UpInc, UpPop, UpWake, UpRelease, SpinUnlock, Go
    <3> QED BY <3>1, <3>2 DEF HoldsSlock
  <2>2. CASE c[2] = "irq" /\ Interrupt(c[1])
    <3>1. Go(c, "out", "xchg") /\ count' = count
      BY <2>2, Contexts DEF Interrupt
    <3> QED BY <1>1, <3>1, GoEffect
  <2>3. CASE c[2] = "thread" /\ DownStep(c[1])
    <3>1. PICK t \in Thread : t = c[1] /\ c = Own(t) /\ DownStep(t)
      BY <2>3, DownIs
    <3>2. /\ pc'[c] # "inc" /\ (pc'[c] = "take" => count > 0 /\ count' = count)
          /\ pc'[c] = "dec" => reg'[c] = count /\ count' = count /\ pc[c] = "take"
          /\ count' # count => pc[c] = "dec"
      BY <1>1, <3>1
      DEF DownStep, DownEnter, DownTest, DownTake, DownDec, DownTook, DownPark, DownParked, DownBlock,
          UpEnter, Consume, SpinUnlock, Go
    <3> QED BY <1>1, <3>2 DEF RegAgrees, HoldsSlock
  <2> QED BY <2>1, <2>2, <2>3 DEF Does
<1>3. \A d \in Context \ {c} : pc'[d] = pc[d] /\ reg'[d] = reg[d]
  BY <1>1, Local
<1>4. count' # count => \A d \in Context \ {c} : pc[d] \notin {"dec", "inc", "take"}
  BY <1>1, <1>2 DEF Excludes, HoldsSlock
<1> QED BY <1>1, <1>2, <1>3, <1>4 DEF RegAgrees

LEMMA HoldStep ==
    ASSUME HoldInv, NEW c \in Context, Does(c)
    PROVE  HoldInv'
<1>1. pc'[Own(Idle)] = "out"
  <2>1. pc[Own(Idle)] = "out" /\ Own(Idle) \in Context
    BY ThreadAssumption, Contexts DEF HoldInv
  <2>2. CASE c = Own(Idle)
    <3>1. ~Step(c)
      BY <2>1, <2>2
      DEF Step, SpinXchg, SpinTest, SpinYield, UpLoad, UpInc, UpPop, UpWake, UpRelease, SpinUnlock, Go
    <3>2. c[2] # "irq" /\ c[1] = Idle
      BY <2>2, Contexts, ThreadAssumption
    <3>3. ~DownStep(Idle)
      BY <2>1
      DEF DownStep, DownEnter, DownTest, DownTake, DownDec, DownTook, DownPark, DownParked, DownBlock,
          UpEnter, Consume, SpinUnlock, Go
    <3> QED BY <3>1, <3>2, <3>3 DEF Does
  <2>3. CASE c # Own(Idle)
    BY <2>1, <2>3, Local DEF HoldInv
  <2> QED BY <2>2, <2>3
<1> QED BY <1>1, HoldTypes, HoldExcludes, HoldLabels, HoldRegs DEF HoldInv

LEMMA HoldNext == HoldInv /\ [Next]_vars => HoldInv'
<1> SUFFICES ASSUME HoldInv, [Next]_vars PROVE HoldInv'
  OBVIOUS
<1>1. CASE UNCHANGED semavars
  <2>1. /\ slock' = slock /\ count' = count /\ wait_list' = wait_list /\ op' = op /\ pc' = pc
        /\ reg' = reg /\ wakee' = wakee /\ given' = given /\ spent' = spent
    BY <1>1 DEF semavars
  <2>2. /\ SemaTypes' /\ LabelsAgree' /\ Excludes' /\ RegAgrees'
    BY <2>1 DEF HoldInv, SemaTypes, LabelsAgree, Upping, Excludes, HoldsSlock, RegAgrees
  <2> QED BY <2>1, <2>2 DEF HoldInv
<1> QED BY <1>1, NextIsDoes, HoldStep

THEOREM HoldInvariant == Spec => []HoldInv
BY HoldInit, HoldNext, PTL DEF Spec

-----------------------------------------------------------------------------
(* Permits.                                                                *)

Holders == {t \in Thread : HasPermit(t)}
InIrqs == {t \in Thread : InIrq(t)}
\* The interrupts that have come and not yet counted their permit.
Pending == {t \in Thread : pc[Irq(t)] \in {"xchg", "spin", "yield", "load", "inc"}}

PermitInv ==
    /\ HoldInv
    /\ IsFiniteSet(Holders) /\ IsFiniteSet(InIrqs)
    /\ count + spent + Cardinality(Holders) = Permits + given
    /\ given + Cardinality(Pending) <= MaxIrq

\* Where the permit of a step goes.
LEMMA PermitChange ==
    ASSUME HoldInv, NEW c \in Context, Does(c)
    PROVE  \/ /\ HasPermit(c[1])' <=> HasPermit(c[1])
              /\ \/ count' = count /\ spent' = spent /\ given' = given
                 \/ count' = count + 1 /\ spent' = spent /\ given' = given + 1
           \/ /\ ~HasPermit(c[1]) /\ HasPermit(c[1])'
              /\ count' = count - 1 /\ spent' = spent /\ given' = given
           \/ /\ HasPermit(c[1]) /\ ~HasPermit(c[1])' /\ given' = given
              /\ \/ count' = count + 1 /\ spent' = spent
                 \/ count' = count /\ spent' = spent + 1
<1>1. /\ pc \in [Context -> PcLabel] /\ op \in [Thread -> {"down", "up"}] /\ LabelsAgree /\ RegAgrees
  BY DEF HoldInv, SemaTypes
<1>2. CASE c[2] = "thread" /\ DownStep(c[1])
  <2>1. PICK t \in Thread : t = c[1] /\ c = Own(t) /\ DownStep(t)
    BY <1>2, DownIs
  <2>2. pc[Own(t)] \in {"test", "take", "dec", "took", "park", "parked", "block", "cs"} => op[t] = "down"
    BY <1>1, <2>1, Contexts DEF LabelsAgree, Upping
  <2>3. pc[Own(t)] = "dec" => reg[Own(t)] = count
    BY <1>1, <2>1 DEF RegAgrees
  <2>4. CASE DownEnter(t) \/ DownTest(t) \/ DownTake(t) \/ DownTook(t) \/ DownPark(t) \/ DownParked(t)
             \/ DownBlock(t) \/ UpEnter(t)
    <3>1. count' = count /\ spent' = spent /\ given' = given
      BY <2>4
      DEF DownEnter, DownTest, DownTake, DownTook, DownPark, DownParked, DownBlock, UpEnter, SpinUnlock
    <3>2. HasPermit(t)' <=> HasPermit(t)
      BY <1>1, <2>1, <2>2, <2>4
      DEF DownEnter, DownTest, DownTake, DownTook, DownPark, DownParked, DownBlock, UpEnter, SpinUnlock,
          Go, HasPermit
    <3> QED BY <2>1, <3>1, <3>2
  <2>5. CASE DownDec(t)
    BY <1>1, <2>1, <2>2, <2>3, <2>5, GoEffect DEF DownDec, HasPermit
  <2>6. CASE Consume(t)
    BY <1>1, <2>1, <2>2, <2>6, GoEffect DEF Consume, HasPermit
  <2> QED BY <2>1, <2>4, <2>5, <2>6 DEF DownStep
<1>3. CASE c[2] = "irq" /\ (Step(c) \/ Interrupt(c[1]))
  <2>1. c = Irq(c[1]) /\ Own(c[1]) \in Context /\ c # Own(c[1]) /\ c[1] \in Thread
    BY <1>3, Contexts
  <2>2. op' = op /\ \/ count' = count /\ spent' = spent /\ given' = given
                    \/ UpInc(c)
    BY <1>3
    DEF Step, SpinXchg, SpinTest, SpinYield, UpLoad, UpInc, UpPop, UpWake, UpRelease, SpinUnlock,
        Interrupt
  <2>3. pc'[Own(c[1])] = pc[Own(c[1])]
    BY <2>1, Local DEF HoldInv
  <2>4. UpInc(c) => count' = count + 1 /\ spent' = spent /\ given' = given + 1
    BY <1>1, <1>3, GoEffect DEF UpInc, RegAgrees
  <2> QED BY <2>2, <2>3, <2>4 DEF HasPermit
<1>4. CASE c[2] = "thread" /\ Step(c)
  <2>1. PICK t \in Thread : t = c[1] /\ c = Own(t)
    BY <1>4, Contexts
  <2>2. pc[Own(t)] \in {"load", "inc", "pop", "wake", "release"} => op[t] = "up"
    BY <1>1, <1>4, <2>1 DEF LabelsAgree, Upping
  <2>3. op' = op
    BY <1>4 DEF Step, SpinXchg, SpinTest, SpinYield, UpLoad, UpInc, UpPop, UpWake, UpRelease, SpinUnlock
  <2>4. CASE UpInc(c)
    <3>1. count' = count + 1 /\ spent' = spent /\ given' = given /\ pc[c] = "inc" /\ pc'[c] = "pop"
      BY <1>1, <1>4, <2>4, GoEffect DEF UpInc, RegAgrees
    <3> QED BY <2>1, <2>2, <2>3, <3>1 DEF HasPermit
  <2>5. CASE ~UpInc(c)
    <3>1. count' = count /\ spent' = spent /\ given' = given
      BY <1>4, <2>5
      DEF Step, SpinXchg, SpinTest, SpinYield, UpLoad, UpPop, UpWake, UpRelease, SpinUnlock
    <3>2. \/ pc[c] \in {"xchg", "spin", "yield"} /\ pc'[c] \in {"xchg", "spin", "yield"}
          \/ pc[c] = "xchg" /\ pc'[c] = "load" /\ op[t] = "up"
          \/ pc[c] = "xchg" /\ pc'[c] = "test" /\ op[t] # "up"
          \/ pc[c] = "load" /\ pc'[c] = "inc"
          \/ pc[c] \in {"pop", "wake", "release"} /\ pc'[c] \in {"wake", "release", "out"}
      BY <1>1, <1>4, <2>1, <2>5
      DEF Step, SpinXchg, SpinTest, SpinYield, UpLoad, UpPop, UpWake, UpRelease, SpinUnlock, Go,
          Inside, Upping
    <3>3. HasPermit(t)' <=> HasPermit(t)
      BY <2>1, <2>2, <2>3, <3>2 DEF HasPermit
    <3> QED BY <2>1, <3>1, <3>3
  <2> QED BY <2>4, <2>5
<1> QED BY <1>2, <1>3, <1>4, Contexts DEF Does

\* Where an interrupt is counted.
LEMMA PendingChange ==
    ASSUME HoldInv, NEW c \in Context, Does(c)
    PROVE  \/ (c[1] \in Pending' <=> c[1] \in Pending) /\ given' = given
           \/ c[1] \notin InIrqs /\ given + Cardinality(InIrqs) < MaxIrq /\ given' = given
           \/ c[1] \in Pending /\ c[1] \notin Pending' /\ given' = given + 1
<1>1. pc \in [Context -> PcLabel]
  BY DEF HoldInv, SemaTypes
<1>2. CASE c[2] = "thread"
  <2>1. c = Own(c[1]) /\ Irq(c[1]) \in Context /\ c # Irq(c[1]) /\ c[1] \in Thread
    BY <1>2, Contexts
  <2>2. pc'[Irq(c[1])] = pc[Irq(c[1])]
    BY <2>1, Local DEF HoldInv
  <2>3. given' = given
    <3>1. CASE Step(c)
      BY <1>2, <3>1
      DEF Step, SpinXchg, SpinTest, SpinYield, UpLoad, UpInc, UpPop, UpWake, UpRelease, SpinUnlock
    <3>2. CASE DownStep(c[1])
      BY <3>2
      DEF DownStep, DownEnter, DownTest, DownTake, DownDec, DownTook, DownPark, DownParked, DownBlock,
          UpEnter, Consume, SpinUnlock
    <3> QED BY <1>2, <3>1, <3>2 DEF Does
  <2> QED BY <2>1, <2>2, <2>3 DEF Pending
<1>3. CASE c[2] = "irq" /\ Interrupt(c[1])
  <2>1. PICK t \in Thread : t = c[1] /\ c = Irq(t) /\ Interrupt(t)
    BY <1>3, Contexts
  <2>2. pc[Irq(t)] = "out" /\ given' = given /\ given + Cardinality({u \in Thread : InIrq(u)}) < MaxIrq
    BY <2>1 DEF Interrupt, Go
  <2> QED BY <2>1, <2>2 DEF InIrqs, InIrq
<1>4. CASE c[2] = "irq" /\ Step(c)
  <2>1. PICK t \in Thread : t = c[1] /\ c = Irq(t)
    BY <1>4, Contexts
  <2>2. CASE UpInc(c)
    <3>1. pc[c] = "inc" /\ pc'[c] = "pop" /\ given' = given + 1
      BY <1>1, <1>4, <2>2, GoEffect DEF UpInc
    <3> QED BY <2>1, <3>1 DEF Pending
  <2>3. CASE ~UpInc(c)
    <3>1. given' = given
      BY <1>4, <2>3
      DEF Step, SpinXchg, SpinTest, SpinYield, UpLoad, UpPop, UpWake, UpRelease, SpinUnlock
    <3>2. \/ pc[c] \in {"xchg", "spin", "yield", "load"} /\ pc'[c] \in {"xchg", "spin", "yield", "load", "inc"}
          \/ pc[c] \in {"pop", "wake", "release"} /\ pc'[c] \in {"wake", "release", "out"}
      BY <1>1, <1>4, <2>3
      DEF Step, SpinXchg, SpinTest, SpinYield, UpLoad, UpPop, UpWake, UpRelease, SpinUnlock, Go,
          Inside, Upping
    <3> QED BY <2>1, <3>1, <3>2 DEF Pending
  <2> QED BY <2>2, <2>3
<1>5. c[2] = "irq" => Step(c) \/ Interrupt(c[1])
  BY DEF Does
<1> QED BY <1>2, <1>3, <1>4, <1>5, Contexts

LEMMA PermitInit == Init => PermitInv
<1> SUFFICES ASSUME Init PROVE PermitInv
  OBVIOUS
<1>1. Holders = {} /\ InIrqs = {} /\ Pending = {}
  BY Contexts DEF Init, Holders, HasPermit, InIrqs, InIrq, Pending
<1> QED
  BY <1>1, HoldInit, FS_EmptySet, SemaAssumption DEF Init, PermitInv

\* Only the thread of the context that steps enters or leaves these sets.
LEMMA PermitLocal ==
    ASSUME HoldInv, NEW c \in Context, Does(c)
    PROVE  \A u \in Thread \ {c[1]} : /\ HasPermit(u)' <=> HasPermit(u)
                                      /\ InIrq(u)' <=> InIrq(u)
                                      /\ u \in Pending' <=> u \in Pending
<1> SUFFICES ASSUME NEW u \in Thread \ {c[1]}
             PROVE  /\ HasPermit(u)' <=> HasPermit(u)
                    /\ InIrq(u)' <=> InIrq(u)
                    /\ u \in Pending' <=> u \in Pending
  OBVIOUS
<1>1. Own(u) \in Context \ {c} /\ Irq(u) \in Context \ {c}
  BY Contexts
<1>2. /\ pc'[Own(u)] = pc[Own(u)] /\ pc'[Irq(u)] = pc[Irq(u)]
      /\ Upping(Own(u))' <=> Upping(Own(u))
  BY <1>1, Local DEF HoldInv
<1>3. op'[u] = "up" <=> op[u] = "up"
  BY <1>1, <1>2, Contexts DEF Upping
<1> QED BY <1>2, <1>3 DEF HasPermit, InIrq, Pending

LEMMA PermitCount ==
    ASSUME PermitInv, NEW c \in Context, Does(c)
    PROVE  IsFiniteSet(Holders)' /\ (count + spent + Cardinality(Holders) = Permits + given)'
<1> DEFINE t == c[1]
<1>1. /\ t \in Thread /\ HoldInv /\ IsFiniteSet(Holders) /\ Cardinality(Holders) \in Nat
      /\ count + spent + Cardinality(Holders) = Permits + given
      /\ count \in Nat /\ spent \in Nat /\ given \in Nat /\ Permits \in Nat
  BY Contexts, SemaAssumption, FS_CardinalityType DEF PermitInv, HoldInv, SemaTypes
<1>2. /\ HasPermit(t)' /\ HasPermit(t) => Holders' = Holders
      /\ ~HasPermit(t)' /\ ~HasPermit(t) => Holders' = Holders
      /\ HasPermit(t)' /\ ~HasPermit(t) => Holders' = Holders \cup {t} /\ t \notin Holders
      /\ ~HasPermit(t)' /\ HasPermit(t) => Holders' = Holders \ {t} /\ t \in Holders
  BY <1>1, PermitLocal DEF Holders
<1>3. CASE HasPermit(t)' <=> HasPermit(t)
  <2>1. Holders' = Holders
    BY <1>2, <1>3
  <2>2. \/ count' = count /\ spent' = spent /\ given' = given
        \/ count' = count + 1 /\ spent' = spent /\ given' = given + 1
    BY <1>1, <1>3, PermitChange
  <2> QED BY <1>1, <2>1, <2>2
<1>4. CASE HasPermit(t)' /\ ~HasPermit(t)
  <2>1. /\ IsFiniteSet(Holders') /\ Cardinality(Holders') = Cardinality(Holders) + 1
    BY <1>1, <1>2, <1>4, FS_AddElement
  <2>2. count' = count - 1 /\ spent' = spent /\ given' = given
    BY <1>1, <1>4, PermitChange
  <2> QED BY <1>1, <2>1, <2>2
<1>5. CASE ~HasPermit(t)' /\ HasPermit(t)
  <2>1. /\ IsFiniteSet(Holders') /\ Cardinality(Holders') = Cardinality(Holders) - 1
    BY <1>1, <1>2, <1>5, FS_RemoveElement
  <2>2. /\ given' = given
        /\ (count' = count + 1 /\ spent' = spent) \/ (count' = count /\ spent' = spent + 1)
    BY <1>1, <1>5, PermitChange
  <2> QED BY <1>1, <2>1, <2>2
<1> QED BY <1>3, <1>4, <1>5

LEMMA PendingCount ==
    ASSUME PermitInv, NEW c \in Context, Does(c)
    PROVE  IsFiniteSet(InIrqs)' /\ (given + Cardinality(Pending) <= MaxIrq)'
<1> DEFINE t == c[1]
<1>1. /\ t \in Thread /\ HoldInv /\ IsFiniteSet(InIrqs) /\ given \in Nat /\ MaxIrq \in Nat
      /\ given + Cardinality(Pending) <= MaxIrq
  BY Contexts, SemaAssumption DEF PermitInv, HoldInv, SemaTypes
<1>2. Pending \subseteq InIrqs
  BY DEF Pending, InIrqs, InIrq
<1>3. InIrqs' \subseteq InIrqs \cup {t}
  BY <1>1, PermitLocal DEF InIrqs
<1>4. \A u \in Thread \ {t} : u \in Pending' <=> u \in Pending
  BY <1>1, PermitLocal
<1>5. /\ IsFiniteSet(InIrqs \cup {t}) /\ IsFiniteSet(Pending) /\ Cardinality(Pending) \in Nat
      /\ Cardinality(InIrqs) \in Nat
      /\ Cardinality(InIrqs \cup {t}) = IF t \in InIrqs THEN Cardinality(InIrqs)
                                                        ELSE Cardinality(InIrqs) + 1
  BY <1>1, <1>2, FS_AddElement, FS_Subset, FS_CardinalityType
<1>6. IsFiniteSet(InIrqs')
  BY <1>3, <1>5, FS_Subset
<1>7. Pending \subseteq Thread /\ Pending' \subseteq Thread
  BY DEF Pending
<1>8. CASE (t \in Pending' <=> t \in Pending) /\ given' = given
  <2>1. Pending' = Pending
    BY <1>4, <1>7, <1>8
  <2> QED BY <1>1, <1>6, <1>8, <2>1
<1>9. CASE t \notin InIrqs /\ given + Cardinality(InIrqs) < MaxIrq /\ given' = given
  <2>1. Pending' \subseteq InIrqs \cup {t}
    BY <1>2, <1>4, <1>7
  <2>2. Cardinality(Pending') \in Nat /\ Cardinality(Pending') <= Cardinality(InIrqs) + 1
    BY <1>5, <1>9, <2>1, FS_Subset, FS_CardinalityType
  <2> QED BY <1>1, <1>5, <1>6, <1>9, <2>2
<1>10. CASE t \in Pending /\ t \notin Pending' /\ given' = given + 1
  <2>1. Pending' = Pending \ {t}
    BY <1>4, <1>7, <1>10
  <2>2. Cardinality(Pending') = Cardinality(Pending) - 1
    BY <1>5, <1>10, <2>1, FS_RemoveElement
  <2> QED BY <1>1, <1>5, <1>6, <1>10, <2>2
<1> QED BY <1>1, <1>8, <1>9, <1>10, PendingChange

LEMMA PermitNext == PermitInv /\ [Next]_vars => PermitInv'
<1> SUFFICES ASSUME PermitInv, [Next]_vars PROVE PermitInv'
  OBVIOUS
<1>1. HoldInv'
  BY HoldNext DEF PermitInv
<1>2. CASE UNCHANGED semavars
  <2>1. /\ count' = count /\ op' = op /\ pc' = pc /\ given' = given /\ spent' = spent
    BY <1>2 DEF semavars
  <2>2. Holders' = Holders /\ InIrqs' = InIrqs /\ Pending' = Pending
    BY <2>1 DEF Holders, HasPermit, InIrqs, InIrq, Pending
  <2> QED BY <1>1, <2>1, <2>2 DEF PermitInv
<1> QED BY <1>1, <1>2, NextIsDoes, PermitCount, PendingCount DEF PermitInv

THEOREM PermitInvariant == Spec => []PermitInv
BY PermitInit, PermitNext, PTL DEF Spec

\* Every permit is in count, with a thread that has it, or taken for good:
\* neither a tick nor an interrupt between the load and the store of count--
\* or count++ loses one.
THEOREM PermitsConservedHolds == Spec => []PermitsConserved
<1>1. PermitInv => PermitsConserved
  BY DEF PermitInv, PermitsConserved, Holders
<1> QED
  BY <1>1, PermitInvariant, PTL

\* A register is used between the load and the store only; with RegAgrees,
\* this bounds it as count is bounded.
RegIdle == \A c \in Context : pc[c] \notin {"dec", "inc"} => reg[c] = 0
RegInv == HoldInv /\ RegIdle

LEMMA RegInit == Init => RegInv
BY HoldInit DEF Init, RegInv, RegIdle

LEMMA RegNext == RegInv /\ [Next]_vars => RegInv'
<1> SUFFICES ASSUME RegInv, [Next]_vars PROVE RegInv'
  OBVIOUS
<1>1. /\ HoldInv' /\ pc \in [Context -> PcLabel] /\ reg \in [Context -> Nat] /\ SemaTypes /\ RegIdle
  BY HoldNext DEF RegInv, HoldInv, SemaTypes
<1>2. ASSUME NEW c \in Context, Does(c) PROVE RegIdle'
  <2>1. pc'[c] \notin {"dec", "inc"} => reg'[c] = 0
    <3>1. CASE Step(c)
      BY <1>1, <3>1
      DEF Step, SpinXchg, SpinTest, SpinYield, UpLoad, UpInc, UpPop, UpWake, UpRelease, SpinUnlock,
          Go, Inside, RegIdle
    <3>2. CASE c[2] = "irq" /\ Interrupt(c[1])
      <4>1. Go(c, "out", "xchg") /\ reg' = reg
        BY <3>2, <1>2, Contexts DEF Interrupt
      <4> QED BY <1>1, <1>2, <4>1, GoEffect DEF RegIdle
    <3>3. CASE c[2] = "thread" /\ DownStep(c[1])
      <4>1. PICK t \in Thread : t = c[1] /\ c = Own(t) /\ DownStep(t)
        BY <1>2, <3>3, DownIs
      <4> QED
        BY <1>1, <1>2, <4>1
        DEF DownStep, DownEnter, DownTest, DownTake, DownDec, DownTook, DownPark, DownParked, DownBlock,
            UpEnter, Consume, SpinUnlock, Go, RegIdle
    <3> QED BY <1>2, <3>1, <3>2, <3>3 DEF Does
  <2> QED BY <1>1, <1>2, <2>1, Local DEF RegIdle
<1>3. ASSUME UNCHANGED semavars PROVE RegIdle'
  BY <1>1, <1>3 DEF semavars, RegIdle
<1>4. RegIdle'
  BY <1>2, <1>3, NextIsDoes
<1> QED BY <1>1, <1>4 DEF RegInv

\* The spinlock excludes a thread from another, and a handler from the thread it
\* interrupted; its word tells; and no counter leaves its type.
THEOREM SlockExclusionHolds == Spec => []SlockExclusion
<1>1. Spec => []RegInv
  BY RegInit, RegNext, PTL DEF Spec
<1>2. ASSUME RegInv, PermitInv PROVE SlockExclusion
  <2>1. /\ SemaTypes /\ Excludes /\ RegAgrees /\ RegIdle
        /\ Permits \in Nat /\ MaxIrq \in Nat
    BY <1>2, SemaAssumption DEF RegInv, HoldInv
  <2>2. Cardinality(Holders) \in Nat /\ Cardinality(Pending) \in Nat
    <3>1. Pending \subseteq InIrqs
      BY DEF Pending, InIrqs, InIrq
    <3> QED BY <1>2, <3>1, FS_Subset, FS_CardinalityType DEF PermitInv
  <2>3. /\ count \in 0..(Permits + MaxIrq) /\ spent \in 0..(Permits + MaxIrq) /\ given \in 0..MaxIrq
    BY <1>2, <2>1, <2>2 DEF PermitInv, SemaTypes
  <2>4. reg \in [Context -> 0..(Permits + MaxIrq)]
    <3>1. \A c \in Context : reg[c] = 0 \/ reg[c] = count
      BY <2>1 DEF RegAgrees, RegIdle
    <3>2. 0 \in 0..(Permits + MaxIrq)
      BY <2>1
    <3> QED BY <2>1, <2>3, <3>1, <3>2 DEF SemaTypes
  <2> QED BY <2>1, <2>3, <2>4 DEF SlockExclusion, TypeOK, SemaTypes, Excludes
<1> QED BY <1>1, <1>2, PermitInvariant, PTL

-----------------------------------------------------------------------------
(* The waiters.                                                            *)

\* A thread between its list_append and its return from kthread_block.
Waiting(w) ==
    /\ op[w] = "down"
    /\ pc[Own(w)] \in {"parked", "block"} \/ (pc[Own(w)] = "xchg" /\ w \in asleep)

WaitersWait ==
    /\ \A i, j \in 1..Len(wait_list) : wait_list[i] = wait_list[j] => i = j
    /\ \A i \in 1..Len(wait_list) : Waiting(wait_list[i])
\* sema_up has a task in its local variable only while it holds the spinlock,
\* and has unlinked its waiter.
WakeesWait ==
    \A c \in Context :
        /\ wakee[c] # NULL <=> pc[c] = "wake"
        /\ pc[c] = "wake" => /\ Waiting(wakee[c])
                             /\ \A i \in 1..Len(wait_list) : wait_list[i] # wakee[c]
WaitInv == HoldInv /\ OnePlace /\ WaitersWait /\ WakeesWait

LEMMA NextOnScheduler == OnePlace /\ [Next]_vars => [RRNext]_rrvars
<1> SUFFICES ASSUME OnePlace, [Next]_vars PROVE [RRNext]_rrvars
  OBVIOUS
<1>1. ASSUME NEW c \in Context, UpWake(c) PROVE [RRNext]_rrvars
  <2>1. wakee[c] \in asleep => wakee[c] \in Thread
    BY DEF OnePlace
  <2> QED BY <1>1, <2>1 DEF UpWake, RRNext
<1>2. ASSUME NEW c \in Context, Step(c), ~UpWake(c) PROVE UNCHANGED rrvars \/ Rotate
  BY <1>2 DEF Step, SpinXchg, SpinTest, SpinYield, UpLoad, UpInc, UpPop, UpRelease, SpinUnlock
<1>3. ASSUME NEW t \in Thread, ThreadStep(t) PROVE UNCHANGED rrvars \/ Sleep
  BY <1>3
  DEF ThreadStep, DownEnter, DownTest, DownTake, DownDec, DownTook, DownPark, DownParked, DownBlock,
      UpEnter, Consume, Interrupt, SpinUnlock
<1>4. \/ \E c \in Context : Step(c)
      \/ \E t \in Thread : ThreadStep(t)
      \/ UNCHANGED rrvars \/ Rotate \/ Sleep \/ \E t \in Thread : Start(t)
  BY DEF Next, Spawn, IdleBlock, Preempt, vars
<1> QED BY <1>1, <1>2, <1>3, <1>4 DEF RRNext

\* What a step asks of a thread that goes on waiting: nobody wakes it, and its
\* own steps, if it runs, keep it waiting.
LEMMA WaitingKept ==
    ASSUME WaitInv, NEW c \in Context, Does(c), NEW w \in Thread, Waiting(w),
           c # Own(w), w \in asleep => w \in asleep'
    PROVE  Waiting(w)'
<1>1. Own(w) \in Context \ {c}
  BY Contexts
<1>2. pc'[Own(w)] = pc[Own(w)] /\ (Upping(Own(w))' <=> Upping(Own(w)))
  BY <1>1, Local DEF WaitInv, HoldInv
<1>3. op'[w] \in {"down", "up"}
  BY HoldTypes DEF WaitInv, SemaTypes
<1> QED BY <1>1, <1>2, <1>3, Contexts DEF Waiting, Upping

\* A step of c that leaves the list and every wakee alone keeps all waiters
\* waiting, if nobody is woken and c's thread stays a waiter when it was one.
LEMMA WaitersKept ==
    ASSUME WaitInv, NEW c \in Context, Does(c),
           wait_list' = wait_list, wakee' = wakee, asleep \ {Idle} \subseteq asleep',
           pc'[c] = "wake" <=> pc[c] = "wake",
           c[2] = "thread" /\ Waiting(c[1]) => Waiting(c[1])'
    PROVE  WaitersWait' /\ WakeesWait'
<1>1. /\ wait_list \in Seq(Thread) /\ wakee \in [Context -> Thread \cup {NULL}]
      /\ pc[Own(Idle)] = "out" /\ WaitersWait /\ WakeesWait
      /\ \A i \in 1..Len(wait_list) : wait_list[i] \in Thread
  BY ElementOfSeq DEF WaitInv, HoldInv, SemaTypes
<1>2. ASSUME NEW w \in Thread, Waiting(w) PROVE Waiting(w)'
  <2>1. w # Idle
    BY <1>1, <1>2 DEF Waiting
  <2>2. CASE c = Own(w)
    BY <1>2, <2>2, Contexts
  <2> QED BY <1>2, <2>1, <2>2, WaitingKept
<1>3. \A d \in Context \ {c} : pc'[d] = pc[d]
  BY Local DEF WaitInv, HoldInv
<1>4. WaitersWait'
  BY <1>1, <1>2 DEF WaitersWait
<1>5. WakeesWait'
  BY <1>1, <1>2, <1>3 DEF WakeesWait
<1> QED BY <1>4, <1>5

\* The steps that change neither the list nor a wakee.
LEMMA WaitersQuiet ==
    ASSUME WaitInv, NEW c \in Context, Does(c),
           ~UpPop(c), ~UpWake(c), ~(c[2] = "thread" /\ DownPark(c[1]))
    PROVE  WaitersWait' /\ WakeesWait'
<1>1. /\ pc \in [Context -> PcLabel] /\ op \in [Thread -> {"down", "up"}] /\ running = c[1]
      /\ OnePlace /\ LabelsAgree /\ HoldInv /\ pc[Own(Idle)] = "out" /\ c[1] \in Thread
  BY Local, Contexts DEF WaitInv, HoldInv, SemaTypes
<1>2. running \notin asleep
  BY <1>1 DEF OnePlace
<1>3. CASE Step(c)
  <2>1. wait_list' = wait_list /\ wakee' = wakee /\ op' = op
    BY <1>3 DEF Step, SpinXchg, SpinTest, SpinYield, UpLoad, UpInc, UpRelease, SpinUnlock
  <2>2. asleep' = asleep
    BY <1>3 DEF Step, SpinXchg, SpinTest, SpinYield, UpLoad, UpInc, UpRelease, SpinUnlock, Rotate, rrvars
  <2>3. pc[c] # "wake" /\ pc'[c] # "wake" /\ pc[c] \notin {"parked", "block"}
    BY <1>1, <1>3
    DEF Step, SpinXchg, SpinTest, SpinYield, UpLoad, UpInc, UpRelease, SpinUnlock, Go, Inside
  <2>4. c[2] = "thread" => ~Waiting(c[1])
    BY <1>1, <1>2, <2>3, Contexts DEF Waiting
  <2> QED BY <2>1, <2>2, <2>3, <2>4, WaitersKept
<1>4. CASE c[2] = "irq" /\ Interrupt(c[1])
  <2>1. /\ wait_list' = wait_list /\ wakee' = wakee /\ asleep' = asleep /\ Go(c, "out", "xchg")
    BY <1>4, Contexts DEF Interrupt, rrvars
  <2>2. pc[c] # "wake" /\ pc'[c] # "wake"
    BY <1>1, <2>1, GoEffect
  <2> QED BY <1>4, <2>1, <2>2, WaitersKept
<1>5. CASE c[2] = "thread" /\ DownStep(c[1])
  <2>1. PICK t \in Thread : t = c[1] /\ c = Own(t) /\ DownStep(t)
    BY <1>5, DownIs
  <2>2. wait_list' = wait_list /\ wakee' = wakee
    BY <1>5, <2>1
    DEF DownStep, DownEnter, DownTest, DownTake, DownDec, DownTook, DownParked, DownBlock,
        UpEnter, Consume, SpinUnlock
  <2>3. asleep \ {Idle} \subseteq asleep'
    BY <1>5, <2>1
    DEF DownStep, DownEnter, DownTest, DownTake, DownDec, DownTook, DownParked, DownBlock,
        UpEnter, Consume, SpinUnlock, Sleep, rrvars
  <2>4. pc[c] # "wake" /\ pc'[c] # "wake"
    BY <1>1, <1>5, <2>1
    DEF DownStep, DownEnter, DownTest, DownTake, DownDec, DownTook, DownParked, DownBlock,
        UpEnter, Consume, SpinUnlock, Go
  <2>5. ASSUME Waiting(t) PROVE Waiting(t)'
    <3>1. op[t] = "down" /\ pc[Own(t)] \in {"parked", "block"} /\ t # Idle
      BY <1>1, <1>2, <2>1, <2>5 DEF Waiting
    <3>2. op' = op /\ (DownParked(t) \/ DownBlock(t))
      BY <1>5, <2>1, <3>1
      DEF DownStep, DownEnter, DownTest, DownTake, DownDec, DownTook, DownParked, DownBlock,
          UpEnter, Consume, SpinUnlock, Go
    <3>3. CASE DownParked(t)
      <4>1. pc'[Own(t)] = "block"
        BY <1>1, <2>1, <3>3 DEF DownParked, SpinUnlock, Go
      <4> QED BY <3>1, <3>2, <4>1 DEF Waiting
    <3>4. CASE DownBlock(t)
      <4>1. pc'[Own(t)] = "xchg" /\ Sleep
        BY <1>1, <2>1, <3>4 DEF DownBlock, Go
      <4>2. t \in asleep'
        BY <1>1, <2>1, <3>1, <4>1 DEF Sleep
      <4> QED BY <3>1, <3>2, <4>1, <4>2 DEF Waiting
    <3> QED BY <3>2, <3>3, <3>4
  <2> QED BY <2>1, <2>2, <2>3, <2>4, <2>5, WaitersKept
<1> QED BY <1>3, <1>4, <1>5 DEF Does

\* list_append links a thread that is not on the list, nor being woken.
LEMMA WaitersPark ==
    ASSUME WaitInv, NEW t \in Thread, DownPark(t)
    PROVE  WaitersWait' /\ WakeesWait'
<1>1. /\ pc \in [Context -> PcLabel] /\ op \in [Thread -> {"down", "up"}] /\ LabelsAgree
      /\ Excludes /\ wait_list \in Seq(Thread) /\ WaitersWait /\ WakeesWait /\ OnePlace
      /\ Own(t) \in Context /\ Own(t)[1] = t /\ Own(t)[2] = "thread"
  BY Contexts DEF WaitInv, HoldInv, SemaTypes
<1>2. Does(Own(t))
  BY <1>1 DEF Does, DownStep
<1>3. /\ Go(Own(t), "park", "parked") /\ op' = op /\ wakee' = wakee /\ asleep' = asleep
      /\ wait_list' = Append(wait_list, t)
  BY DEF DownPark, rrvars
<1>4. /\ running = t /\ pc[Own(t)] = "park" /\ pc'[Own(t)] = "parked"
      /\ \A d \in Context \ {Own(t)} : pc'[d] = pc[d]
  BY <1>1, <1>3, GoEffect
<1>5. op[t] = "down"
  BY <1>1, <1>4 DEF LabelsAgree, Upping
<1>6. /\ wait_list' \in Seq(Thread) /\ Len(wait_list') = Len(wait_list) + 1 /\ Len(wait_list) \in Nat
      /\ \A i \in 1..Len(wait_list) : wait_list'[i] = wait_list[i] /\ wait_list[i] \in Thread
      /\ wait_list'[Len(wait_list) + 1] = t
  BY <1>1, <1>3, AppendProperties, ElementOfSeq, LenProperties
<1>7. ASSUME NEW w \in Thread, Waiting(w) PROVE w # t /\ Waiting(w)'
  <2>1. w # t
    BY <1>4, <1>7 DEF Waiting
  <2>2. Own(t) # Own(w)
    BY <1>1, <2>1, Contexts
  <2> QED BY <1>1, <1>2, <1>3, <1>7, <2>1, <2>2, WaitingKept
<1>8. Waiting(t)'
  BY <1>3, <1>4, <1>5 DEF Waiting
<1>9. WaitersWait'
  <2>1. \A i \in 1..Len(wait_list) : wait_list[i] # t /\ Waiting(wait_list[i])'
    BY <1>1, <1>6, <1>7 DEF WaitersWait
  <2>2. ASSUME NEW i \in 1..Len(wait_list'), NEW j \in 1..Len(wait_list'),
               wait_list'[i] = wait_list'[j]
        PROVE  i = j
    BY <1>1, <1>6, <2>1, <2>2 DEF WaitersWait
  <2>3. ASSUME NEW i \in 1..Len(wait_list') PROVE Waiting(wait_list[i])'
    <3>1. CASE i = Len(wait_list) + 1
      BY <1>6, <1>8, <3>1 DEF Waiting
    <3>2. CASE i # Len(wait_list) + 1
      <4>1. i \in 1..Len(wait_list) /\ wait_list'[i] = wait_list[i]
        BY <1>6, <3>2
      <4> QED BY <2>1, <4>1 DEF Waiting
    <3> QED BY <3>1, <3>2
  <2> QED BY <2>2, <2>3 DEF WaitersWait
<1>10. WakeesWait'
  <2>1. \A d \in Context : pc[d] # "wake" /\ pc'[d] # "wake"
    BY <1>1, <1>4 DEF Excludes, HoldsSlock
  <2> QED BY <1>1, <1>3, <2>1 DEF WakeesWait
<1> QED BY <1>9, <1>10

\* sema_up unlinks the first waiter, which goes on waiting.
LEMMA WaitersPop ==
    ASSUME WaitInv, NEW c \in Context, UpPop(c)
    PROVE  WaitersWait' /\ WakeesWait'
<1>1. /\ pc \in [Context -> PcLabel] /\ wakee \in [Context -> Thread \cup {NULL}] /\ Does(c)
      /\ Excludes /\ wait_list \in Seq(Thread) /\ WaitersWait /\ WakeesWait
  BY DEF WaitInv, HoldInv, SemaTypes, Does, Step
<1>2. Go(c, "pop", IF wait_list = <<>> THEN "release" ELSE "wake") /\ op' = op /\ asleep' = asleep
  BY DEF UpPop, rrvars
<1>3. /\ pc[c] = "pop" /\ pc'[c] = IF wait_list = <<>> THEN "release" ELSE "wake"
      /\ \A d \in Context \ {c} : pc'[d] = pc[d]
  BY <1>1, <1>2, GoEffect
<1>4. ASSUME NEW w \in Thread, Waiting(w) PROVE Waiting(w)'
  <2>1. c # Own(w)
    BY <1>3, <1>4 DEF Waiting
  <2> QED BY <1>1, <1>2, <1>4, <2>1, WaitingKept
<1>5. \A d \in Context \ {c} : pc[d] # "wake" /\ pc'[d] # "wake"
  BY <1>1, <1>3 DEF Excludes, HoldsSlock
<1>6. CASE wait_list = <<>>
  <2>1. wait_list' = wait_list /\ wakee' = wakee
    BY <1>6 DEF UpPop
  <2>2. WaitersWait'
    BY <1>1, <1>6, <2>1, EmptySeq DEF WaitersWait
  <2>3. WakeesWait'
    BY <1>1, <1>3, <1>5, <1>6, <2>1 DEF WakeesWait
  <2> QED BY <2>2, <2>3
<1>7. CASE wait_list # <<>>
  <2>1. PICK w \in Thread : w = Head(wait_list)
    BY <1>1, <1>7, HeadTailProperties
  <2>2. /\ w = wait_list[1] /\ Tail(wait_list) \in Seq(Thread)
        /\ Len(wait_list) \in Nat \ {0} /\ Len(Tail(wait_list)) = Len(wait_list) - 1
        /\ \A i \in 1..Len(Tail(wait_list)) : Tail(wait_list)[i] = wait_list[i + 1]
    BY <1>1, <1>7, <2>1, HeadTailProperties, EmptySeq
  <2>3. wait_list' = Tail(wait_list) /\ wakee' = [wakee EXCEPT ![c] = w]
    BY <1>7, <2>1 DEF UpPop
  <2>4. /\ wait_list' \in Seq(Thread) /\ Len(wait_list') = Len(wait_list) - 1
        /\ \A i \in 1..Len(wait_list') : i + 1 \in 1..Len(wait_list) /\ wait_list'[i] = wait_list[i + 1]
    BY <2>2, <2>3
  <2>5. WaitersWait'
    <3>1. ASSUME NEW i \in 1..Len(wait_list') PROVE Waiting(wait_list[i])'
      <4>1. wait_list[i + 1] \in Thread /\ Waiting(wait_list[i + 1])
        BY <1>1, <2>4, ElementOfSeq DEF WaitersWait
      <4> QED BY <1>4, <2>4, <4>1 DEF Waiting
    <3>2. ASSUME NEW i \in 1..Len(wait_list'), NEW j \in 1..Len(wait_list'),
                 wait_list'[i] = wait_list'[j]
          PROVE  i = j
      BY <1>1, <2>4, <3>2 DEF WaitersWait
    <3> QED BY <3>1, <3>2 DEF WaitersWait
  <2>6. wakee'[c] = w /\ w # NULL /\ \A d \in Context \ {c} : wakee'[d] = wakee[d]
    BY <1>1, <2>3, SemaAssumption
  <2>7. Waiting(w)' /\ \A i \in 1..Len(wait_list') : wait_list'[i] # w
    <3>1. Waiting(w) /\ 1 \in 1..Len(wait_list)
      BY <1>1, <2>2 DEF WaitersWait
    <3>2. ASSUME NEW i \in 1..Len(wait_list') PROVE wait_list'[i] # w
      BY <1>1, <2>2, <2>4, <3>1 DEF WaitersWait
    <3> QED BY <1>4, <3>1, <3>2
  <2>8. WakeesWait'
    BY <1>1, <1>3, <1>5, <1>7, <2>6, <2>7 DEF WakeesWait, Waiting
  <2> QED BY <2>5, <2>8
<1> QED BY <1>6, <1>7

\* kthread_unblock makes ready a thread that is not on the list.
LEMMA WaitersWake ==
    ASSUME WaitInv, NEW c \in Context, UpWake(c)
    PROVE  WaitersWait' /\ WakeesWait'
<1>1. /\ pc \in [Context -> PcLabel] /\ wakee \in [Context -> Thread \cup {NULL}] /\ Does(c)
      /\ Excludes /\ wait_list \in Seq(Thread) /\ WaitersWait /\ WakeesWait
  BY DEF WaitInv, HoldInv, SemaTypes, Does, Step
<1>2. /\ Go(c, "wake", "release") /\ wait_list' = wait_list /\ wakee' = [wakee EXCEPT ![c] = NULL]
      /\ asleep \ {wakee[c]} \subseteq asleep'
  BY DEF UpWake, Wake, rrvars
<1>3. /\ pc[c] = "wake" /\ pc'[c] = "release" /\ \A d \in Context \ {c} : pc'[d] = pc[d]
  BY <1>1, <1>2, GoEffect
<1>4. \A d \in Context \ {c} : pc[d] # "wake" /\ pc'[d] # "wake"
  BY <1>1, <1>3 DEF Excludes, HoldsSlock
<1>5. ASSUME NEW w \in Thread, Waiting(w), w # wakee[c] PROVE Waiting(w)'
  <2>1. c # Own(w)
    BY <1>3, <1>5 DEF Waiting
  <2> QED BY <1>1, <1>2, <1>5, <2>1, WaitingKept
<1>6. WaitersWait'
  <2>1. ASSUME NEW i \in 1..Len(wait_list) PROVE Waiting(wait_list[i])'
    <3>1. wait_list[i] \in Thread /\ Waiting(wait_list[i]) /\ wait_list[i] # wakee[c]
      BY <1>1, <1>3, ElementOfSeq DEF WaitersWait, WakeesWait
    <3> QED BY <1>2, <1>5, <3>1 DEF Waiting
  <2> QED BY <1>1, <1>2, <2>1 DEF WaitersWait
<1>7. WakeesWait'
  BY <1>1, <1>2, <1>3, <1>4 DEF WakeesWait
<1> QED BY <1>6, <1>7

\* Steps of the scheduler alone.
LEMMA WaitersStutter ==
    ASSUME WaitInv, UNCHANGED semavars, asleep \ {Idle} \subseteq asleep'
    PROVE  WaitersWait' /\ WakeesWait'
<1>1. /\ wait_list \in Seq(Thread) /\ wakee \in [Context -> Thread \cup {NULL}]
      /\ WaitersWait /\ WakeesWait /\ \A i \in 1..Len(wait_list) : wait_list[i] \in Thread
      /\ pc[Own(Idle)] = "out"
  BY ElementOfSeq DEF WaitInv, HoldInv, SemaTypes
<1>2. wait_list' = wait_list /\ wakee' = wakee /\ pc' = pc /\ op' = op
  BY DEF semavars
<1>3. ASSUME NEW w \in Thread, Waiting(w) PROVE Waiting(w)'
  BY <1>1, <1>2, <1>3 DEF Waiting
<1>4. WaitersWait'
  BY <1>1, <1>2, <1>3 DEF WaitersWait
<1>5. WakeesWait'
  BY <1>1, <1>2, <1>3 DEF WakeesWait
<1> QED BY <1>4, <1>5

LEMMA WaitNext == WaitInv /\ [Next]_vars => WaitInv'
<1> SUFFICES ASSUME WaitInv, [Next]_vars PROVE WaitInv'
  OBVIOUS
<1>1. HoldInv' /\ OnePlace'
  BY HoldNext, NextOnScheduler, OnePlaceNext DEF WaitInv
<1>2. ASSUME NEW c \in Context, Does(c) PROVE WaitersWait' /\ WakeesWait'
  <2>1. CASE UpPop(c) \/ UpWake(c)
    BY <2>1, WaitersPop, WaitersWake
  <2>2. CASE c[2] = "thread" /\ DownPark(c[1])
    BY <2>2, Contexts, WaitersPark
  <2>3. CASE ~UpPop(c) /\ ~UpWake(c) /\ ~(c[2] = "thread" /\ DownPark(c[1]))
    BY <1>2, <2>3, WaitersQuiet
  <2> QED BY <2>1, <2>2, <2>3
<1>3. ASSUME UNCHANGED semavars,
             UNCHANGED rrvars \/ Rotate \/ (running = Idle /\ Sleep) \/ \E t \in Thread : Start(t)
      PROVE  WaitersWait' /\ WakeesWait'
  <2>1. asleep \ {Idle} \subseteq asleep'
    BY <1>3 DEF Rotate, Sleep, Start, rrvars
  <2> QED BY <1>3, <2>1, WaitersStutter
<1>4. WaitersWait' /\ WakeesWait'
  BY <1>2, <1>3, NextIsDoes
<1> QED BY <1>1, <1>4 DEF WaitInv

LEMMA WaitInit == Init => WaitInv
<1> SUFFICES ASSUME Init PROVE WaitInv
  OBVIOUS
<1>1. HoldInv /\ OnePlace
  BY HoldInit, PlaceInit DEF Init
<1>2. WaitersWait
  BY EmptySeq DEF Init, WaitersWait
<1>3. WakeesWait
  BY DEF Init, WakeesWait
<1> QED BY <1>1, <1>2, <1>3 DEF WaitInv

THEOREM WaitInvariant == Spec => []WaitInv
BY WaitInit, WaitNext, PTL DEF Spec

\* As long as sema_up can reach a waiter, its thread is between its list_append
\* and its return from kthread_block, and it is on the list at most once.
THEOREM WaitersLiveHolds == Spec => []WaitersLive
<1>1. ASSUME WaitInv PROVE WaitersLive
  <2>1. DOMAIN wait_list = 1..Len(wait_list)
    BY <1>1, LenProperties DEF WaitInv, HoldInv, SemaTypes
  <2> QED
    BY <1>1, <2>1 DEF WaitInv, WaitersLive, WaitersWait, WakeesWait, Waiting, InDownFrame
<1> QED
  BY <1>1, WaitInvariant, PTL
=============================================================================
