------------------------------ MODULE Semaphore ------------------------------
(***************************************************************************)
(* The semaphore of kernel/src/lock.c on the scheduler of RoundRobin.       *)
(* Threads call sema_down and sema_up; ide_handler calls sema_up from an    *)
(* interrupt, on the stack of whatever thread runs and with interrupts off. *)
(* A context is a thread's own code or the interrupt handler on its stack.  *)
(* The handler may yield: another thread then runs with interrupts on while *)
(* the handler's frame waits, so each thread can carry one.                 *)
(***************************************************************************)
EXTENDS RoundRobin, FiniteSets

CONSTANTS
    NULL,
    Permits, \* the value of sema_init
    MaxIrq   \* bound on the interrupts that call sema_up

ASSUME SemaAssumption ==
    /\ NULL \notin Thread
    /\ Permits \in Nat
    /\ MaxIrq \in Nat

VARIABLES
    slock,     \* sema->slock.value
    count,     \* sema->count
    wait_list, \* the threads of the waiters linked on sema->wait_list
    op,        \* the function a thread's own code is in
    pc,        \* what each context does next
    reg,       \* the register of a context's count-- or count++
    wakee,     \* the local variable task of sema_up
    given,     \* history: permits interrupts have returned
    spent      \* history: permits threads have taken for good

semavars == <<slock, count, wait_list, op, pc, reg, wakee, given, spent>>
vars == <<rrvars, semavars>>

Context == Thread \X {"thread", "irq"}
Own(t) == <<t, "thread">>
Irq(t) == <<t, "irq">>

PcLabel == {"out", "xchg", "spin", "yield", "test", "take", "dec", "took", "park",
            "parked", "block", "cs", "load", "inc", "pop", "wake", "release"}

Init ==
    /\ RRInit
    /\ slock = 0
    /\ count = Permits
    /\ wait_list = <<>>
    /\ op = [t \in Thread |-> "down"]
    /\ pc = [c \in Context |-> "out"]
    /\ reg = [c \in Context |-> 0]
    /\ wakee = [c \in Context |-> NULL]
    /\ given = 0
    /\ spent = 0

InIrq(t) == pc[Irq(t)] # "out"
Upping(c) == c[2] = "irq" \/ op[c[1]] = "up"

\* The running thread's code, or the handler that interrupted it, goes from
\* label a to label b.
Go(c, a, b) ==
    /\ running = c[1]
    /\ InIrq(c[1]) => c[2] = "irq"
    /\ pc[c] = a
    /\ pc' = [pc EXCEPT ![c] = b]

-----------------------------------------------------------------------------
(* spin_lock, from either function and either kind of context.             *)

\* Where a context goes on once it has the spinlock.
Inside(c) == IF Upping(c) THEN "load" ELSE "test"

MutXchgPlainStore(c) ==
    /\ Go(c, "xchg", Inside(c))
    /\ slock' = 1
    /\ UNCHANGED <<rrvars, count, wait_list, op, reg, wakee, given, spent>>

SpinXchg(c) ==
    /\ Go(c, "xchg", IF slock = 1 THEN "spin" ELSE Inside(c))
    /\ slock' = 1
    /\ UNCHANGED <<rrvars, count, wait_list, op, reg, wakee, given, spent>>

SpinTest(c) ==
    /\ Go(c, "spin", IF slock = 1 THEN "yield" ELSE "xchg")
    /\ UNCHANGED <<rrvars, slock, count, wait_list, op, reg, wakee, given, spent>>

SpinYield(c) ==
    /\ Go(c, "yield", "spin")
    /\ Rotate
    /\ UNCHANGED <<slock, count, wait_list, op, reg, wakee, given, spent>>

SpinUnlock(c, a, b) ==
    /\ Go(c, a, b)
    /\ slock' = 0
    /\ UNCHANGED <<rrvars, count, wait_list, op, reg, wakee, given, spent>>

-----------------------------------------------------------------------------
(* sema_down, by threads only                                              *)

DownEnter(t) ==
    /\ t # Idle
    /\ Go(Own(t), "out", "xchg")
    /\ op' = [op EXCEPT ![t] = "down"]
    /\ UNCHANGED <<rrvars, slock, count, wait_list, reg, wakee, given, spent>>

\* if (sema->count > 0)
DownTest(t) ==
    /\ Go(Own(t), "test", IF count > 0 THEN "take" ELSE "park")
    /\ UNCHANGED <<rrvars, slock, count, wait_list, op, reg, wakee, given, spent>>

\* sema->count--, a load and a store
DownTake(t) ==
    /\ Go(Own(t), "take", "dec")
    /\ reg' = [reg EXCEPT ![Own(t)] = count]
    /\ UNCHANGED <<rrvars, slock, count, wait_list, op, wakee, given, spent>>

DownDec(t) ==
    /\ Go(Own(t), "dec", "took")
    /\ count' = reg[Own(t)] - 1
    /\ reg' = [reg EXCEPT ![Own(t)] = 0]
    /\ UNCHANGED <<rrvars, slock, wait_list, op, wakee, given, spent>>

DownTook(t) == SpinUnlock(Own(t), "took", "cs")

DownPark(t) ==
    /\ Go(Own(t), "park", "parked")
    /\ wait_list' = Append(wait_list, t)
    /\ UNCHANGED <<rrvars, slock, count, op, reg, wakee, given, spent>>

MutParkedKeepsSlock(t) ==
    /\ Go(Own(t), "parked", "block")
    /\ UNCHANGED <<rrvars, slock, count, wait_list, op, reg, wakee, given, spent>>

DownParked(t) == SpinUnlock(Own(t), "parked", "block")

DownBlock(t) ==
    /\ Go(Own(t), "block", "xchg")
    /\ Sleep
    /\ UNCHANGED <<slock, count, wait_list, op, reg, wakee, given, spent>>

-----------------------------------------------------------------------------
(* sema_up, by a thread that gives its permit back or by an interrupt       *)

UpEnter(t) ==
    /\ Go(Own(t), "cs", "xchg")
    /\ op' = [op EXCEPT ![t] = "up"]
    /\ UNCHANGED <<rrvars, slock, count, wait_list, reg, wakee, given, spent>>

\* As ide_read and ide_write do: the permit announced an event, it is not
\* returned.
Consume(t) ==
    /\ Go(Own(t), "cs", "out")
    /\ spent' = spent + 1
    /\ UNCHANGED <<rrvars, slock, count, wait_list, op, reg, wakee, given>>

\* ide_handler runs on top of the running thread.
Interrupt(t) ==
    /\ given + Cardinality({u \in Thread : InIrq(u)}) < MaxIrq
    /\ Go(Irq(t), "out", "xchg")
    /\ UNCHANGED <<rrvars, slock, count, wait_list, op, reg, wakee, given, spent>>

UpLoad(c) ==
    /\ Go(c, "load", "inc")
    /\ reg' = [reg EXCEPT ![c] = count]
    /\ UNCHANGED <<rrvars, slock, count, wait_list, op, wakee, given, spent>>

UpInc(c) ==
    /\ Go(c, "inc", "pop")
    /\ count' = reg[c] + 1
    /\ reg' = [reg EXCEPT ![c] = 0]
    /\ given' = IF c[2] = "irq" THEN given + 1 ELSE given
    /\ UNCHANGED <<rrvars, slock, wait_list, op, wakee, spent>>

MutUpPeek(c) ==
    /\ Go(c, "pop", IF wait_list = <<>> THEN "release" ELSE "wake")
    /\ wakee' = [wakee EXCEPT ![c] = IF wait_list = <<>> THEN NULL ELSE Head(wait_list)]
    /\ UNCHANGED <<rrvars, slock, count, wait_list, op, reg, given, spent>>

UpPop(c) ==
    IF wait_list = <<>>
    THEN /\ Go(c, "pop", "release")
         /\ UNCHANGED <<rrvars, slock, count, wait_list, op, reg, wakee, given, spent>>
    ELSE /\ Go(c, "pop", "wake")
         /\ wakee' = [wakee EXCEPT ![c] = Head(wait_list)]
         /\ wait_list' = Tail(wait_list)
         /\ UNCHANGED <<rrvars, slock, count, op, reg, given, spent>>

UpWake(c) ==
    /\ Go(c, "wake", "release")
    /\ IF wakee[c] \in asleep THEN Wake(wakee[c]) ELSE UNCHANGED rrvars
    /\ wakee' = [wakee EXCEPT ![c] = NULL]
    /\ UNCHANGED <<slock, count, wait_list, op, reg, given, spent>>

UpRelease(c) == SpinUnlock(c, "release", "out")

-----------------------------------------------------------------------------
Step(c) ==
    \/ SpinXchg(c) \/ SpinTest(c) \/ SpinYield(c)
    \/ UpLoad(c) \/ UpInc(c) \/ UpPop(c) \/ UpWake(c) \/ UpRelease(c)

ThreadStep(t) ==
    \/ DownEnter(t) \/ DownTest(t) \/ DownTake(t) \/ DownDec(t) \/ DownTook(t)
    \/ DownPark(t) \/ DownParked(t) \/ DownBlock(t)
    \/ UpEnter(t) \/ Consume(t) \/ Interrupt(t)

IdleBlock == running = Idle /\ ~InIrq(Idle) /\ Sleep /\ UNCHANGED semavars

\* The handler runs with interrupts off: no tick ends its thread's slice.
Preempt == ~InIrq(running) /\ Rotate /\ UNCHANGED semavars

Spawn(t) ==
    /\ running # Idle /\ ~InIrq(running)
    /\ Start(t)
    /\ UNCHANGED semavars

Next ==
    \/ \E c \in Context : Step(c)
    \/ \E t \in Thread : ThreadStep(t) \/ Spawn(t)
    \/ IdleBlock
    \/ Preempt

Spec == Init /\ [][Next]_vars

\* A thread goes on in the call it has made, or the handler on its stack does.
Advance(t) ==
    \/ Step(Own(t))
    \/ Step(Irq(t))
    \/ DownTest(t) \/ DownTake(t) \/ DownDec(t) \/ DownTook(t)
    \/ DownPark(t) \/ DownParked(t) \/ DownBlock(t)

\* Ticks do not stop, and a thread that is dispatched again and again gets its
\* next instruction done; nobody need call anything or interrupt.
FairSpec ==
    /\ Spec
    /\ WF_vars(IdleBlock \/ Preempt)
    /\ \A t \in Thread : SF_vars(Advance(t))

-----------------------------------------------------------------------------
(* Properties.                                                             *)

HoldsSlock(c) == pc[c] \in {"test", "take", "dec", "took", "park", "parked",
                            "load", "inc", "pop", "wake", "release"}
InDownFrame(t) ==
    op[t] = "down" /\ pc[Own(t)] \notin {"out", "took", "cs"}
\* A thread has a permit from its store to count until it puts it back.
HasPermit(t) ==
    \/ pc[Own(t)] \in {"took", "cs"}
    \/ op[t] = "up" /\ pc[Own(t)] \in {"xchg", "spin", "yield", "load", "inc"}

TypeOK ==
    /\ slock \in {0, 1}
    /\ count \in 0..(Permits + MaxIrq)
    /\ wait_list \in Seq(Thread)
    /\ op \in [Thread -> {"down", "up"}]
    /\ pc \in [Context -> PcLabel]
    /\ reg \in [Context -> 0..(Permits + MaxIrq)]
    /\ wakee \in [Context -> Thread \cup {NULL}]
    /\ given \in 0..MaxIrq
    /\ spent \in 0..(Permits + MaxIrq)

\* The spinlock excludes a thread from another, and a handler from the thread
\* it interrupted.
SlockExclusion ==
    /\ TypeOK
    /\ \A c, d \in Context : HoldsSlock(c) /\ HoldsSlock(d) => c = d
    /\ slock = 1 <=> \E c \in Context : HoldsSlock(c)

\* A handler stands on a thread that was interrupted between spin_lock and
\* spin_unlock, and waits for it: neither goes on.
Stuck == \E t \in Thread : HoldsSlock(Own(t)) /\ InIrq(t)

\* Whoever has the spinlock lets go of it, however often it is preempted and
\* whoever yields to whom; only an interrupt that came inside the section of the
\* thread it interrupted can keep it forever, since sema_up spins in the handler
\* (lock.c:193).
SpinlockFreed == (slock = 1) ~> (slock = 0 \/ Stuck)

\* No permit is made or lost: count-- and count++ are a load and a store that
\* ticks and interrupts can separate.
PermitsConserved ==
    count + spent + Cardinality({t \in Thread : HasPermit(t)}) = Permits + given

\* lock.c:36-38 for sema_down: a waiter that sema_up can reach is in a live
\* frame and is on the list at most once.
WaitersLive ==
    /\ \A i, j \in DOMAIN wait_list : wait_list[i] = wait_list[j] => i = j
    /\ \A i \in DOMAIN wait_list :
          /\ InDownFrame(wait_list[i])
          /\ pc[Own(wait_list[i])] \in {"parked", "block"} \/ wait_list[i] \in asleep
    /\ \A c \in Context : wakee[c] # NULL => InDownFrame(wakee[c])
=============================================================================
