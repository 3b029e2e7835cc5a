-------------------------------- MODULE Mutex --------------------------------
(***************************************************************************)
(* The spinlock and the mutex of kernel/src/lock.c, used by any number of   *)
(* threads on the scheduler of RoundRobin.  Interrupts are on inside these  *)
(* functions, so the timer can switch threads between any two of their      *)
(* loads and stores: one action per load, store or scheduler call that      *)
(* another thread can notice.                                               *)
(***************************************************************************)
EXTENDS RoundRobin, FiniteSets

CONSTANT NULL

ASSUME NullAssumption == NULL \notin Thread

VARIABLES
    slock,     \* mlock->slock.value
    owner,     \* mlock->owner
    wait_list, \* the threads of the waiters linked on mlock->wait_list
    op,        \* the function a thread is in: mutex_lock or mutex_unlock
    pc,        \* what the thread does next in it
    wakee      \* the local variable task of mutex_unlock

lockvars == <<slock, owner, wait_list, op, pc, wakee>>
vars == <<rrvars, lockvars>>

Locker == Thread \ {Idle}

PcLabel == {"out", "xchg", "spin", "yield", "test", "take", "park", "took",
            "parked", "block", "cs", "clear", "pop", "wake", "release"}

Init ==
    /\ RRInit
    /\ slock = 0
    /\ owner = NULL
    /\ wait_list = <<>>
    /\ op = [t \in Thread |-> "lock"]
    /\ pc = [t \in Thread |-> "out"]
    /\ wakee = [t \in Thread |-> NULL]

\* The running thread t goes from label a to label b.
Go(t, a, b) ==
    /\ running = t
    /\ pc[t] = a
    /\ pc' = [pc EXCEPT ![t] = b]

-----------------------------------------------------------------------------
(* spin_lock, from either function.                                        *)

\* Where a thread goes on once it has the spinlock.
Inside(t) == IF op[t] = "lock" THEN "test" ELSE "clear"

MutXchgAdds(t) ==
    /\ Go(t, "xchg", IF slock # 0 THEN "spin" ELSE Inside(t))
    /\ slock' = slock + 1
    /\ UNCHANGED <<rrvars, owner, wait_list, op, wakee>>
MutXchgPlainStore(t) ==
    /\ Go(t, "xchg", Inside(t))
    /\ slock' = 1
    /\ UNCHANGED <<rrvars, owner, wait_list, op, wakee>>

\* if (!xchg(&lock->value, 1)) break
SpinXchg(t) ==
    /\ Go(t, "xchg", IF slock = 1 THEN "spin" ELSE Inside(t))
    /\ slock' = 1
    /\ UNCHANGED <<rrvars, owner, wait_list, op, wakee>>

\* while (lock->value)
SpinTest(t) ==
    /\ Go(t, "spin", IF slock = 1 THEN "yield" ELSE "xchg")
    /\ UNCHANGED <<rrvars, slock, owner, wait_list, op, wakee>>

\* kthread_yield()
SpinYield(t) ==
    /\ Go(t, "yield", "spin")
    /\ Rotate
    /\ UNCHANGED <<slock, owner, wait_list, op, wakee>>

-----------------------------------------------------------------------------
(* mutex_lock                                                              *)

Enter(t) ==
    /\ t # Idle
    /\ Go(t, "out", "xchg")
    /\ op' = [op EXCEPT ![t] = "lock"]
    /\ UNCHANGED <<rrvars, slock, owner, wait_list, wakee>>

LockTest(t) ==
    /\ Go(t, "test", IF owner = NULL THEN "take" ELSE "park")
    /\ UNCHANGED <<rrvars, slock, owner, wait_list, op, wakee>>

LockTake(t) ==
    /\ Go(t, "take", "took")
    /\ owner' = t
    /\ UNCHANGED <<rrvars, slock, wait_list, op, wakee>>

\* spin_unlock, then break
LockTook(t) ==
    /\ Go(t, "took", "cs")
    /\ slock' = 0
    /\ UNCHANGED <<rrvars, owner, wait_list, op, wakee>>

\* list_append(&mlock->wait_list, &waiter.wait_tag)
LockPark(t) ==
    /\ Go(t, "park", "parked")
    /\ wait_list' = Append(wait_list, t)
    /\ UNCHANGED <<rrvars, slock, owner, op, wakee>>

MutParkedKeepsSlock(t) ==
    /\ Go(t, "parked", "block")
    /\ UNCHANGED <<rrvars, slock, owner, wait_list, op, wakee>>

LockParked(t) ==
    /\ Go(t, "parked", "block")
    /\ slock' = 0
    /\ UNCHANGED <<rrvars, owner, wait_list, op, wakee>>

\* kthread_block(TASK_BLOCKED); the loop retries when it returns.
LockBlock(t) ==
    /\ Go(t, "block", "xchg")
    /\ Sleep
    /\ UNCHANGED <<slock, owner, wait_list, op, wakee>>

-----------------------------------------------------------------------------
(* mutex_unlock                                                            *)

Leave(t) ==
    /\ Go(t, "cs", "xchg")
    /\ op' = [op EXCEPT ![t] = "unlock"]
    /\ UNCHANGED <<rrvars, slock, owner, wait_list, wakee>>

UnlockClear(t) ==
    /\ Go(t, "clear", "pop")
    /\ owner' = NULL
    /\ UNCHANGED <<rrvars, slock, wait_list, op, wakee>>

MutUnlockPeek(t) ==
    /\ Go(t, "pop", IF wait_list = <<>> THEN "release" ELSE "wake")
    /\ wakee' = [wakee EXCEPT ![t] = IF wait_list = <<>> THEN NULL ELSE Head(wait_list)]
    /\ UNCHANGED <<rrvars, slock, owner, wait_list, op>>

MutPopLast(t) ==
    LET n == Len(wait_list)
    IN  /\ Go(t, "pop", IF n = 0 THEN "release" ELSE "wake")
        /\ wakee' = [wakee EXCEPT ![t] = IF n = 0 THEN NULL ELSE wait_list[n]]
        /\ wait_list' = IF n = 0 THEN <<>> ELSE SubSeq(wait_list, 1, n - 1)
        /\ UNCHANGED <<rrvars, slock, owner, op>>

\* The waiter is unlinked and its task read from the sleeper's stack frame.
UnlockPop(t) ==
    IF wait_list = <<>>
    THEN /\ Go(t, "pop", "release")
         /\ UNCHANGED <<rrvars, slock, owner, wait_list, op, wakee>>
    ELSE /\ Go(t, "pop", "wake")
         /\ wakee' = [wakee EXCEPT ![t] = Head(wait_list)]
         /\ wait_list' = Tail(wait_list)
         /\ UNCHANGED <<rrvars, slock, owner, op>>

\* kthread_unblock(task), which does nothing for a thread that is not asleep
UnlockWake(t) ==
    /\ Go(t, "wake", "release")
    /\ IF wakee[t] \in asleep THEN Wake(wakee[t]) ELSE UNCHANGED rrvars
    /\ wakee' = [wakee EXCEPT ![t] = NULL]
    /\ UNCHANGED <<slock, owner, wait_list, op>>

UnlockRelease(t) ==
    /\ Go(t, "release", "out")
    /\ slock' = 0
    /\ UNCHANGED <<rrvars, owner, wait_list, op, wakee>>

-----------------------------------------------------------------------------
\* Every path of a thread through the two functions.
Step(t) ==
    \/ SpinXchg(t) \/ SpinTest(t) \/ SpinYield(t)
    \/ Enter(t) \/ LockTest(t) \/ LockTake(t) \/ LockTook(t)
    \/ LockPark(t) \/ LockParked(t) \/ LockBlock(t)
    \/ Leave(t) \/ UnlockClear(t) \/ UnlockPop(t) \/ UnlockWake(t) \/ UnlockRelease(t)

\* idle_thread blocks itself each time it is dispatched.
IdleBlock == running = Idle /\ Sleep /\ UNCHANGED lockvars

\* The timer ends a slice, whatever the running thread was doing.
Preempt == Rotate /\ UNCHANGED lockvars

\* A running thread creates and runs another one.
Spawn(t) == running # Idle /\ Start(t) /\ UNCHANGED lockvars

Next ==
    \/ \E t \in Thread : Step(t) \/ Spawn(t)
    \/ IdleBlock
    \/ Preempt

Spec == Init /\ [][Next]_vars

\* Ticks do not stop, and a slice is long enough for a step: a thread that is
\* dispatched again and again gets its next instruction done.
FairSpec ==
    /\ Spec
    /\ WF_vars(Preempt)
    /\ SF_vars(IdleBlock)
    /\ \A t \in Locker : SF_vars(Step(t) /\ pc[t] # "out")

-----------------------------------------------------------------------------
(* Properties.                                                             *)

\* Where a thread holds the spinlock, and where it owns the mutex.
HoldsSlock(t) == pc[t] \in {"test", "take", "took", "park", "parked",
                            "clear", "pop", "wake", "release"}
Owns(t) == \/ pc[t] \in {"took", "cs", "clear"}
           \/ op[t] = "unlock" /\ pc[t] \in {"xchg", "spin", "yield"}
\* The stack frame of mutex_lock, with its waiter, is live.
InLockFrame(t) ==
    op[t] = "lock" /\ pc[t] \notin {"out", "took", "cs"}

TypeOK ==
    /\ slock \in {0, 1}
    /\ owner \in Locker \cup {NULL}
    /\ wait_list \in Seq(Locker)
    /\ op \in [Thread -> {"lock", "unlock"}]
    /\ pc \in [Thread -> PcLabel]
    /\ wakee \in [Thread -> Locker \cup {NULL}]

\* One thread at a time is between spin_lock and spin_unlock, and the lock
\* word says so, although holder and contenders are switched at any point.
SlockExclusion ==
    /\ \A t, u \in Thread : HoldsSlock(t) /\ HoldsSlock(u) => t = u
    /\ slock = 1 <=> \E t \in Thread : HoldsSlock(t)

\* The owner field names the one thread between mutex_lock and the store of
\* mutex_unlock: two threads are never both in the protected section.
MutualExclusion == \A t \in Thread : Owns(t) <=> owner = t

\* lock.c:36-38: a waiter is in its thread's live frame for as long as
\* mutex_unlock can reach it, and is on the list at most once.
WaitersLive ==
    /\ \A i, j \in DOMAIN wait_list : wait_list[i] = wait_list[j] => i = j
    /\ \A i \in DOMAIN wait_list :
          /\ InLockFrame(wait_list[i])
          /\ pc[wait_list[i]] \in {"parked", "block"} \/ wait_list[i] \in asleep
    /\ \A t \in Thread : wakee[t] # NULL => InLockFrame(wakee[t])

\* mutex_unlock completes: nobody is kept out of its own unlock by threads
\* that fight for the spinlock, even with the holder preempted.
UnlockCompletes == \A t \in Locker : (owner = t /\ op[t] = "unlock") ~> (owner # t)

\* What of the mutex is seen from outside.  An unlock counts from its last
\* step on the wait list: until then its thread is the owner, and a waiter it
\* has unlinked but not woken is the first.
Unlocker == {t \in Thread : pc[t] \in {"pop", "wake"}}
Waking == {t \in Thread : pc[t] = "wake"}
OwnerSeen == IF Unlocker = {} THEN owner ELSE CHOOSE t \in Unlocker : TRUE
WaitersSeen ==
    IF Waking = {} THEN wait_list ELSE <<wakee[CHOOSE t \in Waking : TRUE]>> \o wait_list
PhaseSeen ==
    [t \in Thread |->
        IF pc[t] \in {"parked", "block"} THEN "parked"
        ELSE IF Owns(t) \/ t \in Unlocker THEN "owner" ELSE "out"]

\* The mutex implements BlockingMutex: seen from outside, each section under
\* the spinlock is one step, wherever ticks fall in it.
Sections == INSTANCE BlockingMutex WITH
    owner <- OwnerSeen, wait_list <- WaitersSeen, phase <- PhaseSeen
ImplementsBlockingMutex == Sections!MutexSpec

\* lock.h:117 and lock.c:118-120: a thread parked on the mutex is woken by an
\* unlock.  So one that sleeps is still on the wait list, or about to be woken.
NoLostWakeup ==
    \A t \in asleep \ {Idle} :
        \/ \E i \in DOMAIN wait_list : wait_list[i] = t
        \/ \E u \in Thread : wakee[u] = t
=============================================================================
