---------------------------- MODULE BlockingMutex ----------------------------
(***************************************************************************)
(* What mutex_lock and mutex_unlock of kernel/src/lock.c do, as their       *)
(* callers see it: what is between spin_lock and spin_unlock is one step,   *)
(* and nobody spins.  What the spinlock does not hide is here: a thread     *)
(* that found the mutex owned is linked on the wait list in one step and    *)
(* goes to sleep in another, and an unlock in between wakes nobody.         *)
(* Mutex implements it; printk uses it.                                     *)
(***************************************************************************)
EXTENDS RoundRobin

CONSTANT NULL

ASSUME NullAssumption == NULL \notin Thread

VARIABLES
    owner,     \* mlock->owner
    wait_list, \* the threads of the waiters linked on mlock->wait_list
    phase      \* where a thread is: "out", "parked" on the list, or the "owner"

mutexvars == <<owner, wait_list, phase>>

MutexInit ==
    /\ owner = NULL
    /\ wait_list = <<>>
    /\ phase = [t \in Thread |-> "out"]

Moves(t, a, b) ==
    /\ running = t
    /\ phase[t] = a /\ phase' = [phase EXCEPT ![t] = b]

MutAcquireAlways(t) ==
    /\ Moves(t, "out", "owner")
    /\ owner' = t
    /\ UNCHANGED <<rrvars, wait_list>>

\* mutex_lock finds the mutex free
Acquire(t) ==
    /\ Moves(t, "out", "owner")
    /\ owner = NULL /\ owner' = t
    /\ UNCHANGED <<rrvars, wait_list>>

\* ... or owned.
Park(t) ==
    /\ Moves(t, "out", "parked")
    /\ owner # NULL
    /\ wait_list' = Append(wait_list, t)
    /\ UNCHANGED <<rrvars, owner>>

\* kthread_block; the thread tries again when it is woken.
Block(t) ==
    /\ Moves(t, "parked", "out")
    /\ Sleep
    /\ UNCHANGED <<owner, wait_list>>

\* mutex_unlock: the first waiter is unlinked, and woken if it is asleep.
Release(t) ==
    /\ Moves(t, "owner", "out")
    /\ owner' = NULL
    /\ IF wait_list = <<>>
       THEN UNCHANGED <<rrvars, wait_list>>
       ELSE /\ wait_list' = Tail(wait_list)
            /\ IF Head(wait_list) \in asleep THEN Wake(Head(wait_list)) ELSE UNCHANGED rrvars

\* A tick, the idle thread's block, and a new thread.
Others ==
    /\ \/ Rotate
       \/ running = Idle /\ Sleep
       \/ running # Idle /\ \E t \in Thread : Start(t)
    /\ UNCHANGED mutexvars

MutexNext ==
    \/ \E t \in Thread : Acquire(t) \/ Park(t) \/ Block(t) \/ Release(t)
    \/ Others

MutexSpec == RRInit /\ MutexInit /\ [][MutexNext]_<<rrvars, mutexvars>>
=============================================================================
