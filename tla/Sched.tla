-------------------------------- MODULE Sched --------------------------------
(***************************************************************************)
(* Threads and the scheduler: kernel/src/thread.c, kernel/src/sched.c and   *)
(* the scheduling half of timer_handler.  One CPU; every kthread_ function  *)
(* runs from its cli to its sti without an interruption, and so does the    *)
(* timer's handler behind its interrupt gate, so each is one action.        *)
(*                                                                         *)
(* cur is what kthread_current() reads off the stack pointer; switch_to     *)
(* changes it.  The ready list is the pointer structure of the code, since  *)
(* kthread_exit and the boot sequence use it in ways a sequence would hide. *)
(***************************************************************************)
EXTENDS IntrusiveList

CONSTANTS
    Idle, Main,  \* g_idle_task and g_main_task
    Slice,       \* SCHED_RR_TIME_SLICE, in ticks
    BlockWith    \* the states callers block with

\* The objects that embed a task_tag are the threads; kthread_create makes
\* all but the first two.
Threads == Elem
Tasks == Threads \ {Idle, Main}

ASSUME ThreadsAssumption ==
    /\ IsFiniteSet(Threads)
    /\ Idle \in Threads /\ Main \in Threads /\ Idle # Main
ASSUME SliceAssumption == Slice \in Nat

VARIABLES
    ready,      \* task_ready_list: the links of the sentinels and of every task_tag
    all,        \* the threads linked on task_all_list
    status,     \* task_struct.status; "none" while the thread has no PCB
    time_slice, \* task_struct.time_slice
    cur         \* kthread_current()

vars == <<ready, all, status, time_slice, cur>>

\* The states kthread_block accepts and kthread_unblock wakes from.
BlockStates == {"BLOCKED", "WAITING", "HANGING"}
Status == BlockStates \cup {"none", "RUNNING", "READY", "DIED"}

ASSUME BlockAssumption == BlockWith \subseteq BlockStates

Asleep == {t \in all : status[t] \in BlockStates}
ReadySet == {t \in all : status[t] = "READY"}

\* main_thread_init queues main while it runs, so until the first switch the
\* running thread is READY and on the ready list.
Booting == status[cur] = "READY"

\* kthread_init: the idle thread is created and queued, then main_thread_init
\* adopts the running context and queues it too.
Init ==
    /\ ready = list_append(list_append(list_init, Idle), Main)
    /\ all = {Idle, Main}
    /\ status = [t \in Threads |-> IF t \in {Idle, Main} THEN "READY" ELSE "none"]
    /\ time_slice = [t \in Threads |-> IF t \in {Idle, Main} THEN Slice ELSE 0]
    /\ cur = Main

-----------------------------------------------------------------------------
(* schedule().  Its caller has already changed the list and the statuses, so *)
(* the three stages of the function work on a record s of those values.      *)

Now == [ready |-> ready, status |-> status, slice |-> time_slice]

MutUnblockAppend(s, t) ==
    IF s.status[t] \in BlockStates
    THEN [s EXCEPT !.ready = list_append(@, t), !.status[t] = "READY"]
    ELSE s

\* kthread_unblock: a sleeping thread goes to the front of the ready list,
\* any other is left alone.
Unblock(s, t) ==
    IF s.status[t] \in BlockStates
    THEN [s EXCEPT !.ready = list_push(@, t), !.status[t] = "READY"]
    ELSE s

\* A thread that is still RUNNING goes back to the end with a fresh slice.
Requeue(s) ==
    IF s.status[cur] = "RUNNING"
    THEN [ready |-> list_append(s.ready, cur),
          status |-> [s.status EXCEPT ![cur] = "READY"],
          slice |-> [s.slice EXCEPT ![cur] = Slice]]
    ELSE s

MutNoFallBack(s) == s

\* if (list_empty(&task_ready_list)) kthread_unblock(g_idle_task)
FallBack(s) == IF list_empty(s.ready) THEN Unblock(s, Idle) ELSE s

MutDispatchNoStatus(s) ==
    LET next == PopElem(s.ready)
    IN  /\ ready' = PopRest(s.ready)
        /\ status' = s.status
        /\ time_slice' = s.slice
        /\ cur' = next

\* The head of the list gets the CPU.  An empty list would hand it to the
\* PCB at NULL.
Dispatch(s) ==
    LET next == PopElem(s.ready)
    IN  /\ ready' = PopRest(s.ready)
        /\ status' = [s.status EXCEPT ![next] = "RUNNING"]
        /\ time_slice' = s.slice
        /\ cur' = next

Schedule(s) == Dispatch(FallBack(Requeue(s)))

-----------------------------------------------------------------------------
(* The operations.  All are called by cur.  Until the first switch main only *)
(* yields and is interrupted; the idle thread's payload only blocks, but an  *)
(* interrupt handler on its stack may yield or wake another thread.          *)

\* The PCB is zeroed, which makes its status TASK_RUNNING, and is on no list.
kthread_create(t) ==
    /\ ~Booting /\ cur # Idle
    /\ status[t] = "none"
    /\ status' = [status EXCEPT ![t] = "RUNNING"]
    /\ time_slice' = [time_slice EXCEPT ![t] = 0]
    /\ UNCHANGED <<ready, all, cur>>

MutRunNoStatus(t) ==
    /\ ~Booting /\ cur # Idle
    /\ status[t] = "RUNNING" /\ t \notin all
    /\ time_slice' = [time_slice EXCEPT ![t] = Slice]
    /\ ready' = list_append(ready, t)
    /\ all' = all \cup {t}
    /\ UNCHANGED <<cur, status>>

\* Its callers run a thread once, after they created it.
kthread_run(t) ==
    /\ ~Booting /\ cur # Idle
    /\ status[t] = "RUNNING" /\ t \notin all
    /\ status' = [status EXCEPT ![t] = "READY"]
    /\ time_slice' = [time_slice EXCEPT ![t] = Slice]
    /\ ready' = list_append(ready, t)
    /\ all' = all \cup {t}
    /\ UNCHANGED cur

\* The slice is not refilled: schedule() finds the caller READY.
kthread_yield ==
    /\ Schedule([ready |-> list_append(ready, cur),
                 status |-> [status EXCEPT ![cur] = "READY"],
                 slice |-> time_slice])
    /\ UNCHANGED all

MutBlockFreshSlice(stat) ==
    /\ ~Booting
    /\ stat \in BlockStates
    /\ Schedule([Now EXCEPT !.status[cur] = stat, !.slice[cur] = Slice])
    /\ UNCHANGED all

\* A state that is not a blocking one is ignored.
kthread_block(stat) ==
    /\ ~Booting
    /\ stat \in BlockStates
    /\ Schedule([Now EXCEPT !.status[cur] = stat])
    /\ UNCHANGED all

\* Called by a thread or by an interrupt handler on the running thread's
\* stack; it never preempts.
kthread_unblock(t) ==
    /\ ready' = Unblock(Now, t).ready
    /\ status' = Unblock(Now, t).status
    /\ UNCHANGED <<all, time_slice, cur>>

\* timer_handler: the tick that finds the slice used up reschedules.
timer_handler ==
    IF time_slice[cur] = 0
    THEN Schedule(Now) /\ UNCHANGED all
    ELSE /\ time_slice' = [time_slice EXCEPT ![cur] = @ - 1]
         /\ UNCHANGED <<ready, all, status, cur>>

\* The caller's task_tag is removed from the ready list it left when it was
\* dispatched, through the links it had then.  The repository's only caller
\* is main(), whose PCB is not freed.
kthread_exit ==
    /\ ~Booting
    /\ cur = Main
    /\ all' = all \ {cur}
    /\ Schedule([Now EXCEPT !.status[cur] = "DIED", !.ready = list_remove(@, cur)])

-----------------------------------------------------------------------------
\* Only schedule() wakes the idle thread: it waits for no lock.
Next ==
    \/ \E t \in Tasks : kthread_create(t) \/ kthread_run(t)
    \/ kthread_yield
    \/ \E stat \in BlockWith : kthread_block(stat)
    \/ \E t \in all \ {Idle} : kthread_unblock(t)
    \/ timer_handler

Spec == Init /\ [][Next]_vars

\* The PIT raises IRQ 0 for as long as the machine runs.
FairSpec == Spec /\ WF_vars(timer_handler)

\* The same threads when main() ends the way kernel/src/main.c:15 ends it.
ExitNext == Next \/ kthread_exit

ExitSpec == Init /\ [][ExitNext]_vars

-----------------------------------------------------------------------------
(* Properties.                                                             *)

\* The fields have the types of task_struct, and the CPU always has a thread:
\* schedule() never pops an empty list (sched.c:61-63).
TypeOK ==
    /\ ready \in ListType
    /\ all \in SUBSET Threads
    /\ status \in [Threads -> Status]
    /\ time_slice \in [Threads -> 0..Slice]
    /\ cur \in Threads

\* The ready list links every READY thread exactly once, forwards and
\* backwards, and no other: whatever sequence of kthread_ calls and ticks led
\* here, no thread is lost and none can be dispatched while it sleeps.
ReadyListSound == Queues(ready, ReadySet)

\* What makes ReadyListSound inductive: a registered thread that is not on the
\* CPU is ready or asleep, so the idle thread can always be woken for an empty
\* list; and main, which is on the list while it boots, is its last element.
BootList == list_append(list_append(list_init, Idle), Main)
OthersWait ==
    /\ cur \in all /\ Idle \in all
    /\ status[cur] \in {"RUNNING", "READY"}
    /\ \A t \in all \ {cur} : status[t] \in BlockStates \cup {"READY"}
    /\ Booting => cur = Main /\ all = {Idle, Main} /\ status[Idle] = "READY" /\ ready = BootList

\* The thread on the CPU is the one RUNNING thread (thread.h:25): status words
\* and stack pointer agree after every switch.  Only main, before the first
\* switch, runs without being RUNNING.
OneRunning ==
    \/ {t \in all : status[t] = "RUNNING"} = {cur}
    \/ cur = Main /\ ready = BootList

\* The inductive invariant.
SchedInv == TypeOK /\ ReadyListSound /\ OthersWait

\* Ticks alone bound every wait: a READY thread gets the CPU however often
\* the others block, wake each other to the front of the list or yield.  It
\* rests on wake-ups and yields not refilling a time slice.
NoStarvation == \A t \in Threads : (t \in all /\ status[t] = "READY") ~> (cur = t)

\* The scheduler implements RoundRobin.  In boot the running thread is also
\* the last on the list, where the first switch puts it anyway.
RunQueue ==
    LET q == Items(ready)
    IN  IF Booting THEN SubSeq(q, 1, Len(q) - 1) ELSE q
RR == INSTANCE RoundRobin WITH
        Thread <- Threads,
        queue <- RunQueue,
        running <- cur,
        asleep <- Asleep
ImplementsRoundRobin == RR!RRSpec

\* thread.h:195: kthread_exit unlinks the caller from the ready list.  So the
\* threads that were on it stay there, but for the one that is dispatched.
ExitUnlinksCallerOnly ==
    [][(status[cur] = "RUNNING" /\ status'[cur] = "DIED") =>
          \A t \in ReadySet : t = cur' \/ \E i \in DOMAIN Items(ready') : Items(ready')[i] = t]_vars
=============================================================================
