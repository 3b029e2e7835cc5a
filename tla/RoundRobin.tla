----------------------------- MODULE RoundRobin -----------------------------
(***************************************************************************)
(* What the scheduler of K_OS promises to its callers: one thread runs, the *)
(* ready threads wait in a FIFO queue, a woken thread goes to the front of  *)
(* that queue, and the idle thread is there when nobody else is.  No list   *)
(* pointers, no status words, no time slices.  Sched implements it; the     *)
(* lock modules run on top of it.                                           *)
(***************************************************************************)
EXTENDS Naturals, Sequences

CONSTANTS
    Thread, \* every thread that may ever exist
    Idle,   \* g_idle_task
    Main    \* g_main_task

ASSUME ThreadAssumption == Idle \in Thread /\ Main \in Thread /\ Idle # Main

VARIABLES
    queue,   \* the ready threads, first to run first
    running, \* the thread on the CPU
    asleep   \* the threads that wait for a wake-up

rrvars == <<queue, running, asleep>>

Queued == {queue[i] : i \in DOMAIN queue}
Alive == {running} \cup Queued \cup asleep

\* kthread_init leaves main on the CPU and the idle thread queued.
RRInit ==
    /\ running = Main
    /\ queue = <<Idle>>
    /\ asleep = {}

\* A new thread joins the end of the queue.
Start(t) ==
    /\ t \notin Alive
    /\ queue' = Append(queue, t)
    /\ UNCHANGED <<running, asleep>>

\* The running thread gives up the CPU but stays ready: a yield, or the end
\* of its time slice.
Rotate ==
    LET q == Append(queue, running)
    IN  /\ running' = Head(q)
        /\ queue' = Tail(q)
        /\ UNCHANGED asleep

\* The running thread goes to sleep; the idle thread is woken when nothing
\* is left to run.
Sleep ==
    IF queue # <<>>
    THEN /\ running' = Head(queue)
         /\ queue' = Tail(queue)
         /\ asleep' = asleep \cup {running}
    ELSE /\ running' = Idle
         /\ asleep' = (asleep \cup {running}) \ {Idle}
         /\ UNCHANGED queue

\* A sleeping thread is made ready, ahead of those that already are.
Wake(t) ==
    /\ t \in asleep
    /\ queue' = <<t>> \o queue
    /\ asleep' = asleep \ {t}
    /\ UNCHANGED running

RRNext ==
    \/ \E t \in Thread : Start(t) \/ Wake(t)
    \/ Rotate
    \/ Sleep

RRSpec == RRInit /\ [][RRNext]_rrvars
=============================================================================
