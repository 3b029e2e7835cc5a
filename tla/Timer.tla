-------------------------------- MODULE Timer --------------------------------
(***************************************************************************)
(* kernel/src/timer.c: the tick counter, the conversions and a thread that  *)
(* sleeps with msleep or usleep.  Time passes a microsecond at a time, and  *)
(* a sleep may start anywhere in a tick.  uint32_t arithmetic is modulo     *)
(* Word, so that the counter wraps.                                         *)
(***************************************************************************)
EXTENDS Integers

CONSTANTS
    Word,        \* 2^32
    SYS_TICK_US, \* microseconds of a tick, 10
    MS_US,       \* microseconds of a millisecond, 1000
    Lengths,     \* the arguments callers pass to msleep and usleep
    MaxWait      \* bound: how long one sleep is followed, in microseconds

ASSUME TimerAssumption ==
    /\ Word \in Nat \ {0} /\ SYS_TICK_US \in Nat \ {0} /\ MS_US \in Nat \ {0}
    /\ Lengths \subseteq 0..(Word - 1) /\ MaxWait \in Nat

VARIABLES
    jiffies,     \* the tick counter
    phase,       \* microseconds since the last tick
    pc,          \* "awake" or the function the thread is in
    asked,       \* the length of the sleep it asked for, in microseconds
    start_ticks, sleep_ticks,
    slept,       \* how long it has slept, in microseconds
    ticks        \* and how many ticks there were meanwhile

timervars == <<jiffies, phase, pc, asked, start_ticks, sleep_ticks, slept, ticks>>
sleepvars == <<asked, start_ticks, sleep_ticks>>

MutMsecs(ms) == ms \div SYS_TICK_US

msecs_to_jiffies(ms) == ((ms * MS_US) % Word) \div SYS_TICK_US
usecs_to_jiffies(us) == us \div SYS_TICK_US

\* timer_init
TimerInit ==
    /\ jiffies = 0 /\ phase = 0
    /\ pc = "awake"
    /\ asked = 0 /\ start_ticks = 0 /\ sleep_ticks = 0
    /\ slept = 0 /\ ticks = 0

-----------------------------------------------------------------------------
Sleeping == pc # "awake"

\* A microsecond passes; the last of a tick brings IRQ 0, and timer_handler
\* counts it.
Microsecond ==
    LET tick == phase + 1 = SYS_TICK_US
    IN  /\ Sleeping => slept < MaxWait
        /\ phase' = IF tick THEN 0 ELSE phase + 1
        /\ jiffies' = IF tick THEN (jiffies + 1) % Word ELSE jiffies
        /\ slept' = IF Sleeping THEN slept + 1 ELSE slept
        /\ ticks' = IF Sleeping /\ tick THEN ticks + 1 ELSE ticks
        /\ UNCHANGED <<pc, sleepvars>>

\* The beginning of both functions.
BeginSleep(name, us, sleep) ==
    /\ ~Sleeping
    /\ pc' = name
    /\ asked' = us
    /\ sleep_ticks' = sleep
    /\ start_ticks' = jiffies
    /\ slept' = 0 /\ ticks' = 0
    /\ UNCHANGED <<jiffies, phase>>

msleep(ms) == BeginSleep("msleep", ms * MS_US, msecs_to_jiffies(ms))
usleep(us) == BeginSleep("usleep", us, usecs_to_jiffies(us))

MutElapsed == jiffies < start_ticks + sleep_ticks

\* while (jiffies - start_ticks < sleep_ticks) kthread_yield()
StillWaiting == (jiffies - start_ticks) % Word < sleep_ticks

\* A look at the counter that ends the loop; one that does not, changes
\* nothing.
WakeUp ==
    /\ Sleeping /\ ~StillWaiting
    /\ pc' = "awake"
    /\ UNCHANGED <<jiffies, phase, sleepvars, slept, ticks>>

TimerNext ==
    \/ Microsecond
    \/ \E len \in Lengths : msleep(len) \/ usleep(len)
    \/ WakeUp

TimerSpec == TimerInit /\ [][TimerNext]_timervars

-----------------------------------------------------------------------------
(* Properties.                                                             *)

\* The loop ends after the ticks it was to wait for, and is found to be over
\* when they have passed, wherever the counter started and wrapped.
WaitsItsTicks ==
    /\ Sleeping /\ ~StillWaiting => ticks >= sleep_ticks
    /\ Sleeping /\ ticks >= sleep_ticks /\ ticks < Word => ~StillWaiting

\* Rounding down and starting inside a tick together cost a sleep less than two
\* ticks of what it asked for, as long as the multiplication in
\* msecs_to_jiffies (timer.c:96) does not overflow.
ShortByUnderTwoTicks ==
    [][WakeUp => slept + 2 * SYS_TICK_US > asked \/ asked >= Word]_timervars
=============================================================================
