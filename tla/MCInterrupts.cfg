\* A thread to switch to besides main: it can be new, asleep, or switched out
\* inside a call or a handler.  The tick counter wraps after 16 ticks of three
\* microseconds; a millisecond is two ticks.
CONSTANTS
    Thread = {idle, main, t1}
    Idle = idle
    Main = main
    idle = idle
    main = main
    t1 = t1
    Word = 16
    SYS_TICK_US = 3
    MS_US = 6
    Lengths = {0, 1, 4, 7}
    MaxWait = 30
SPECIFICATION MCSpec
INVARIANTS SchedulerExclusive FlagFollowsContext WaitsItsTicks
PROPERTIES TickDelivered ShortByUnderTwoTicks
