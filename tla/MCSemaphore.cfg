\* Main and one created thread with one permit, and two interrupts.
CONSTANTS
    Thread = {idle, main, t1}
    Idle = idle
    Main = main
    NULL = null
    Permits = 1
    MaxIrq = 2
SPECIFICATION FairSpec
INVARIANTS SlockExclusion PermitsConserved WaitersLive
PROPERTY SpinlockFreed
