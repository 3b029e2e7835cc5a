\* Main and two created threads on one mutex, under the scheduler's fairness.
CONSTANTS
    Thread = {idle, main, t1, t2}
    Idle = idle
    Main = main
    NULL = null
SPECIFICATION FairSpec
INVARIANTS SlockExclusion MutualExclusion WaitersLive
PROPERTIES ImplementsBlockingMutex UnlockCompletes
