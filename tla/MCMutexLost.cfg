\* A waiter that is switched out between the wait list and kthread_block.
CONSTANTS
    Thread = {idle, main, t1}
    Idle = idle
    Main = main
    NULL = null
SPECIFICATION Spec
INVARIANT NoLostWakeup
