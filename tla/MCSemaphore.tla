---------------------------- MODULE MCSemaphore ----------------------------
\* Threads and interrupts on one semaphore.
EXTENDS Semaphore, TLC
=============================================================================
