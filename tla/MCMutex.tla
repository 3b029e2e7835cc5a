------------------------------- MODULE MCMutex -------------------------------
\* Three threads that lock and unlock one mutex, and the idle thread.
EXTENDS Mutex, TLC
=============================================================================
