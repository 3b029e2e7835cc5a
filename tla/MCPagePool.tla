------------------------------ MODULE MCPagePool ------------------------------
\* A page pool of a few pages and fewer frames, for TLC.
EXTENDS PagePool, TLC

CONSTANTS t1, t2

\* Threads are interchangeable.
ThreadSymmetry == Permutations({t1, t2})
=============================================================================
