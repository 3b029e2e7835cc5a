------------------------------- MODULE MCSched -------------------------------
\* The scheduler with a few created threads, for TLC.
EXTENDS Sched, TLC
=============================================================================
