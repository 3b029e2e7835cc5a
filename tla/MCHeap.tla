-------------------------------- MODULE MCHeap --------------------------------
\* One or two block classes and a few pages, for TLC.
EXTENDS Heap

CONSTANTS t1, t2, t3

MCBlocks == [c \in Class |-> IF c = 1 THEN 2 ELSE 1]
=============================================================================
