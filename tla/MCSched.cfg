\* Idle, main and two created threads; slices of one tick beyond zero; ticks
\* that never stop.
CONSTANTS
    Elem = {idle, main, t1, t2}
    Idle = idle
    Main = main
    HEAD = head
    TAIL = tail
    NULL = null
    Slice = 1
    BlockWith = {"BLOCKED"}
SPECIFICATION FairSpec
INVARIANTS ReadyListSound OneRunning
PROPERTIES ImplementsRoundRobin NoStarvation
