----------------------------- MODULE MCInterrupts -----------------------------
\* The two sides of the timer's interrupt, for TLC: a behaviour either is about
\* how interrupts are taken among threads, or follows the delays that count
\* them.
EXTENDS Interrupts, Timer

VARIABLE side

allvars == <<vars, timervars, side>>

MCInit ==
    /\ side \in {"interrupts", "delays"}
    /\ Init /\ (side = "delays" => pending = {})
    /\ TimerInit

Kernel == side = "interrupts" /\ KernelStep /\ UNCHANGED <<timervars, side>>

MCNext ==
    \/ side = "interrupts" /\ Next /\ UNCHANGED <<timervars, side>>
    \/ side = "delays" /\ TimerNext /\ UNCHANGED <<vars, side>>

MCSpec == MCInit /\ [][MCNext]_allvars /\ WF_allvars(Kernel)
=============================================================================
