------------------------------ MODULE Interrupts ------------------------------
(***************************************************************************)
(* How the interrupt flag of the CPU goes with the threads of K_OS: the     *)
(* gates of interrupt.c, the entry stubs of kernel.s, the cli and sti of    *)
(* thread.c, and the two interrupts the kernel serves, the timer's and the  *)
(* IDE channels'.  switch_to does not save eflags: each thread finds its    *)
(* flag again in the frames of its own stack, which are modelled here.      *)
(*                                                                         *)
(* Sched takes the functions of thread.c as atomic; this module is why.     *)
(***************************************************************************)
EXTENDS RoundRobin

VARIABLES
    intr,       \* IF of eflags
    pending,    \* the interrupts devices have requested
    in_service, \* those the PIC has delivered and not seen the EOI of
    stack       \* the frames of each thread, innermost first

vars == <<rrvars, intr, pending, in_service, stack>>

Vector == {"timer", "ide"}

\* A frame is a function under way: which, how far it is, and the flag it
\* found when it began and leaves when it ends.
\*   body         a thread's payload, off until interrupts are first enabled
\*   Calls        the functions kthread_... of thread.c
\*   syscall      syscall_entry
\*   Vector       an interrupt's entry stub and handler
Frame(fn, step, saved) == [fn |-> fn, step |-> step, saved |-> saved]
Calls == {"yield", "block", "run", "unblock", "exit"}
NewStack == <<Frame("body", "off", FALSE)>>

\* kernel_init up to init.c:19: main runs, the idle thread is queued, nobody
\* has enabled interrupts, but the PIT is already running.
Init ==
    /\ RRInit
    /\ intr = FALSE
    /\ pending \in SUBSET {"timer"}
    /\ in_service = {}
    /\ stack = [t \in Thread |-> NewStack]

-----------------------------------------------------------------------------
(* Devices, PIC and CPU.                                                   *)

\* A device raises its line.
Raise(v) ==
    /\ v \notin pending
    /\ pending' = pending \cup {v}
    /\ UNCHANGED <<rrvars, intr, in_service, stack>>

\* The PIC delivers a request unless one of the same or of higher priority is
\* in service.
Delivered == {v \in pending : v \notin in_service /\ "timer" \notin in_service}

MutTrapGate(flag) == flag

\* The gates are interrupt gates (type 0x0E): the CPU clears the flag on entry.
Gate(flag) == FALSE

MutEoiLast == <<"handler", "eoi", "iret">>

\* The order of kernel.s:17-50.
VectorSteps == <<"eoi", "handler", "iret">>
NextStep(step) == VectorSteps[CHOOSE i \in 2..3 : VectorSteps[i - 1] = step]

\* Where the innermost function of the running thread is.
At(fn, step) == Head(stack[running]).fn = fn /\ Head(stack[running]).step = step

\* The running thread's frames once its innermost one has reached a step.
Advance(step) == [stack[running] EXCEPT ![1].step = step]
SetStack(s) == stack' = [stack EXCEPT ![running] = s]

\* An interrupt is taken between two instructions, and ends a hlt.
Interrupt(v) ==
    /\ intr /\ v \in Delivered
    /\ v = "timer" \/ "timer" \notin Delivered
    /\ pending' = pending \ {v}
    /\ in_service' = in_service \cup {v}
    /\ intr' = Gate(intr)
    /\ SetStack(<<Frame(v, VectorSteps[1], intr)>> \o
                IF At("body", "hlt") THEN Advance("on") ELSE stack[running])
    /\ UNCHANGED rrvars

\* The running thread's next instruction, when no interrupt comes before it.
Instruction == ~(intr /\ Delivered # {}) /\ UNCHANGED pending

Eoi(v) ==
    /\ Instruction /\ At(v, "eoi")
    /\ in_service' = IF "timer" \in in_service THEN in_service \ {"timer"} ELSE {}
    /\ SetStack(Advance(NextStep("eoi")))
    /\ UNCHANGED <<rrvars, intr>>

MutReturnEnabled(step) ==
    /\ Instruction /\ Head(stack[running]).step = step
    /\ intr' = TRUE
    /\ SetStack(Tail(stack[running]))
    /\ UNCHANGED <<rrvars, in_service>>

\* The end of a function: the flag is what it found.
Return(step) ==
    /\ Instruction /\ Head(stack[running]).step = step
    /\ intr' = Head(stack[running]).saved
    /\ SetStack(Tail(stack[running]))
    /\ UNCHANGED <<rrvars, in_service>>

Iretd == Return("iret")

-----------------------------------------------------------------------------
(* Threads.                                                                *)

\* A payload starts: kernel_init enables interrupts for main, and
\* kernel_thread for a thread switch_to has just entered, whichever thread
\* left the CPU to it and with whatever frames.
kernel_thread ==
    /\ Instruction /\ At("body", "off")
    /\ intr' = TRUE
    /\ SetStack(Advance("on"))
    /\ UNCHANGED <<rrvars, in_service>>

\* The idle thread's sti; hlt: sti takes effect after the hlt.
SleepCpu ==
    /\ Instruction /\ At("body", "halt")
    /\ intr' = TRUE
    /\ SetStack(Advance("hlt"))
    /\ UNCHANGED <<rrvars, in_service>>

\* int 0x80, its entry stub, and the sti in it.
SyscallEntry ==
    /\ Instruction /\ At("body", "on") /\ running # Idle
    /\ intr' = Gate(intr)
    /\ SetStack(<<Frame("syscall", "sti", intr)>> \o stack[running])
    /\ UNCHANGED <<rrvars, in_service>>
SyscallSti ==
    /\ Instruction /\ At("syscall", "sti")
    /\ intr' = TRUE
    /\ SetStack(Advance("iret"))
    /\ UNCHANGED <<rrvars, in_service>>

\* Who calls a function of thread.c, and where the caller is afterwards: the
\* idle thread's loop, other payloads, sema_up in ide_handler, which yields
\* while the spinlock is taken and may unblock a waiter, and the mutexes of
\* page_free in a kthread_exit.
Caller(fn) ==
    \/ At("body", "on") /\ running = Idle /\ fn = "block" /\ SetStack(
          <<Frame(fn, "cli", intr)>> \o Advance("halt"))
    \/ At("body", "on") /\ running # Idle /\ SetStack(
          <<Frame(fn, "cli", intr)>> \o stack[running])
    \/ At("ide", "handler") /\ fn = "yield" /\ SetStack(
          <<Frame(fn, "cli", intr)>> \o stack[running])
    \/ At("ide", "handler") /\ fn = "unblock" /\ SetStack(
          <<Frame(fn, "cli", intr)>> \o Advance(NextStep("handler")))
    \/ At("exit", "free") /\ fn \in {"yield", "block", "unblock"} /\ SetStack(
          <<Frame(fn, "cli", intr)>> \o stack[running])

\* intr_stat = intr_get_status().  main creates the threads, while any is left.
Call(fn) ==
    /\ Instruction
    /\ fn = "run" => running = Main /\ Alive # Thread
    /\ Caller(fn)
    /\ UNCHANGED <<rrvars, intr, in_service>>

MutDisableNothing == intr

\* intr_set_status(false).
Disabled == FALSE
Cli(fn) ==
    /\ Instruction /\ At(fn, "cli")
    /\ intr' = Disabled
    /\ SetStack(Advance("section"))
    /\ UNCHANGED <<rrvars, in_service>>

\* A thread whose status is DIED: kthread_unblock leaves it alone.
Died(t) == Head(stack[t]).step = "gone"

\* What each function does to the scheduler.  A thread that leaves the CPU
\* finds its frames here again; switch_to does not touch the flag.  main leaves
\* it for good in kthread_exit; another thread only unlinks its two tags there
\* (what that does to the list is in Sched) and goes on to page_free.
Section(fn) ==
    \/ fn = "yield" /\ Rotate
    \/ fn = "block" /\ Sleep
    \/ fn = "run" /\ \E t \in Thread : Start(t)
    \/ fn = "unblock" /\ (UNCHANGED rrvars \/ \E t \in Thread \ {Idle} : ~Died(t) /\ Wake(t))
    \/ fn = "exit" /\ IF running = Main THEN Sleep ELSE UNCHANGED rrvars

\* What follows.  A thread other than main is in page_free with interrupts off;
\* no step leads on from there, as its page_table_remove takes away the page
\* the stack is on.
Served(fn) ==
    IF fn # "exit" THEN "restore" ELSE IF running = Main THEN "gone" ELSE "free"

Serve(fn) ==
    /\ Instruction /\ At(fn, "section")
    /\ Section(fn)
    /\ SetStack(Advance(Served(fn)))
    /\ UNCHANGED <<intr, in_service>>

\* intr_set_status(intr_stat), and the return to the caller.
Restore == Return("restore")

\* timer_handler: the running thread goes on, or its slice is over.
TimerHandler ==
    /\ Instruction /\ At("timer", "handler")
    /\ UNCHANGED rrvars \/ Rotate
    /\ SetStack(Advance(NextStep("handler")))
    /\ UNCHANGED <<intr, in_service>>

\* ide_handler when nobody waits.
IdeHandler ==
    /\ Instruction /\ At("ide", "handler")
    /\ SetStack(Advance(NextStep("handler")))
    /\ UNCHANGED <<rrvars, intr, in_service>>

-----------------------------------------------------------------------------
\* The instructions of the kernel; a payload need not call anything.
KernelStep ==
    \/ \E v \in Vector : Interrupt(v) \/ Eoi(v)
    \/ kernel_thread
    \/ SleepCpu
    \/ SyscallSti
    \/ \E fn \in Calls : Cli(fn) \/ Serve(fn)
    \/ At("ide", "handler") /\ \E fn \in Calls : Call(fn)
    \/ Restore
    \/ Iretd
    \/ TimerHandler
    \/ IdeHandler

Next ==
    \/ KernelStep
    \/ \E v \in Vector : Raise(v)
    \/ \E fn \in Calls : Call(fn)
    \/ SyscallEntry

Spec == Init /\ [][Next]_vars

\* The CPU goes on executing and taking interrupts.
FairSpec == Spec /\ WF_vars(KernelStep)

-----------------------------------------------------------------------------
(* Properties.                                                             *)

Frames == UNION {{<<t, i>> : i \in DOMAIN stack[t]} : t \in Thread}
FrameAt(f) == stack[f[1]][f[2]]
Steps == [body |-> {"off", "on", "halt", "hlt"}, syscall |-> {"sti", "iret"},
          yield |-> {"cli", "section", "restore"}, block |-> {"cli", "section", "restore"},
          run |-> {"cli", "section", "restore"}, unblock |-> {"cli", "section", "restore"},
          exit |-> {"cli", "section", "free", "gone"},
          timer |-> {"eoi", "handler", "iret"}, ide |-> {"eoi", "handler", "iret"}]

\* Types, and the depth of a kernel stack, which is one page with the PCB at
\* its bottom: a payload, one call or system call, one interrupt and one call
\* of its handler.  Interrupts do not nest (interrupt.c:144, kernel.s:21).
TypeOK ==
    /\ intr \in BOOLEAN
    /\ pending \subseteq Vector /\ in_service \subseteq Vector
    /\ DOMAIN stack = Thread
    /\ \A f \in Frames :
          /\ FrameAt(f).fn \in DOMAIN Steps
          /\ FrameAt(f).step \in Steps[FrameAt(f).fn]
          /\ FrameAt(f).saved \in BOOLEAN
    /\ \A t \in Thread :
          /\ Len(stack[t]) \in 1..4
          /\ \A i, j \in DOMAIN stack[t] :
                stack[t][i].fn \in Vector /\ stack[t][j].fn \in Vector => i = j

\* Whenever a function of thread.c is at the lists between its cli and the
\* restored flag, or timer_handler calls schedule, it is alone with the
\* scheduler: it is the innermost function of the thread on the CPU, no
\* interrupt can come in between, and no other thread was switched out in the
\* middle of one.  It does not say so of page_free in the kthread_exit of a
\* thread other than main (thread.c:178), which is between the same cli and sti
\* and is switched out whenever a mutex of the page pools is taken.
SchedulerExclusive ==
    \A f \in Frames :
        \/ FrameAt(f).step = "section"
        \/ FrameAt(f).fn = "timer" /\ FrameAt(f).step = "handler"
        => f = <<running, 1>> /\ ~intr

\* The flag a function needs at a step: a payload runs with interrupts on, a
\* handler and a section with interrupts off, a call before its cli as it
\* found them.
NeedsFlag(f) ==
    CASE f.fn = "body" -> f.step # "off"
      [] f.fn = "syscall" -> f.step = "iret"
      [] f.fn \in Calls -> f.step = "cli" /\ f.saved
      [] f.fn \in Vector -> FALSE

\* Threads inherit the flag from whoever left the CPU to them, as switch_to
\* does not save it, and yet each always runs with its own: on in a payload
\* and off in a handler, whatever was interrupted, yielded and woken between.
\* What every frame will restore is what the frame below it needs.
FlagFollowsContext ==
    /\ TypeOK
    /\ intr = NeedsFlag(Head(stack[running]))
    /\ \A f \in Frames : f[2] < Len(stack[f[1]])
          => FrameAt(f).saved = NeedsFlag(stack[f[1]][f[2] + 1])

\* An ide_handler waits in spin_lock.
Spinning == \E f \in Frames : f[2] > 1 /\ FrameAt(f).fn = "ide" /\ FrameAt(f).step = "handler"

\* The thread on the CPU is in page_free of its kthread_exit.
Freeing == \E i \in DOMAIN stack[running] : stack[running][i].step = "free"

\* A tick is delivered in the end, although timer_handler may leave the CPU to
\* another thread before it returns: the EOI comes first (kernel.s:30-36).
\* Only a spinning ide_handler and a thread that frees its own page, which both
\* run with interrupts off, can hold it up.
TickDelivered == "timer" \in pending ~> ("timer" \notin pending \/ Spinning \/ Freeing)
=============================================================================
