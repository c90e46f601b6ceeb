----------------------------- MODULE TaskSwitch -----------------------------
(***************************************************************************)
(* Task switching at the level of the processor: the far jumps to task     *)
(* segments in task_control(), sys_call() and sys_control(), the task      *)
(* gates of int 0x40 and of the clock, the interrupt gates of int 0x41 and *)
(* of the keyboard, and the interrupt controller.                          *)
(*                                                                         *)
(* A task segment (TSS) is identified with the index of its task.  A jump  *)
(* makes the old segment available and the new one busy; an interrupt      *)
(* through a task gate makes the new one busy, stores the old one in its   *)
(* b_link and leaves the old one busy; both fault on a busy target.  The   *)
(* kernel's three tasks run with interrupts disabled.                      *)
(***************************************************************************)
EXTENDS Integers, Sequences

CONSTANTS MAX_TASK, LastTask

ASSUME SwitchAssumption ==
    LastTask \in Nat /\ LastTask >= 3 /\ MAX_TASK \in Nat /\ LastTask < MAX_TASK

Control == 0    \* task_control: gdt selector 0x20
Syscall == 1    \* sys_call: task gate in idt[0x40]
Clock   == 2    \* sys_control: task gate in idt[16], IRQ 0
Users   == 3 .. LastTask
Tasks   == 0 .. LastTask

VARIABLES
    tr,        \* the segment in the task register: the task that runs
    busy,      \* tasks whose descriptor is busy (acceso 0x8b, not 0x89)
    b_link,    \* back link of the kernel's segments
    t_indice,  \* index of the task that task_control chose
    tss,       \* task_control's local tr: the segment it jumped to
    acceso,    \* task_control's local: whether that descriptor was busy
    at,        \* task_control: "scan", or "restore" after its ljmp
    ctx,       \* each user task's stack of contexts, the running one last
    ready,     \* tasks in state RUNNING or STARTING
    irr, isr,  \* interrupt controller: requests latched, and in service
    stopped    \* an exception handler has stopped the machine

pic  == <<irr, isr>>
vars == <<tr, busy, b_link, t_indice, tss, acceso, at, ctx, ready, irr, isr, stopped>>

Timer    == 0   \* IRQ 0, vector 16
Keyboard == 1   \* IRQ 1, vector 17

\* Contexts of a user task: its program; int_soft_speed; the same in the hlt
\* of SYS_HLT and after it; int_hard_17 before and after its reset_8259.
Contexts == {"user", "soft", "hlt", "awake", "hard", "acked"}

Top(t) == ctx[t][Len(ctx[t])]
SetTop(t, c) == [ctx EXCEPT ![t] = [@ EXCEPT ![Len(@)] = c]]
Pushed(t, c) == [ctx EXCEPT ![t] = Append(@, c)]
Popped(t) == [ctx EXCEPT ![t] = SubSeq(@, 1, Len(@) - 1)]

\* Mutant: a trap gate for the keyboard leaves interrupts enabled.
IFlagTrap(c) == c \in {"user", "hlt", "awake", "hard", "acked"}

\* Interrupt gates (0x8e, 0xee) disable interrupts; SYS_HLT enables them.
IFlag(c) == c \in {"user", "hlt", "awake"}

Init ==
    /\ tr = Control /\ busy = {Control} /\ b_link = [t \in {Syscall, Clock} |-> Control]
    /\ t_indice = 0 /\ tss = Control /\ acceso = FALSE /\ at = "scan"
    /\ ctx = [t \in Users |-> <<"user">>]
    /\ ready = Users
    /\ irr = {} /\ isr = {} /\ stopped = FALSE

-----------------------------------------------------------------------------
(* The processor                                                           *)

\* A far jump to a task segment.
Jump(t) ==
    IF t \in busy THEN stopped' = TRUE /\ UNCHANGED <<tr, busy>>
    ELSE tr' = t /\ busy' = (busy \ {tr}) \cup {t} /\ UNCHANGED stopped

\* An interrupt through the task gate of t.
TaskGate(t) ==
    IF t \in busy THEN stopped' = TRUE /\ UNCHANGED <<tr, busy, b_link>>
    ELSE /\ tr' = t /\ busy' = busy \cup {t}
         /\ b_link' = [b_link EXCEPT ![t] = tr]
         /\ UNCHANGED stopped

\* reset_8259: ends the most urgent interrupt in service.
Reset == IF Timer \in isr THEN isr \ {Timer} ELSE {}

\* What the user task does when an interrupt ends its hlt.
Woken == IF Top(tr) = "hlt" THEN SetTop(tr, "awake") ELSE ctx

Runs(c) == ~stopped /\ tr \in Users /\ Top(tr) \in c
Accepts == ~stopped /\ tr \in Users /\ IFlag(Top(tr)) /\ Timer \notin isr

-----------------------------------------------------------------------------
(* task_control, sys_call, sys_control                                     *)

\* Mutant: the last task is skipped.
NextIndexShort(i) == IF i + 1 = MAX_TASK \/ i + 1 >= LastTask THEN 1 ELSE i + 1

NextIndex(i) == IF i + 1 = MAX_TASK \/ i + 1 > LastTask THEN 1 ELSE i + 1

\* Mutants: the interrupt is not acknowledged; the index moves on too early.
ScanNoReset ==
    /\ ~stopped /\ tr = Control /\ at = "scan"
    /\ t_indice' = NextIndex(t_indice)
    /\ IF t_indice' \in ready
       THEN tss' = t_indice' /\ acceso' = (t_indice' \in busy) /\ at' = "restore" /\ Jump(t_indice')
       ELSE UNCHANGED <<tr, busy, tss, acceso, at, stopped>>
    /\ UNCHANGED <<b_link, ctx, ready, pic>>

ScanAhead ==
    /\ ~stopped /\ tr = Control /\ at = "scan"
    /\ t_indice' = NextIndex(t_indice)
    /\ IF t_indice \in ready
       THEN tss' = t_indice /\ acceso' = (t_indice \in busy) /\ at' = "restore"
            /\ isr' = Reset /\ Jump(t_indice)
       ELSE UNCHANGED <<tr, busy, tss, acceso, at, isr, stopped>>
    /\ UNCHANGED <<b_link, ctx, ready, irr>>

\* One turn of the search, and for a runnable task the jump to it.
Scan ==
    /\ ~stopped /\ tr = Control /\ at = "scan"
    /\ t_indice' = NextIndex(t_indice)
    /\ IF t_indice' \in ready
       THEN /\ tss' = t_indice'
            /\ acceso' = (t_indice' \in busy)
            /\ isr' = Reset
            /\ at' = "restore"
            /\ Jump(t_indice')
       ELSE UNCHANGED <<tr, busy, tss, acceso, at, isr, stopped>>
    /\ UNCHANGED <<b_link, ctx, ready, irr>>

\* Mutant: the descriptor of the interrupted task stays as the gate left it.
RestoreNothing ==
    /\ ~stopped /\ tr = Control /\ at = "restore"
    /\ at' = "scan"
    /\ UNCHANGED <<tr, busy, b_link, t_indice, tss, acceso, ctx, ready, pic, stopped>>

\* Back from the jump: the task left through a task gate, its segment is busy.
Restore ==
    /\ ~stopped /\ tr = Control /\ at = "restore"
    /\ busy' = IF acceso THEN busy \cup {tss} ELSE busy \ {tss}
    /\ at' = "scan"
    /\ UNCHANGED <<tr, b_link, t_indice, tss, acceso, ctx, ready, pic, stopped>>

\* sys_call serves r_tareas[t_indice]; what it does to the tasks is in Ipc,
\* where SomeRunnable says that it never puts the last one to sleep.
sys_call ==
    /\ ~stopped /\ tr = Syscall
    /\ ready' \in (SUBSET Users) \ {{}}
    /\ Jump(Control)
    /\ UNCHANGED <<b_link, t_indice, tss, acceso, at, ctx, pic>>

sys_control ==
    /\ ~stopped /\ tr = Clock
    /\ Jump(Control)
    /\ UNCHANGED <<b_link, t_indice, tss, acceso, at, ctx, ready, pic>>

-----------------------------------------------------------------------------
(* User tasks and their interrupt handlers                                 *)

Int40 ==
    /\ Runs({"user"})
    /\ TaskGate(Syscall)
    /\ UNCHANGED <<t_indice, tss, acceso, at, ctx, ready, pic>>

Int41 ==
    /\ Runs({"user"})
    /\ ctx' = Pushed(tr, "soft")
    /\ UNCHANGED <<tr, busy, b_link, t_indice, tss, acceso, at, ready, pic, stopped>>

\* SYS_HLT: sti; hlt inside int_soft_speed.
Halt ==
    /\ Runs({"soft"})
    /\ ctx' = SetTop(tr, "hlt")
    /\ UNCHANGED <<tr, busy, b_link, t_indice, tss, acceso, at, ready, pic, stopped>>

\* int_hard_17 is done: its iret() first acknowledges.
HardReset ==
    /\ Runs({"hard"})
    /\ ctx' = SetTop(tr, "acked")
    /\ isr' = Reset
    /\ UNCHANGED <<tr, busy, b_link, t_indice, tss, acceso, at, ready, irr, stopped>>

\* leave; iretd
Iretd ==
    /\ Runs({"soft", "awake", "acked"})
    /\ ctx' = Popped(tr)
    /\ UNCHANGED <<tr, busy, b_link, t_indice, tss, acceso, at, ready, pic, stopped>>

-----------------------------------------------------------------------------
(* Interrupt requests                                                      *)

Request(i) ==
    /\ ~stopped /\ i \notin irr
    /\ irr' = irr \cup {i}
    /\ UNCHANGED <<tr, busy, b_link, t_indice, tss, acceso, at, ctx, ready, isr, stopped>>

TimerInterrupt ==
    /\ Accepts /\ Timer \in irr
    /\ irr' = irr \ {Timer} /\ isr' = isr \cup {Timer}
    /\ ctx' = Woken
    /\ TaskGate(Clock)
    /\ UNCHANGED <<t_indice, tss, acceso, at, ready>>

\* Through an interrupt gate, on the stack of whichever task is running.
KeyboardInterrupt ==
    /\ Accepts /\ Timer \notin irr /\ Keyboard \in irr /\ Keyboard \notin isr
    /\ irr' = irr \ {Keyboard} /\ isr' = isr \cup {Keyboard}
    /\ ctx' = [Woken EXCEPT ![tr] = Append(@, "hard")]
    /\ UNCHANGED <<tr, busy, b_link, t_indice, tss, acceso, at, ready, stopped>>

Next ==
    \/ Scan
    \/ Restore
    \/ sys_call
    \/ sys_control
    \/ Int40
    \/ Int41
    \/ Halt
    \/ HardReset
    \/ Iretd
    \/ \E i \in {Timer, Keyboard} : Request(i)
    \/ TimerInterrupt
    \/ KeyboardInterrupt

Spec == Init /\ [][Next]_vars

\* The kernel and the handlers run on; the clock ticks; and a request the
\* processor keeps being able to accept is accepted, since it looks for one
\* between any two instructions of a task.
Fairness ==
    /\ WF_vars(Scan) /\ WF_vars(Restore) /\ WF_vars(sys_call) /\ WF_vars(sys_control)
    /\ WF_vars(HardReset) /\ WF_vars(Iretd)
    /\ WF_vars(Request(Timer)) /\ SF_vars(TimerInterrupt)

FairSpec == Spec /\ Fairness

-----------------------------------------------------------------------------
(* Properties                                                              *)

\* No jump and no interrupt ever meets a busy segment: a task that lost the
\* processor through a task gate stays busy until task_control puts its
\* descriptor back, which it must have done before it comes round again.
NeverFaults == ~stopped

\* sys_call serves r_tareas[t_indice]: that is the task whose int 0x40 entered
\* it, although nothing but the back link, which nobody reads, says so.
ServesItsCaller ==
    /\ tr = Syscall => b_link[Syscall] = t_indice
    /\ tr \in Users => tr = t_indice

\* The kernel's stack of a task (int_pila) holds at most two interrupt frames:
\* int_soft_speed in its hlt and one int_hard_17.
StackBound == \A t \in Users : Len(ctx[t]) <= 3

\* While a task's program runs no interrupt is left unacknowledged: otherwise
\* the controller would hold back the clock, and the task could not be stopped.
Acknowledged == tr \in Users /\ Top(tr) = "user" => isr = {}

\* Every task that is ready gets the processor, whatever the others do: halt,
\* call, be interrupted, or run on for ever.
ReadyRuns == \A t \in Users : t \in ready ~> tr = t \/ t \notin ready

\* The switching of segments implements the scheduler.
S == INSTANCE Scheduler WITH
    Last  <- LastTask,
    Ready <- Users,
    cpu   <- IF tr \in Users \cup {Syscall} THEN "user" ELSE "control",
    turn  <- t_indice

ImplementsScheduler == S!SSpec
=============================================================================
