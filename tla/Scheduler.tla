----------------------------- MODULE Scheduler -----------------------------
(***************************************************************************)
(* What the tasks may expect of the task switcher: it offers the processor *)
(* to one task after the other in the order of the table; a task keeps it  *)
(* until the clock or a system call takes it away, and only a system call  *)
(* changes who is ready.  The device calls (Ipc) are written on top of     *)
(* this, and the switching of task segments (TaskSwitch) underneath it:    *)
(* both are shown to implement it.                                         *)
(***************************************************************************)
EXTENDS Integers

CONSTANTS
    Last,    \* the last task of the table
    Ready    \* who may ever be ready

VARIABLES
    cpu,     \* "control": nobody has the processor; "user": task turn has it
    turn,    \* the task whose turn it is
    ready    \* the tasks that can go on

svars == <<cpu, turn, ready>>

After(i) == IF i + 1 > Last THEN 1 ELSE i + 1

SInit == cpu = "control" /\ turn = 0 /\ ready = Ready

\* A task that is not ready is passed over, one that is gets the processor.
Offer ==
    /\ cpu = "control"
    /\ turn' = After(turn)
    /\ cpu' = IF turn' \in ready THEN "user" ELSE "control"
    /\ UNCHANGED ready

\* The clock.
Preempt ==
    /\ cpu = "user"
    /\ cpu' = "control"
    /\ UNCHANGED <<turn, ready>>

\* A system call puts tasks to sleep and wakes others, never all to sleep.
Call ==
    /\ cpu = "user"
    /\ cpu' = "control"
    /\ ready' \in (SUBSET Ready) \ {{}}
    /\ UNCHANGED turn

SNext == Offer \/ Preempt \/ Call

SSpec == SInit /\ [][SNext]_svars
=============================================================================
