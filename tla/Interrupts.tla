----------------------------- MODULE Interrupts -----------------------------
(***************************************************************************)
(* Who handles which interrupt: the mask register of the controller as     *)
(* set_8259(), task_control() and int_up() write it, the table r_int that  *)
(* SYS_RINT fills, and int_hard_17(), which runs the function a driver     *)
(* registered in that driver's address space, in the middle of whichever   *)
(* task is running.                                                        *)
(*                                                                         *)
(* Addresses are abstracted to the task they belong to: the handler and    *)
(* the page directory of task t are both t.  A mask is the set of the      *)
(* lines whose bit is 1.                                                   *)
(***************************************************************************)
EXTENDS Integers

CONSTANTS
    Users,      \* the tasks exec() loaded
    Vectors,    \* vectors the tasks try to register
    KeepsEdx    \* TRUE: the registered functions leave edx as they find it, as
                \* the assembler of keyb.bin does

ASSUME InterruptAssumption ==
    /\ Users \subseteq Nat \ {0} /\ Users # {}
    /\ Vectors \subseteq 0 .. 255 /\ KeepsEdx \in BOOLEAN

Lines    == 0 .. 7
Keyboard == 17
Nobody   == 0
Wild     == -1           \* an address that is no page directory
Kernel   == 1            \* r_int[].tarea of a vector the kernel keeps

VARIABLES
    step,      \* _main: "set_8259", "ini_tss", "task_control", "run"
    mask,      \* the controller's mask register (port 0x21)
    t_int,     \* int.c's copy of it
    r_int,     \* [tarea, func, cr3] of every vector
    task,      \* the task that runs
    cr3,       \* the address space that is loaded
    aux_cr3,   \* int_hard_17: the one to go back to
    handling,  \* "no", "running": int_hard_17 is in the registered function,
               \* "lost": it has called address 0, with page directory 0
    func,      \* the function int_hard_17 called
    eax        \* what SYS_RINT last told a task about a vector; 1: nothing

vars == <<step, mask, t_int, r_int, task, cr3, aux_cr3, handling, func, eax>>

\* Mutant: the copy starts as what set_8259 has just written.
InitSynced ==
    /\ step = "set_8259" /\ mask = {} /\ t_int = Lines \ {1}
    /\ r_int = [v \in 0 .. 255 |-> [tarea |-> Nobody, func |-> 0, cr3 |-> 0]]
    /\ task \in Users /\ cr3 = Nobody /\ aux_cr3 = Nobody
    /\ handling = "no" /\ func = Nobody
    /\ eax = [t \in Users |-> [v \in Vectors |-> 1]]

\* The power-on mask does not matter; t_int and r_int are zeroed data.
Init ==
    /\ step = "set_8259" /\ mask = {} /\ t_int = {}
    /\ r_int = [v \in 0 .. 255 |-> [tarea |-> Nobody, func |-> 0, cr3 |-> 0]]
    /\ task \in Users /\ cr3 = Nobody /\ aux_cr3 = Nobody
    /\ handling = "no" /\ func = Nobody
    /\ eax = [t \in Users |-> [v \in Vectors |-> 1]]

-----------------------------------------------------------------------------
(* Boot, with interrupts disabled throughout                               *)

\* The controller is programmed: everything masked but the keyboard (0xfd).
set_8259 ==
    /\ step = "set_8259"
    /\ step' = "ini_tss"
    /\ mask' = Lines \ {1}
    /\ UNCHANGED <<t_int, r_int, task, cr3, aux_cr3, handling, func, eax>>

\* The exceptions and the clock belong to the kernel.
ini_tss ==
    /\ step = "ini_tss"
    /\ step' = "task_control"
    /\ r_int' = [v \in 0 .. 255 |-> [r_int[v] EXCEPT !.tarea = IF v < 17 THEN Kernel ELSE Nobody]]
    /\ UNCHANGED <<mask, t_int, task, cr3, aux_cr3, handling, func, eax>>

\* 0xdc: clock, keyboard and line 5 are enabled; a first task is dispatched.
task_control ==
    /\ step = "task_control"
    /\ step' = "run"
    /\ mask' = Lines \ {0, 1, 5}
    /\ cr3' = task
    /\ UNCHANGED <<t_int, r_int, task, aux_cr3, handling, func, eax>>

-----------------------------------------------------------------------------
Running == step = "run" /\ handling = "no"

\* The clock, unless it is masked, lets task_control pick another task.
Clock(t) ==
    /\ Running /\ 0 \notin mask
    /\ task' = t /\ cr3' = t
    /\ UNCHANGED <<step, mask, t_int, r_int, aux_cr3, handling, func, eax>>

\* int_up(n): one bit of the copy is cleared and the copy is written.
Cleared(n) == t_int \ {n - 16}

\* Mutant: a vector is registered over its owner.
sys_rintOver(v) ==
    /\ Running
    /\ r_int' = [r_int EXCEPT ![v] = [tarea |-> task, func |-> task, cr3 |-> task]]
    /\ IF v \in 16 .. 23 THEN t_int' = Cleared(v) /\ mask' = Cleared(v)
       ELSE UNCHANGED <<t_int, mask>>
    /\ eax' = [eax EXCEPT ![task][v] = 0]
    /\ UNCHANGED <<step, task, cr3, aux_cr3, handling, func>>

\* Mutant: the function is left for a later call to fill in.
sys_rintNoFunc(v) ==
    /\ Running
    /\ IF r_int[v].tarea = Nobody
       THEN /\ r_int' = [r_int EXCEPT ![v] = [tarea |-> task, func |-> 0, cr3 |-> task]]
            /\ IF v \in 16 .. 23 THEN t_int' = Cleared(v) /\ mask' = Cleared(v)
               ELSE UNCHANGED <<t_int, mask>>
            /\ eax' = [eax EXCEPT ![task][v] = 0]
       ELSE /\ eax' = [eax EXCEPT ![task][v] = -1]
            /\ UNCHANGED <<r_int, t_int, mask>>
    /\ UNCHANGED <<step, task, cr3, aux_cr3, handling, func>>

\* SYS_RINT: int_up refuses a vector that is not the controller's, but
\* nobody looks at its result.
sys_rint(v) ==
    /\ Running
    /\ IF r_int[v].tarea = Nobody
       THEN /\ r_int' = [r_int EXCEPT ![v] = [tarea |-> task, func |-> task, cr3 |-> task]]
            /\ IF v \in 16 .. 23 THEN t_int' = Cleared(v) /\ mask' = Cleared(v)
               ELSE UNCHANGED <<t_int, mask>>
            /\ eax' = [eax EXCEPT ![task][v] = 0]
       ELSE /\ eax' = [eax EXCEPT ![task][v] = -1]
            /\ UNCHANGED <<r_int, t_int, mask>>
    /\ UNCHANGED <<step, task, cr3, aux_cr3, handling, func>>

\* int_hard_17 up to the call of the function; the vector's entry decides.
\* It does not look whether anybody has registered.
Enter ==
    /\ Running /\ 1 \notin mask
    /\ aux_cr3' = cr3
    /\ cr3' = r_int[Keyboard].cr3
    /\ func' = r_int[Keyboard].func
    /\ handling' = IF func' = Nobody THEN "lost" ELSE "running"
    /\ UNCHANGED <<step, mask, t_int, r_int, task, eax>>

\* Mutant: the driver's address space stays loaded.
LeaveThere ==
    /\ handling = "running"
    /\ handling' = "no"
    /\ UNCHANGED <<step, mask, t_int, r_int, task, cr3, aux_cr3, func, eax>>

\* The function has returned: back to the interrupted task.  The assembler
\* that restores cr3 names aux_cr3 as an output, so the compiled kernel does
\* not load it: it takes edx, which held the value before the call.
Leave ==
    /\ handling = "running"
    /\ handling' = "no"
    /\ cr3' \in IF KeepsEdx THEN {aux_cr3} ELSE {aux_cr3, Wild}
    /\ UNCHANGED <<step, mask, t_int, r_int, task, aux_cr3, func, eax>>

Next ==
    \/ set_8259
    \/ ini_tss
    \/ task_control
    \/ \E t \in Users : Clock(t)
    \/ \E v \in Vectors : sys_rint(v)
    \/ Enter
    \/ Leave

Spec == Init /\ [][Next]_vars

-----------------------------------------------------------------------------
(* Properties                                                              *)

Owner == [tarea : {Nobody, Kernel} \cup Users, func : {0} \cup Users, cr3 : {0} \cup Users]

TypeOK ==
    /\ step \in {"set_8259", "ini_tss", "task_control", "run"}
    /\ mask \subseteq Lines /\ t_int \subseteq Lines
    /\ r_int \in [0 .. 255 -> Owner]
    /\ task \in Users /\ {cr3, aux_cr3, func} \subseteq {Nobody, Wild} \cup Users
    /\ handling \in {"no", "running", "lost"}
    /\ eax \in [Users -> [Vectors -> {-1, 0, 1}]]

\* A task that was told 0 owns the vector for good, and the kernel keeps its
\* own: the table of who was told what and r_int never disagree.
ToldOwners ==
    /\ \A t \in Users, v \in Vectors : eax[t][v] = 0 => r_int[v].tarea = t
    /\ step \in {"task_control", "run"} => \A v \in 0 .. 16 : r_int[v].tarea = Kernel

\* The clock can always take the processor away: no registration, of whatever
\* vector and in whatever order, masks line 0 through the stale copy t_int.
ClockStaysOn == step = "run" => 0 \notin mask

\* The registered function runs in the address space of the task that
\* registered it, and the interrupted task goes on in its own ("restauro el
\* registro cr3"): so it is if the functions keep edx.
OwnSpace ==
    step = "run" =>
        IF handling = "no" THEN cr3 = task
        ELSE handling = "running" =>
                 {cr3, func} = {r_int[Keyboard].tarea} /\ aux_cr3 = task

\* The keyboard's line is open from boot on, and a key that comes before any
\* driver has issued SYS_RINT sends int_hard_17 to address 0.  That is the only
\* window: once a task was told that it owns vector 17, "ejecuto la funcion
\* registrada" is true of every key.
LostOnlyEarly == handling = "lost" => \A t \in Users : eax[t][Keyboard] # 0

\* What the properties need to survive every step: the driver of the keyboard has
\* registered its own function and page directory, nobody has been told anything
\* or has registered during boot, and int_up's copy never has a bit set.
KeyboardEntry ==
    LET e == r_int[Keyboard]
    IN  e.tarea \in {Nobody} \cup Users /\ e.func = e.tarea /\ e.cr3 = e.tarea

BootIsQuiet ==
    step # "run" =>
        /\ handling = "no" /\ \A t \in Users, v \in Vectors : eax[t][v] = 1
        /\ r_int[Keyboard].func = Nobody /\ r_int[Keyboard].cr3 = Nobody

LostUnowned == handling = "lost" => r_int[Keyboard].tarea = Nobody

IntInv ==
    /\ TypeOK /\ ToldOwners /\ ClockStaysOn
    /\ KeyboardEntry /\ BootIsQuiet /\ LostUnowned /\ t_int = {}

\* "habilito la interrupcion hard": int_up enables the line of the vector that
\* is registered.  The code does not keep to this: t_int starts as 0, so the
\* first registration opens all eight lines.  No run checks it.
EnablesOneLine ==
    [][\A v \in Vectors : r_int'[v] # r_int[v] /\ step = "run" => mask \ mask' \subseteq {v - 16}]_vars
=============================================================================
