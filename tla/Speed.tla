------------------------------- MODULE Speed -------------------------------
(***************************************************************************)
(* INT 0x41, the gate of the calls that need no other task: int_soft_speed *)
(* runs on the caller's own kernel stack with interrupts disabled and acts *)
(* for r_tareas[t_indice].  Composed here are SYS_RINT with the interrupts *)
(* it opens (Interrupts) and SYS_RPORT and SYS_URPORT (Ports); SYS_HLT is  *)
(* an action of TaskSwitch.                                                *)
(***************************************************************************)
EXTENDS Interrupts

CONSTANTS TSS_PORT, BITS, Polite

VARIABLES r_port, iobp

P == INSTANCE Ports

ASSUME PortAssumption ==
    TSS_PORT \in Nat \ {0} /\ BITS \in Nat \ {0} /\ Polite \in BOOLEAN

ports == <<r_port, iobp>>
speedVars == <<vars, ports>>

SpeedInit == Init /\ P!Init

\* The ports are those of the task that runs, so every switch of the task and
\* every key may come between two calls.
int_soft_speed(p) ==
    /\ Running
    /\ P!SYS_RPORT(task, p) \/ P!SYS_URPORT(task, p)
    /\ UNCHANGED vars

SpeedNext ==
    \/ Next /\ UNCHANGED ports
    \/ \E p \in P!PortNumbers : int_soft_speed(p)

SpeedSpec == SpeedInit /\ [][SpeedNext]_speedVars

-----------------------------------------------------------------------------
(* Properties: those of the parts, of which none may disturb another       *)

\* Ports!OpensExactly for the calls of the running task (set_port, unset_port).
OpensExactly == P!OpensExactly

\* Ports!MapsAgree, across the tasks the clock switches between.
MapsAgree == P!MapsAgree
=============================================================================
