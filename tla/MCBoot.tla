------------------------------- MODULE MCBoot -------------------------------
(* The machine of MCPhysMem with more memory, and tables for two programs; *)
(* the paths' lengths keep the order of the real ones.                     *)
EXTENDS Boot

MCVideo     == {3, 4}
MCVideoText == {2}
MCPathLen ==
    [keyb |-> 1, start |-> 2, video |-> 2, sys_call |-> 3, background |-> 4, sys_control |-> 4,
     task_control |-> 5]
=============================================================================
