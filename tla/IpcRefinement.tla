--------------------------- MODULE IpcRefinement ---------------------------
(* The driver calls of Ipc implement the rendezvous of module Rendezvous,  *)
(* on a scheduler that keeps to module Scheduler.                          *)
EXTENDS Ipc

\* A driver serves the client in its id_ret exactly while it is awake: there
\* is no other sign in r_drv that an answer is due.
Serving(d) == IF Registered(d) /\ status[d] = RUNNING THEN id_ret[SlotOf(d)] ELSE 0

Result == (-7 .. MAX_DRIVERS) \cup {SYS_READ, SYS_WRITE, SYS_SEEK, SYS_WAIT, 0} \cup Rets

R == INSTANCE Rendezvous WITH
    Nobody  <- 0,
    Read    <- SYS_READ,
    Write   <- SYS_WRITE,
    Seek    <- SYS_SEEK,
    Results <- Result,
    up      <- {d \in Drivers : Registered(d)},
    serving <- [d \in Drivers |-> Serving(d)],
    op      <- [d \in Drivers |-> sys[d].call],
    store   <- [t \in Clients \cup Drivers |-> mem[t]],
    result  <- [c \in Clients |-> eax[c]]

\* Every behaviour of sys_open, sys_reg, sys_read, sys_write, sys_seek,
\* sys_ret and the scheduler is a behaviour of the rendezvous.
ImplementsRendezvous == R!RSpec

S == INSTANCE Scheduler WITH
    Last  <- LastTask,
    Ready <- Tasks,
    turn  <- t_indice,
    ready <- {t \in 0 .. LastTask : status[t] \in {RUNNING, STARTING}}

\* The scheduler the calls rely on is the one TaskSwitch implements: a call
\* makes tasks ready or not, never leaves none ready, and nothing else does.
ImplementsScheduler == S!SSpec
=============================================================================
