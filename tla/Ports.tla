------------------------------- MODULE Ports -------------------------------
(***************************************************************************)
(* I/O ports: r_port, the kernel's map of the ports nobody has selected,   *)
(* the I/O permission bit map at the end of each TSS, and the calls        *)
(* SYS_RPORT and SYS_URPORT of exec/exec.c.  Both maps are arrays of       *)
(* chars, one bit for each port; a map is modelled by its chars' values.   *)
(* Speed composes the calls with the rest of INT 0x41.                     *)
(***************************************************************************)
EXTENDS Integers

CONSTANTS
    Users,       \* the tasks exec() loaded
    TSS_PORT,    \* chars in a map (include/tss.h)
    BITS,        \* bits in a char
    Polite       \* TRUE: tasks select only ports that no other task has and
                 \* give back only their own

VARIABLES
    r_port,   \* 1: free
    iobp      \* of each task; 1: the processor refuses the port

vars == <<r_port, iobp>>

Pow2[n \in Nat] == IF n = 0 THEN 1 ELSE 2 * Pow2[n - 1]
PortNumbers == 0 .. TSS_PORT * BITS - 1

Bit(c, b) == (c \div Pow2[b]) % 2
Clear(c, b) == IF Bit(c, b) = 1 THEN c - Pow2[b] ELSE c
Set(c, b) == IF Bit(c, b) = 0 THEN c + Pow2[b] ELSE c

\* The processor's test of the permission map.
Allowed(map) == {p \in PortNumbers : Bit(map[p \div BITS], p % BITS) = 0}

\* The permission map of a TSS that ini_tss has cleared: every port refused.
clear_tss == [i \in 0 .. TSS_PORT - 1 |-> Pow2[BITS] - 1]

Init ==
    /\ r_port = [i \in 0 .. TSS_PORT - 1 |-> Pow2[BITS] - 1]
    /\ iobp = [t \in Users |-> clear_tss]

\* Mutant: the whole char is taken for one port.
set_portByte(t, p) ==
    LET aux == p \div BITS IN
    /\ r_port' = [r_port EXCEPT ![aux] = 0]
    /\ iobp' = [iobp EXCEPT ![t][aux] = 0]

\* The test is r_port[aux] && (1 << id): is any port of the char free?
set_port(t, p) ==
    LET aux == p \div BITS
        id == p % BITS
    IN  IF r_port[aux] = 0
        THEN UNCHANGED <<r_port, iobp>>
        ELSE /\ r_port' = [r_port EXCEPT ![aux] = Clear(@, id)]
             /\ iobp' = [iobp EXCEPT ![t][aux] = Clear(@, id)]

\* Mutant: the port is given back but stays enabled.
unset_portKernelOnly(t, p) ==
    LET aux == p \div BITS
        id == p % BITS
    IN  /\ r_port' = [r_port EXCEPT ![aux] = Set(@, id)]
        /\ UNCHANGED iobp

\* The test is ~(io_map[aux]) && (1 << id), which as an int is never 0.
unset_port(t, p) ==
    LET aux == p \div BITS
        id == p % BITS
    IN  /\ r_port' = [r_port EXCEPT ![aux] = Set(@, id)]
        /\ iobp' = [iobp EXCEPT ![t][aux] = Set(@, id)]

Held(p) == {t \in Users : p \in Allowed(iobp[t])}

SYS_RPORT(t, p) == (Polite => Held(p) \subseteq {t}) /\ set_port(t, p)
SYS_URPORT(t, p) == (Polite => t \in Held(p)) /\ unset_port(t, p)

Next == \E t \in Users, p \in PortNumbers : SYS_RPORT(t, p) \/ SYS_URPORT(t, p)

Spec == Init /\ [][Next]_vars

-----------------------------------------------------------------------------
(* Properties                                                              *)

\* SYS_RPORT opens the port it was asked for and no other, to the task that
\* asked and to no other; SYS_URPORT closes exactly that one: the arithmetic of
\* byte and bit never reaches a neighbour, in a task's map or in the kernel's.
OpensExactly ==
    [][\A t \in Users, p \in PortNumbers :
         iobp' # iobp /\ (set_port(t, p) \/ unset_port(t, p)) =>
             /\ \A s \in Users \ {t} : iobp'[s] = iobp[s]
             /\ Allowed(iobp'[t]) =
                    IF p \in Allowed(iobp[t]) THEN Allowed(iobp[t]) \ {p} ELSE Allowed(iobp[t]) \cup {p}
             /\ Allowed(r_port') \ {p} = Allowed(r_port) \ {p}]_vars

\* As long as every port has one user at a time, the kernel's map and the
\* tasks' permission maps agree on what is taken, bit for bit.
MapsAgree == Allowed(r_port) = UNION {Allowed(iobp[t]) : t \in Users}

\* "verifico si ya esta seleccionado": a port is selected by one task at most.
\* The test in set_port looks at the whole char, so that only Polite tasks keep
\* this, by construction; no run checks it.
OnePortOneTask ==
    \A s, t \in Users : s # t => Allowed(iobp[s]) \cap Allowed(iobp[t]) = {}

\* The same comment in unset_port: a port can be given back only by a task
\* that has selected it.  Its test is never 0, and no run checks this.
OnlyTheHolderGivesBack ==
    [][\A t \in Users, p \in PortNumbers :
         unset_port(t, p) => p \in Allowed(iobp[t])]_vars
=============================================================================
