----------------------------- MODULE TaskTable -----------------------------
(***************************************************************************)
(* How tasks come into being: _main() starts three kernel tasks with       *)
(* execs(), the modules GRUB loaded with exec(), /boot/start.bin last, and *)
(* enters task_control().  Each task takes a TSS (set_tss), two entries of *)
(* the gdt (set_desc_tss: the TSS and a task gate one entry above it) and  *)
(* an entry of r_tareas (tarea_libre).  Nobody looks at what these return. *)
(*                                                                         *)
(* Selectors are indexes in the gdt.                                       *)
(***************************************************************************)
EXTENDS Integers, FiniteSets, Sequences

CONSTANTS
    MAX_TASK,     \* entries of r_tareas and of the table of TSSs
    MAX_GDT,      \* entries of the gdt that set_desc_tss uses
    MAX_PAG_DRIVER,  \* pages of the largest program exec loads
    MODE_KERNEL,  \* main.c: start.bin is loaded with execd (here FALSE)
    PathLen,      \* length of the path of each program
    MAX_STRING,   \* the longest string strcpy copies
    MaxModules    \* GRUB loads at most this many modules

Kernel == <<"task_control", "sys_call", "sys_control">>
Programs == {"start", "video", "keyb", "background"}

\* What Boot assumes of them.
TableAssumption ==
    /\ MAX_TASK \in Nat /\ MAX_TASK >= 5 /\ MAX_GDT = 2 * MAX_TASK /\ MAX_STRING \in Nat
    /\ MaxModules \in Nat /\ MODE_KERNEL \in BOOLEAN /\ MAX_PAG_DRIVER \in Nat \ {0}
    /\ PathLen \in [Programs \cup {Kernel[i] : i \in 1 .. 3} -> 1 .. MAX_STRING]

\* A module: its program, and how many pages it has.
Module == [name : Programs, pag : {1, MAX_PAG_DRIVER + 1}]

Null == -1            \* a null pointer to a TSS
Control == 4          \* the selector 0x20 that sys_call and sys_control jump to

VARIABLES
    step,       \* _main: "execs", "modules", "run"; "stopped": it returned
    mods,       \* the modules _main has still to look at
    start,      \* the module that _main takes for /boot/start.bin
    ret,        \* what the stack may hold where strcmp keeps its result
    tss,        \* owner of each TSS, "" when its cs is 0
    gdt,        \* [acceso, base] of each entry: a TSS, a task gate, or free
    r_tareas,   \* [task, tss, status, name] of each entry, the name a string
    gates,      \* selectors in idt[0x40] and idt[16], and in the task register
    t_indice,   \* task_control's index
    des         \* the selector task_control jumped to last, 0: none yet

vars == <<step, mods, start, ret, tss, gdt, r_tareas, gates, t_indice, des>>

Entries == 0 .. MAX_TASK - 1
Least(S) == CHOOSE i \in S : \A j \in S : i <= j
None == [name |-> "none", pag |-> 0]

-----------------------------------------------------------------------------
(* Strings (stdio.c): the characters before the terminating zero.          *)

\* The path of a program, /boot/start.bin and so on, up to the choice of letters.
Path(n) == [i \in 1 .. PathLen[n] |-> <<n, i>>]

strlen(s) == Len(s)

\* strcpy: the characters without the zero; the destination's are zero, or what
\* a longer string left there.
strcpy(origen, destino) ==
    IF strlen(origen) = 0 \/ strlen(origen) > MAX_STRING THEN destino
    ELSE [i \in DOMAIN origen \cup DOMAIN destino |-> IF i \in DOMAIN origen THEN origen[i] ELSE destino[i]]

\* strcmp: for two different strings of one length, as /boot/start.bin and
\* /boot/video.bin, it returns what its stack slot held.
strcmp(a, b) ==
    IF strlen(a) # strlen(b) \/ strlen(a) = 0 THEN {1} ELSE IF a = b THEN {0} ELSE ret

-----------------------------------------------------------------------------
(* The tables, as ini_ldt and ini_tss leave them                           *)

Empty ==
    /\ start = None
    /\ ret = {1}    \* an address: _main's call of add_int before the loop leaves it
    /\ tss = [i \in Entries |-> ""]
    /\ gdt = [i \in 0 .. MAX_GDT - 1 |->
                [acceso |-> IF i \in {1, 2, 3} THEN "segment" ELSE "free", base |-> 0]]
    /\ r_tareas = [i \in Entries |-> [task |-> 0, tss |-> Null, status |-> "none", name |-> << >>]]
    /\ gates = [int40 |-> 0, int10 |-> 0, tr |-> 0]
    /\ t_indice = 0 /\ des = 0

Init ==
    /\ step = "execs"
    /\ \E n \in 1 .. MaxModules : mods \in [1 .. n -> Module]
    /\ Empty

-----------------------------------------------------------------------------
(* The three tables                                                        *)

FreeTss == {i \in Entries : tss[i] = ""}

\* set_tss: a free TSS, but none when that is the table's last.
set_tss == IF FreeTss = {} \/ FreeTss = {MAX_TASK - 1} THEN Null ELSE Least(FreeTss)

\* Mutant: the search does not step over the gate it has just made.
FreeGdtOverlap == {i \in 4 .. MAX_GDT - 1 : gdt[i].acceso # "tss"}

FreeGdt == {i \in 4 .. MAX_GDT - 1 : gdt[i].acceso = "free"}

\* Mutant: the selector in bytes, which exec multiplies by 8 once more.
set_desc_tssBytes == IF FreeGdt = {} THEN 0 ELSE 8 * (Least(FreeGdt) + 1)

\* set_desc_tss: the selector of the task gate, 0 when the gdt is full.
set_desc_tss == IF FreeGdt = {} THEN 0 ELSE Least(FreeGdt) + 1

\* Mutant: a free entry that is not the first.
tarea_libreLast ==
    LET free == {i \in Entries : r_tareas[i].task = 0}
    IN  IF free = {} THEN 0 ELSE CHOOSE i \in free : \A j \in free : j <= i

\* tarea_libre: 0 when there is none, which is also the index of the first.
tarea_libre ==
    LET free == {i \in Entries : r_tareas[i].task = 0}
    IN  IF free = {} THEN 0 ELSE Least(free)

WithDesc(t) ==
    IF FreeGdt = {} THEN gdt
    ELSE LET i == Least(FreeGdt)
         IN  [gdt EXCEPT ![i] = [acceso |-> "tss", base |-> t],
                         ![i + 1] = [acceso |-> "gate", base |-> i]]

\* A task called name: the three tables afterwards.  (What exec writes through
\* a null TSS pointer goes to the machine's first page and is left out.)
Created(id, name, status) ==
    /\ tss' = IF set_tss = Null THEN tss ELSE [tss EXCEPT ![set_tss] = name]
    /\ gdt' = WithDesc(set_tss)
    /\ r_tareas' = [r_tareas EXCEPT ![id] =
                       [task |-> set_desc_tss, tss |-> set_tss, status |-> status,
                        name |-> strcpy(Path(name), @.name)]]

-----------------------------------------------------------------------------
(* _main and the functions it calls                                        *)

Started == {i \in Entries : r_tareas[i].task # 0}

\* Mutant: the interrupt gates are given the selectors of the task gates.
execsGate(n) ==
    /\ step = "execs" /\ n = Cardinality(Started) + 1
    /\ Created(tarea_libre, Kernel[n], "SLEEPING")
    /\ gates' = CASE n = 1 -> [gates EXCEPT !.tr = set_desc_tss - 1]
                  [] n = 2 -> [gates EXCEPT !.int40 = set_desc_tss]
                  [] n = 3 -> [gates EXCEPT !.int10 = set_desc_tss]
    /\ step' = IF n = Len(Kernel) THEN "modules" ELSE "execs"
    /\ UNCHANGED <<mods, start, ret, t_indice, des>>

\* execs of the n-th kernel task, and what _main makes of the result.
execs(n) ==
    /\ step = "execs" /\ n = Cardinality(Started) + 1
    /\ Created(tarea_libre, Kernel[n], "SLEEPING")
    /\ gates' = CASE n = 1 -> [gates EXCEPT !.tr = set_desc_tss - 1]
                  [] n = 2 -> [gates EXCEPT !.int40 = set_desc_tss - 1]
                  [] n = 3 -> [gates EXCEPT !.int10 = set_desc_tss - 1]
    /\ step' = IF n = Len(Kernel) THEN "modules" ELSE "execs"
    /\ UNCHANGED <<mods, start, ret, t_indice, des>>

\* What exec asks of a program before it does anything.
Accepted(m) == m.pag <= MAX_PAG_DRIVER /\ tarea_libre # 0

\* exec, or nothing but its return value when the program is too long.
exec(m) ==
    IF Accepted(m) THEN Created(tarea_libre, m.name, "RUNNING") ELSE UNCHANGED <<tss, gdt, r_tareas>>

\* execd: the same with the kernel's segments, which no table here shows.
execd(m) == exec(m)

\* The loop over the modules: /boot/start.bin is kept for the end, and the
\* last module that compares equal to it wins.  A comparison that came out
\* equal leaves its 0 on the stack, which the next one finds; after exec, printk
\* leaves a pointer there.
InLoop ==
    /\ step = "modules" /\ mods # << >>
    /\ mods' = Tail(mods)
    /\ UNCHANGED <<step, gates, t_indice, des>>

IsStart(m) == strcmp(Path(m.name), Path("start"))
IsPicture(m) == strcmp(Path(m.name), Path("background"))

KeepStart ==
    /\ InLoop /\ 0 \in IsStart(Head(mods))
    /\ start' = Head(mods) /\ ret' = {0}
    /\ UNCHANGED <<tss, gdt, r_tareas>>

SkipPicture ==
    /\ InLoop /\ 1 \in IsStart(Head(mods)) /\ 0 \in IsPicture(Head(mods))
    /\ ret' = {0}
    /\ UNCHANGED <<start, tss, gdt, r_tareas>>

LoadModule ==
    /\ InLoop /\ 1 \in IsStart(Head(mods)) /\ 1 \in IsPicture(Head(mods))
    /\ exec(Head(mods))
    /\ ret' = {1}
    /\ UNCHANGED start

NoStart ==
    /\ step = "modules" /\ mods = << >> /\ start = None
    /\ step' = "stopped"
    /\ UNCHANGED <<mods, start, ret, tss, gdt, r_tareas, gates, t_indice, des>>

LoadStart ==
    /\ step = "modules" /\ mods = << >> /\ start # None
    /\ step' = "run"
    /\ IF MODE_KERNEL THEN execd(start) ELSE exec(start)
    /\ UNCHANGED <<mods, start, ret, gates, t_indice, des>>

NextIndex ==
    IF t_indice + 1 = MAX_TASK THEN 1
    ELSE IF r_tareas[t_indice + 1].task = 0 THEN 1 ELSE t_indice + 1

\* One turn of task_control's search; the tasks come back to it (TaskSwitch).
task_control ==
    /\ step = "run"
    /\ t_indice' = NextIndex
    /\ des' = IF r_tareas[t_indice'].status = "RUNNING" THEN r_tareas[t_indice'].task ELSE des
    /\ UNCHANGED <<step, mods, start, ret, tss, gdt, r_tareas, gates>>

Next ==
    \/ \E n \in 1 .. 3 : execs(n)
    \/ KeepStart
    \/ SkipPicture
    \/ LoadModule
    \/ NoStart
    \/ LoadStart
    \/ task_control

Spec == Init /\ [][Next]_vars

-----------------------------------------------------------------------------
(* Properties                                                              *)

TableTypeOK ==
    /\ \A i \in Entries : r_tareas[i].task \in 0 .. MAX_GDT - 1 /\ r_tareas[i].tss \in Entries \cup {Null}
    /\ \A i \in 0 .. MAX_GDT - 1 : gdt[i].acceso \in {"free", "segment", "tss", "gate"}
    /\ ret \subseteq {0, 1} /\ t_indice \in Entries /\ des \in 0 .. MAX_GDT - 1

\* From an entry of r_tareas the way over task gate and descriptor leads to
\* the TSS the entry names, which the task of that name owns, and no other
\* entry.  It holds however many modules there are, because the gdt is full two
\* tasks before the table of TSSs can run out; and entries that get a second
\* name, over which strcpy leaves the end of the first, have no descriptor.
EntriesResolve ==
    \A i \in Started :
        /\ gdt[r_tareas[i].task].acceso = "gate"
        /\ LET d == gdt[gdt[r_tareas[i].task].base]
           IN  d.acceso = "tss" /\ d.base = r_tareas[i].tss /\ d.base # Null
        /\ Path(tss[r_tareas[i].tss]) = r_tareas[i].name
        /\ \A j \in Started : i # j => r_tareas[i].tss # r_tareas[j].tss

\* The selector 0x20 written into sys_call and sys_control, the task register
\* and the two task gates of the idt are the kernel tasks' descriptors.
KernelInPlace ==
    step \in {"modules", "run"} =>
        LET OwnDesc(s, i) == gdt[s] = [acceso |-> "tss", base |-> r_tareas[i].tss]
        IN  /\ gates.tr = Control /\ OwnDesc(Control, 0)
            /\ OwnDesc(gates.int40, 1) /\ OwnDesc(gates.int10, 2)
            /\ r_tareas[0].name = Path("task_control") /\ r_tareas[1].name = Path("sys_call")

\* _main enters task_control only with /boot/start.bin; without it, it says "No se
\* encontro el modulo" and returns.  But a module whose name has the same length
\* takes start.bin's place when it is listed right after it: then start.bin is not
\* loaded, and the system starts without it and without the message.
RunsStart == step = "run" => start.name = "start"
=============================================================================
