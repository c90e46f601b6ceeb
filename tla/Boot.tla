-------------------------------- MODULE Boot --------------------------------
(***************************************************************************)
(* _main() from the multiboot structure to task_control(): the frames of   *)
(* PhysMem and the tables of TaskTable filled in the order of the code.    *)
(* exec() is one step of both: what it writes into the TSS (pag_mem, the   *)
(* page directory in cr3) is what ties an entry of the tables to frames.   *)
(***************************************************************************)
EXTENDS PhysMem

CONSTANTS
    MAX_TASK, MAX_GDT, MODE_KERNEL, PathLen, MAX_STRING   \* as in TaskTable

VARIABLES
    multiboot,   \* the modules as GRUB lists them: [name, pag, start, len] of each
    phase,       \* TaskTable's step: "memory" before it
    list,        \* TaskTable's mods
    start, ret, tss, gdt, r_tareas, gates, t_indice, des,
    space        \* cr3 in each TSS: the number of an exec, 0 the kernel's directory

T == INSTANCE TaskTable WITH step <- phase, mods <- list

ASSUME BootAssumption == T!TableAssumption

fixed == <<boot, tables, g_dir, shared>>   \* after ini_pag
memory == <<fixed, mem_map, tasks, dir_user, tab_user, granted, eax>>
table == <<list, start, ret, tss, gdt, r_tareas, gates, t_indice, des>>
allVars == <<vars, multiboot, phase, table, space>>

\* The modules that exec has still to take over: PhysMem's mods, which _main does
\* not keep but has as what is left of the list and the module put aside.
Waiting == IF phase = "modules" /\ start # T!None THEN Append(list, start) ELSE list
Pending == [i \in DOMAIN Waiting |-> [start |-> Waiting[i].start, len |-> Waiting[i].len]]

BootInit ==
    /\ \E n \in 0 .. MaxModules : \E names \in [1 .. n -> T!Programs] : \E lens \in [1 .. n -> Lengths] :
         LET place == Layout(lens)
         IN  multiboot = [i \in 1 .. n |->
                [name |-> names[i], pag |-> Frames(lens[i]), start |-> place[i].start, len |-> lens[i]]]
    /\ phase = "memory" /\ step = "mem_off"
    /\ list = multiboot /\ T!Empty
    /\ mods = Pending
    /\ ram \in {size \in RamBytes : mods # << >> => Enough(size, mods)}
    /\ Blank
    /\ space = [i \in T!Entries |-> 0]

\* Without modules _main returns at once.
NoModules ==
    /\ phase = "memory" /\ list = << >>
    /\ phase' = "stopped"
    /\ UNCHANGED <<vars, multiboot, table, space>>

\* set_mem_off, ini_mm and ini_pag, before the first execs.
Memory ==
    /\ phase = "memory" /\ list # << >>
    /\ phase' = IF step = "ini_pag" THEN "execs" ELSE phase
    /\ set_mem_off \/ ini_mm \/ ini_pag
    /\ UNCHANGED <<multiboot, table, space>>

\* A kernel task runs in the kernel's own directory.
Execs(n) ==
    /\ T!execs(n)
    /\ space' = IF T!set_tss = T!Null THEN space ELSE [space EXCEPT ![T!set_tss] = 0]
    /\ UNCHANGED <<vars, multiboot>>

\* Mutant: the directory goes into the TSS after the one T!set_tss found.
InSpaceNext(m) ==
    IF T!Accepted(m)
    THEN exec(m) /\ space' = IF T!set_tss = T!Null THEN space ELSE [space EXCEPT ![T!set_tss + 1] = Len(tasks')]
    ELSE UNCHANGED <<mem_map, tasks, dir_user, tab_user, granted, eax, space>>

\* What exec does to memory, and the directory it writes into the new TSS.
InSpace(m) ==
    IF T!Accepted(m)
    THEN exec(m) /\ space' = IF T!set_tss = T!Null THEN space ELSE [space EXCEPT ![T!set_tss] = Len(tasks')]
    ELSE UNCHANGED <<mem_map, tasks, dir_user, tab_user, granted, eax, space>>

Loop ==
    /\ \/ (T!KeepStart \/ T!SkipPicture \/ T!NoStart) /\ UNCHANGED <<memory, space>>
       \/ T!LoadModule /\ InSpace(Head(list)) /\ UNCHANGED fixed
       \/ T!LoadStart /\ InSpace(start) /\ UNCHANGED fixed
    /\ mods' = Pending'
    /\ UNCHANGED <<multiboot, step>>

\* task_control releases the text screen and then only searches.
TaskControl ==
    /\ phase = "run"
    /\ \/ task_control /\ UNCHANGED <<phase, table>>
       \/ step = "run" /\ T!task_control /\ UNCHANGED vars
    /\ UNCHANGED <<multiboot, space>>

BootNext ==
    \/ NoModules
    \/ Memory
    \/ \E n \in 1 .. 3 : Execs(n)
    \/ Loop
    \/ TaskControl

\* task_control searches for ever, with interrupts disabled.
BootSpec == BootInit /\ [][BootNext]_allVars /\ WF_allVars(TaskControl)

-----------------------------------------------------------------------------
(* Properties                                                              *)

\* The types of both parts; every TSS holds the directory of an exec or the
\* kernel's.
BootTypeOK ==
    /\ phase \in {"memory", "execs", "modules", "run", "stopped"}
    /\ T!TableTypeOK /\ TypeOK
    /\ space \in [T!Entries -> 0 .. Len(tasks)]

\* A module that GRUB listed with this path and whose image is these frames.
HasImage(path, frames) ==
    \E i \in DOMAIN multiboot :
        T!Path(multiboot[i].name) = path /\ frames = [j \in 1 .. multiboot[i].pag |->
                                                      addr2pag(multiboot[i].start) + j - 1]

\* The entry of r_tareas that task_control jumps to runs the program it is named
\* after: over gate, descriptor and TSS to a directory whose pages from V_USER on
\* are that module's image, which no other entry has, and the kernel's tasks stay
\* in the kernel's directory.  Nobody checks what tarea_libre, set_tss,
\* set_desc_tss and set_mem return, and start.bin is loaded out of turn.
ReachesItsProgram ==
    /\ T!EntriesResolve /\ T!KernelInPlace
    /\ \A i \in T!Started :
         LET k == space[r_tareas[i].tss] IN
         IF i < Len(T!Kernel) THEN k = 0
         ELSE /\ k > 0
              /\ HasImage(r_tareas[i].name, tasks[k].mem)
              /\ \A j \in DOMAIN tasks[k].mem : Frame(k, V_USER + j - 1) = tasks[k].mem[j]
              /\ \A j \in T!Started \ {i} : space[r_tareas[j].tss] # k

\* Modules skipped, refused or kept for last never lose their frames to a page
\* table, a directory or a stack before exec takes them over.
FramesApart == NoFrameTwice

\* Every task that got its descriptor is reached again and again, whatever
\* the order and the sizes of the modules: skipped modules leave no hole.
EveryoneReached ==
    \A i \in T!Entries :
        [](phase = "run" /\ r_tareas[i].task # 0 /\ i > 0 => <>(t_indice = i))
=============================================================================
