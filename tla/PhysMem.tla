------------------------------ MODULE PhysMem ------------------------------
(***************************************************************************)
(* Page frames: the bitmap of mm/mm.c, the page tables ini_pag() builds,   *)
(* the frames exec() takes for a task, the frames SYS_MEM grants, and what *)
(* check_addr() accepts.  Frames are numbered; mem_map is the set of the   *)
(* numbers whose bit is set.  The sizes of the machine are constants so    *)
(* that TLC can scale them down.                                           *)
(***************************************************************************)
EXTENDS Integers, FiniteSets, Sequences

CONSTANTS
    PAG_LEN,         \* bytes in a frame
    SEC_MEM,         \* bits in a char of mem_map
    Slack,           \* buscar_mem starts this many frames before mem_off (10)
    Megabyte,        \* frames of the first megabyte are 0 .. Megabyte - 1
    Video,           \* frames ini_mm releases: 0xFC .. 0x103
    VideoText,       \* frames task_control releases: 0xb8, 0xb9
    KernelIni, KernelFin,   \* first and last frame of the kernel
    TAB_PAG_LEN,     \* entries of a page table
    CAN_TAB_PAG,     \* page tables, one for each directory entry
    V_USER, V_STACK, \* virtual pages of the program and of its stack
    MAX_PAG_DRIVER,  \* largest program exec loads, in frames
    RamBytes,        \* possible sizes of the memory, in bytes
    Lengths,         \* possible lengths of a module, in bytes
    MaxModules,      \* GRUB loads at most this many modules
    Requests         \* values of ebx in SYS_MEM; 0 asks for any frame

ASSUME MemAssumption ==
    /\ \A k \in {PAG_LEN, SEC_MEM, Slack, Megabyte, KernelIni, KernelFin, TAB_PAG_LEN, CAN_TAB_PAG,
                 V_USER, V_STACK, MAX_PAG_DRIVER, MaxModules} : k \in Nat \ {0}
    /\ PAG_LEN >= 4   \* the kilobyte steps of testmem
    /\ KernelIni <= KernelFin /\ Megabyte <= KernelIni
    /\ V_USER + MAX_PAG_DRIVER <= V_STACK /\ V_STACK < TAB_PAG_LEN
    /\ KernelFin < V_USER /\ Slack <= KernelFin
    /\ Video \subseteq 1 .. KernelFin /\ VideoText \subseteq 1 .. KernelIni - 1
    \* the kernel is longer than Slack: buscar_mem never looks below it
    /\ KernelIni <= SEC_MEM * ((KernelFin + 2 - Slack) \div SEC_MEM)
    \* no more memory than addresses; no module is empty
    /\ RamBytes \subseteq 0 .. PAG_LEN * (CAN_TAB_PAG * TAB_PAG_LEN)
    /\ Lengths \subseteq Nat \ {0}
    /\ Requests \subseteq 0 .. CAN_TAB_PAG * TAB_PAG_LEN - 1
    \* the page tables of ini_pag reach beyond the window V_USER .. V_STACK
    /\ V_STACK <= KernelFin + 2 + CAN_TAB_PAG

VARIABLES
    step,      \* what _main does next: "mem_off", "ini_mm", "ini_pag", "exec", "run"
    ram,       \* bytes of memory in this machine
    mods,      \* the modules: sequence of [start, len] in bytes
    mem_max,   \* frames that testmem found
    mem_off,   \* buscar_mem starts near this frame
    mem_map,   \* frames whose bit is set
    tables,    \* frames of the kernel's page tables, tables[0] being g_tab
    g_dir,     \* frame of the kernel's page directory
    tasks,     \* what exec recorded: sequence of [mem, dir, tab, stack]
    dir_user,  \* directory entries each task may use (bits |= 7)
    tab_user,  \* entries of each task's own table 0 with those bits
    shared,    \* entries of the tables all tasks share with those bits
    granted,   \* frames SYS_MEM gave to each task
    eax        \* result of the last SYS_MEM of each task

boot == <<ram, mem_max, mem_off>>
vars == <<step, ram, mods, mem_max, mem_off, mem_map, tables, g_dir, tasks,
          dir_user, tab_user, shared, granted, eax>>

AddressSpace == 0 .. CAN_TAB_PAG * TAB_PAG_LEN - 1
Loaded == 1 .. Len(tasks)
Frames(bytes) == bytes \div PAG_LEN + (IF bytes % PAG_LEN = 0 THEN 0 ELSE 1)
addr2pag(a) == a \div PAG_LEN
Image(m) == {addr2pag(m.start) + i : i \in 0 .. Frames(m.len) - 1}

-----------------------------------------------------------------------------
(* mm.c: the bitmap                                                        *)

\* One probe loop of testmem: the last address a + k * salto that answers.
Climb(a, salto, size) == a + salto * ((size - 1 - a) \div salto)

\* Mutant: the byte steps are left out.
testmemCoarse(size) ==
    LET a == KernelFin * PAG_LEN
        b == Climb(a, Megabyte * PAG_LEN, size)
    IN  addr2pag(Climb(b, PAG_LEN \div 4, size))

\* Steps of a megabyte, of a kilobyte, of a byte from the end of the kernel.
testmem(size) ==
    LET a == KernelFin * PAG_LEN
        b == Climb(a, Megabyte * PAG_LEN, size)
        c == Climb(b, PAG_LEN \div 4, size)
    IN  addr2pag(Climb(c, 1, size) + 1)

\* set_mem succeeds on a frame that is free.
CanSet(map, p) == p \notin map

\* Mutant: the last char of the bitmap is never searched.
SearchedShort == SEC_MEM * ((mem_off - Slack) \div SEC_MEM) .. SEC_MEM * (mem_max \div SEC_MEM - 1) - 1

\* The frames of the chars of mem_map that buscar_mem goes through, in order.
Searched == SEC_MEM * ((mem_off - Slack) \div SEC_MEM) .. SEC_MEM * (mem_max \div SEC_MEM) - 1

Least(S) == CHOOSE p \in S : \A q \in S : p <= q

\* The first free bit of the first char that is not full; 0 if there is none.
buscar_mem(map) == LET free == Searched \ map IN IF free = {} THEN 0 ELSE Least(free)

\* The frames n calls of buscar_mem return, each marked by set_mem before the
\* next call; nothing is checked.
Taken(n, map) ==
    LET ps[i \in 0 .. n - 1] == buscar_mem(map \cup {ps[j] : j \in 0 .. i - 1}) IN ps

SetOf(s) == {s[i] : i \in DOMAIN s}

-----------------------------------------------------------------------------
(* _main: boot                                                             *)

\* GRUB puts the modules one after another behind the kernel, page aligned.
Layout(lens) ==
    LET first[i \in 1 .. Len(lens)] ==
            IF i = 1 THEN KernelFin + 1 ELSE first[i - 1] + Frames(lens[i - 1])
    IN  [i \in 1 .. Len(lens) |-> [start |-> first[i] * PAG_LEN, len |-> lens[i]]]

EndOf(m) == m.start + m.len
\* A machine that can hold the page tables and three frames for every task.
Enough(size, ms) ==
    size >= PAG_LEN * (addr2pag(EndOf(ms[Len(ms)])) + 2 + CAN_TAB_PAG + 3 * Len(ms) + SEC_MEM)

\* Memory before _main has touched it.
Blank ==
    /\ mem_max = 0 /\ mem_off = 0
    /\ mem_map = {} /\ tables = << >> /\ g_dir = 0 /\ tasks = << >>
    /\ dir_user = << >> /\ tab_user = << >> /\ shared = {} /\ granted = << >> /\ eax = << >>

Init ==
    /\ step = "mem_off"
    /\ \E n \in 1 .. MaxModules : \E lens \in [1 .. n -> Lengths] :
           /\ \E i \in 1 .. n : Frames(lens[i]) <= MAX_PAG_DRIVER   \* something to run
           /\ mods = Layout(lens)
    /\ ram \in {size \in RamBytes : Enough(size, mods)}
    /\ Blank

\* Mutant: the first module's end is taken for that of all.
set_mem_offFirst ==
    /\ step = "mem_off"
    /\ step' = "ini_mm"
    /\ mem_off' = addr2pag(EndOf(mods[1])) + 1
    /\ UNCHANGED <<ram, mods, mem_max, mem_map, tables, g_dir, tasks, dir_user, tab_user, shared, granted, eax>>

\* The bitmap is searched from behind the last module on.
set_mem_off ==
    /\ step = "mem_off"
    /\ step' = "ini_mm"
    /\ mem_off' = addr2pag(EndOf(mods[Len(mods)])) + 1
    /\ UNCHANGED <<ram, mods, mem_max, mem_map, tables, g_dir, tasks, dir_user, tab_user, shared, granted, eax>>

\* Mutant: the video window is released last.
ini_mmVideoLast ==
    /\ step = "ini_mm"
    /\ step' = "ini_pag"
    /\ mem_max' = testmem(ram)
    /\ mem_map' = ((0 .. Megabyte - 1) \cup (KernelIni .. mem_off - 1)) \ Video
    /\ UNCHANGED <<ram, mods, mem_off, tables, g_dir, tasks, dir_user, tab_user, shared, granted, eax>>

\* First the first megabyte, then the video window is released, then kernel
\* and modules are marked again: the window reaches into the kernel.
ini_mm ==
    /\ step = "ini_mm"
    /\ step' = "ini_pag"
    /\ mem_max' = testmem(ram)
    /\ mem_map' = (((0 .. Megabyte - 1) \ Video) \cup (KernelIni .. KernelFin))
                     \cup (KernelFin + 1 .. mem_off - 1)
    /\ UNCHANGED <<ram, mods, mem_off, tables, g_dir, tasks, dir_user, tab_user, shared, granted, eax>>

\* A directory, table 0, and the other tables, one buscar_mem each.
ini_pag ==
    /\ step = "ini_pag"
    /\ step' = "exec"
    /\ LET ps == Taken(CAN_TAB_PAG + 1, mem_map) IN
       /\ g_dir' = ps[0]
       /\ tables' = [i \in 0 .. CAN_TAB_PAG - 1 |-> ps[i + 1]]
       /\ mem_map' = mem_map \cup SetOf(ps)
    /\ UNCHANGED <<boot, mods, tasks, dir_user, tab_user, shared, granted, eax>>

\* Mutant: user bits for the whole window, however long the program is.
execWide(m) ==
    LET image == [i \in 1 .. Frames(m.len) |-> addr2pag(m.start) + i - 1]
        ps == Taken(3, mem_map \cup SetOf(image))
    IN  /\ mem_map' = mem_map \cup SetOf(image) \cup SetOf(ps)
        /\ tasks' = Append(tasks, [mem |-> image, dir |-> ps[0], tab |-> ps[1], stack |-> ps[2]])
        /\ dir_user' = Append(dir_user, {0})
        /\ tab_user' = Append(tab_user, V_USER .. V_STACK)
        /\ granted' = Append(granted, {}) /\ eax' = Append(eax, 0)

\* exec: the image stays where GRUB put it; its frames and three new ones are
\* marked.  Too long a program is not loaded.
exec(m) ==
    LET pag == Frames(m.len)
        image == [i \in 1 .. pag |-> addr2pag(m.start) + i - 1]
        ps == Taken(3, mem_map \cup SetOf(image))
    IN  IF pag > MAX_PAG_DRIVER
        THEN UNCHANGED <<mem_map, tasks, dir_user, tab_user, granted, eax>>
        ELSE /\ mem_map' = mem_map \cup SetOf(image) \cup SetOf(ps)
             /\ tasks' = Append(tasks, [mem |-> image, dir |-> ps[0], tab |-> ps[1], stack |-> ps[2]])
             /\ dir_user' = Append(dir_user, {0})
             /\ tab_user' = Append(tab_user, {V_USER + i - 1 : i \in 1 .. pag} \cup {V_STACK})
             /\ granted' = Append(granted, {})
             /\ eax' = Append(eax, 0)

\* _main goes through the modules, whatever exec returns.
Load ==
    /\ step = "exec" /\ mods # << >>
    /\ exec(Head(mods))
    /\ mods' = Tail(mods)
    /\ UNCHANGED <<step, boot, tables, g_dir, shared>>

\* task_control starts by releasing the text screen.
task_control ==
    /\ step = "exec" /\ mods = << >>
    /\ step' = "run"
    /\ mem_map' = mem_map \ VideoText
    /\ UNCHANGED <<boot, mods, tables, g_dir, tasks, dir_user, tab_user, shared, granted, eax>>

-----------------------------------------------------------------------------
(* exec.c: SYS_MEM and check_addr                                          *)

\* What the entry for virtual page v in the own table 0 of task t points to.
Target(t, v) ==
    IF v - V_USER + 1 \in DOMAIN tasks[t].mem THEN tasks[t].mem[v - V_USER + 1]
    ELSE IF v = V_STACK THEN tasks[t].stack ELSE v

\* Mutant: the tables are filled from the directory's frame on.
ContentFromDir(f, i) == (f - g_dir) * TAB_PAG_LEN + i

\* The content ini_pag wrote at table frame f: it fills CAN_TAB_PAG tables
\* upwards from g_tab, wherever the frames of the directory are.
Content(f, i) == (f - tables[0]) * TAB_PAG_LEN + i

Frame(t, v) ==
    IF v < TAB_PAG_LEN THEN Target(t, v)
    ELSE Content(tables[v \div TAB_PAG_LEN], v % TAB_PAG_LEN)

EntryUser(t, v) == IF v < TAB_PAG_LEN THEN v \in tab_user[t] ELSE v \in shared

\* check_addr looks at the table entry only.
check_addr(t, v) == EntryUser(t, v)

\* What the processor allows a user task: the bits of both levels.
Accessible(t, v) == v \div TAB_PAG_LEN \in dir_user[t] /\ EntryUser(t, v)

\* Mutants: the directory entry keeps its bits; every frame goes to table 0.
sys_memNoDir(t, ebx) ==
    LET pedido == IF ebx = 0 THEN buscar_mem(mem_map) ELSE ebx IN
    /\ step = "run" /\ pedido # 0 /\ CanSet(mem_map, pedido)
    /\ mem_map' = mem_map \cup {pedido}
    /\ tab_user' = [tab_user EXCEPT ![t] = IF pedido < TAB_PAG_LEN THEN @ \cup {pedido} ELSE @]
    /\ shared' = IF pedido < TAB_PAG_LEN THEN shared ELSE shared \cup {pedido}
    /\ granted' = [granted EXCEPT ![t] = @ \cup {pedido}]
    /\ eax' = [eax EXCEPT ![t] = pedido]
    /\ UNCHANGED <<step, boot, mods, tables, g_dir, tasks, dir_user>>

sys_memTableZero(t, ebx) ==
    LET pedido == IF ebx = 0 THEN buscar_mem(mem_map) ELSE ebx IN
    /\ step = "run" /\ pedido # 0 /\ CanSet(mem_map, pedido)
    /\ mem_map' = mem_map \cup {pedido}
    /\ dir_user' = [dir_user EXCEPT ![t] = @ \cup {pedido \div TAB_PAG_LEN}]
    /\ tab_user' = [tab_user EXCEPT ![t] = @ \cup {pedido}]
    /\ granted' = [granted EXCEPT ![t] = @ \cup {pedido}]
    /\ eax' = [eax EXCEPT ![t] = pedido]
    /\ UNCHANGED <<step, boot, mods, tables, g_dir, tasks, shared>>

sys_mem(t, ebx) ==
    LET pedido == IF ebx = 0 THEN buscar_mem(mem_map) ELSE ebx IN
    /\ step = "run"
    /\ \/ /\ pedido = 0
          /\ eax' = [eax EXCEPT ![t] = -1]
          /\ UNCHANGED <<mem_map, dir_user, tab_user, shared, granted>>
       \/ /\ pedido # 0 /\ ~CanSet(mem_map, pedido)
          /\ eax' = [eax EXCEPT ![t] = -3]
          /\ UNCHANGED <<mem_map, dir_user, tab_user, shared, granted>>
       \/ /\ pedido # 0 /\ CanSet(mem_map, pedido)
          /\ mem_map' = mem_map \cup {pedido}
          /\ dir_user' = [dir_user EXCEPT ![t] = @ \cup {pedido \div TAB_PAG_LEN}]
          /\ IF pedido < TAB_PAG_LEN
             THEN /\ tab_user' = [tab_user EXCEPT ![t] = @ \cup {pedido}]
                  /\ UNCHANGED shared
             ELSE /\ shared' = shared \cup {pedido}
                  /\ UNCHANGED tab_user
          /\ granted' = [granted EXCEPT ![t] = @ \cup {pedido}]
          /\ eax' = [eax EXCEPT ![t] = pedido]
    /\ UNCHANGED <<step, boot, mods, tables, g_dir, tasks>>

Next ==
    \/ set_mem_off
    \/ ini_mm
    \/ ini_pag
    \/ Load
    \/ task_control
    \/ \E t \in Loaded, ebx \in Requests : sys_mem(t, ebx)

Spec == Init /\ [][Next]_vars

-----------------------------------------------------------------------------
(* Properties                                                              *)

TypeOK ==
    /\ step \in {"mem_off", "ini_mm", "ini_pag", "exec", "run"}
    /\ mem_map \subseteq AddressSpace
    /\ shared \subseteq AddressSpace \ (0 .. TAB_PAG_LEN - 1)
    /\ tasks \in Seq([mem : Seq(Nat), dir : Nat, tab : Nat, stack : Nat])
    /\ dir_user \in Seq(SUBSET Nat) /\ tab_user \in Seq(SUBSET (0 .. TAB_PAG_LEN - 1))
    /\ granted \in Seq(SUBSET Nat) /\ eax \in Seq(Int)
    /\ Len(dir_user) = Len(tasks) /\ Len(tab_user) = Len(tasks)
    /\ Len(granted) = Len(tasks) /\ Len(eax) = Len(tasks)

\* Who holds which frame, and for what.
TaskHoldings(t) ==
    {<<"dir", t, tasks[t].dir>>, <<"tab", t, tasks[t].tab>>, <<"stack", t, tasks[t].stack>>}
    \cup {<<"image", t, p>> : p \in SetOf(tasks[t].mem)}
    \cup {<<"grant", t, p>> : p \in granted[t]}

Holdings ==
    {<<"kernel", 0, p>> : p \in KernelIni .. KernelFin}
    \cup (UNION {{<<"module", m.start, p>> : p \in Image(m)} : m \in SetOf(mods)})
    \cup (IF tables = << >> THEN {}
          ELSE {<<"g_dir", 0, g_dir>>} \cup {<<"table", i, tables[i]>> : i \in DOMAIN tables})
    \cup (UNION {TaskHoldings(t) : t \in Loaded})

\* A frame has one holder (kernel, module not yet loaded, page table, task) and
\* its bit is set, although ini_mm marks, releases and marks again and nobody
\* looks at what set_mem returns during boot.
NoFrameTwice ==
    step \notin {"mem_off", "ini_mm"} =>
        /\ \A h \in Holdings : h[3] \in mem_map
        /\ \A g, h \in Holdings : g[3] = h[3] => g = h

\* ini_pag writes 1024 tables upwards from g_tab but enters into the directory
\* the frames buscar_mem returned one by one: the kernel runs on an identity
\* mapping only if those frames are consecutive.
KernelMapIsIdentity ==
    \A i \in DOMAIN tables : \A j \in 0 .. TAB_PAG_LEN - 1 :
        Content(tables[i], j) = i * TAB_PAG_LEN + j

\* A frame SYS_MEM reported is reachable by the task at that number: the frames
\* hidden behind V_USER .. V_STACK in a task's own table are never granted.
GrantIsReachable ==
    \A t \in Loaded : \A p \in granted[t] :
        Accessible(t, p) /\ Frame(t, p) = p /\ check_addr(t, p)

\* Both: a frame is found at its own number, by the kernel and by the task that
\* was given it (ini_pag, sys_mem).
FramesInPlace == KernelMapIsIdentity /\ GrantIsReachable

\* In a task's own table check_addr accepts the task's own frames only.
OwnTableChecksOwnFrames ==
    \A t \in Loaded : \A v \in 0 .. TAB_PAG_LEN - 1 :
        check_addr(t, v) =>
            Frame(t, v) \in SetOf(tasks[t].mem) \cup {tasks[t].stack} \cup granted[t]

\* "Chequeamos que direccione dentro de su memoria": what check_addr accepts
\* for a task is what the task's page tables let it reach.  The code does not
\* keep to this: all tasks share the tables above the first, and check_addr does
\* not look at the directory.  No run checks it.
ChecksOwnMemory ==
    \A t \in Loaded : \A v \in AddressSpace : check_addr(t, v) => Accessible(t, v)

\* The three probe loops of testmem find the size of the memory exactly, and
\* SYS_MEM gives up (-1) only when the frames of that memory are all taken: bits
\* are searched a char at a time, so what is left is a last, incomplete char.
FindsAllMemory == step \notin {"mem_off", "ini_mm"} => mem_max = ram \div PAG_LEN

GivesUpWhenFull ==
    \A t \in Loaded : eax[t] = -1 =>
        mem_off .. SEC_MEM * (mem_max \div SEC_MEM) - 1 \subseteq mem_map

\* Both: no frame of the machine is lost by testmem or by buscar_mem.
NothingLost == FindsAllMemory /\ GivesUpWhenFull

\* What the properties need to survive every step.  From the end of the kernel on
\* boot uses the frames in order: modules up to mem_off, the directory and the
\* tables of the kernel, three for each task.  Top is the first one it leaves.
Top == mem_off + CAN_TAB_PAG + 1 + 3 * Len(tasks)

\* There is memory for the modules that are still to be loaded.
Room ==
    IF step = "mem_off" THEN mods # << >> /\ Enough(ram, mods)
    ELSE KernelFin + 2 <= mem_off /\ PAG_LEN * (Top + 3 * Len(mods) + SEC_MEM) <= ram

\* Modules and images lie between the kernel and mem_off, none on another.
ImagesApart ==
    LET behind == IF step = "mem_off" THEN addr2pag(EndOf(mods[Len(mods)])) + 1 ELSE mem_off
    IN  /\ \A i \in DOMAIN mods : Image(mods[i]) \subseteq KernelFin + 1 .. behind - 1
        /\ \A i, j \in DOMAIN mods : i # j => Image(mods[i]) \cap Image(mods[j]) = {}
        /\ \A t \in Loaded : SetOf(tasks[t].mem) \subseteq KernelFin + 1 .. behind - 1
        /\ \A t \in Loaded, i \in DOMAIN mods : SetOf(tasks[t].mem) \cap Image(mods[i]) = {}
        /\ \A s, t \in Loaded : s # t => SetOf(tasks[s].mem) \cap SetOf(tasks[t].mem) = {}

\* Every frame from the kernel on that boot has used is marked, and during boot
\* no other one is.
Marked ==
    CASE step \in {"mem_off", "ini_mm"} -> mem_map = {}
      [] step = "ini_pag" -> KernelIni .. mem_off - 1 \subseteq mem_map /\ mem_map \subseteq 0 .. mem_off - 1
      [] step = "exec"    -> KernelIni .. Top - 1 \subseteq mem_map /\ mem_map \subseteq 0 .. Top - 1
      [] step = "run"     -> KernelIni .. Top - 1 \subseteq mem_map /\ mem_map \subseteq AddressSpace

\* Where buscar_mem found the frames of the tables and of the tasks.
Placed ==
    /\ IF step \in {"exec", "run"}
       THEN g_dir = mem_off /\ tables = [i \in 0 .. CAN_TAB_PAG - 1 |-> mem_off + 1 + i]
       ELSE tables = << >> /\ tasks = << >>
    /\ step = "run" => mods = << >>
    /\ \A t \in Loaded :
         LET first == mem_off + CAN_TAB_PAG + 1 + 3 * (t - 1) IN
         /\ tasks[t].dir = first /\ tasks[t].tab = first + 1 /\ tasks[t].stack = first + 2
         /\ \E pag \in 0 .. MAX_PAG_DRIVER : DOMAIN tasks[t].mem = 1 .. pag

\* A frame that was granted was free, belongs to one task, and has the bits that
\* make it reachable; other pages have them only in the window of the program.
Granted ==
    /\ step # "run" => \A t \in Loaded : granted[t] = {}
    /\ \A t \in Loaded : granted[t] \subseteq mem_map \cap AddressSpace
    /\ \A t \in Loaded : granted[t] \cap (KernelIni .. Top - 1) = {}
    /\ \A s, t \in Loaded : s # t => granted[s] \cap granted[t] = {}
    /\ \A t \in Loaded :
         /\ dir_user[t] = {0} \cup {p \div TAB_PAG_LEN : p \in granted[t]}
         /\ tab_user[t] = {V_USER + i - 1 : i \in DOMAIN tasks[t].mem} \cup {V_STACK}
                              \cup {p \in granted[t] : p < TAB_PAG_LEN}
    /\ shared = {p \in UNION {granted[t] : t \in Loaded} : p >= TAB_PAG_LEN}

MemInv ==
    /\ TypeOK /\ mods \in Seq([start : Nat, len : Lengths])
    /\ ram \in RamBytes /\ mem_max \in Nat /\ mem_off \in Nat
    /\ Room /\ ImagesApart /\ Marked /\ Placed /\ Granted
    /\ FindsAllMemory /\ GivesUpWhenFull
=============================================================================
