------------------------------ MODULE BootProofs ------------------------------
(***************************************************************************)
(* Proofs about Boot, for any modules GRUB may load and tables of any      *)
(* size: what the tables hold after n tasks have been started, and that    *)
(* _main's order of calls keeps PhysMem's MemInv.                          *)
(***************************************************************************)
EXTENDS Boot, PhysMemProofs, FiniteSetTheorems

Names == T!Programs \cup {"task_control", "sys_call", "sys_control"}

\* The n tasks that have been started hold the first entries of the three tables.
\* The gdt is full two tasks before the others: a task created then takes a TSS
\* all the same (m of them are taken), and an entry that remains free.
Filled(n, m) ==
    /\ n \in 0 .. MAX_TASK - 2 /\ m \in {n, MAX_TASK - 1} /\ (m # n => n = MAX_TASK - 2)
    /\ tss = [i \in 0 .. MAX_TASK - 1 |-> tss[i]]
    /\ r_tareas = [i \in 0 .. MAX_TASK - 1 |-> r_tareas[i]]
    /\ gdt = [j \in 0 .. MAX_GDT - 1 |-> gdt[j]]
    /\ \A i \in 0 .. m - 1 : tss[i] # ""
    /\ \A i \in m .. MAX_TASK - 1 : tss[i] = ""
    /\ \A i \in 0 .. MAX_TASK - 1 : r_tareas[i].tss \in -1 .. MAX_TASK - 1
    /\ \A i \in 0 .. n - 1 :
         /\ tss[i] \in Names
         /\ r_tareas[i].task = 2 * i + 5 /\ r_tareas[i].tss = i /\ r_tareas[i].name = T!Path(tss[i])
         /\ gdt[2 * i + 4] = [acceso |-> "tss", base |-> i]
         /\ gdt[2 * i + 5] = [acceso |-> "gate", base |-> 2 * i + 4]
    /\ \A i \in n .. MAX_TASK - 1 : r_tareas[i].task = 0 /\ (m = n => r_tareas[i].name = << >>)
    /\ \A j \in 0 .. 3 : gdt[j].acceso \in {"free", "segment"}
    /\ \A j \in 2 * n + 4 .. MAX_GDT - 1 : gdt[j].acceso = "free"

\* The kernel's tasks are the first three, and the gates lead to them.
KernelFirst(n, m) ==
    /\ \A i \in 0 .. n - 1 : IF i < 3 THEN tss[i] = T!Kernel[i + 1] ELSE tss[i] \in T!Programs
    /\ phase \in {"memory", "execs"} => m = n /\ n <= 2
    /\ phase = "memory" => n = 0
    /\ phase \in {"modules", "run"} => n >= 3
    /\ gates \in [int40 : Nat, int10 : Nat, tr : Nat]
    /\ (n >= 1 => gates.tr = 4) /\ (n >= 2 => gates.int40 = 6) /\ (n >= 3 => gates.int10 = 8)

ImageList(m) == [j \in 1 .. m.pag |-> addr2pag(m.start) + j - 1]

\* The i-th task is the (i - 3)-th that exec loaded; what is loaded when the gdt is
\* full gets frames but no entry.
Spaces(n) ==
    /\ space \in [0 .. MAX_TASK - 1 -> 0 .. Len(tasks)]
    /\ IF n < 3 THEN Len(tasks) = 0
       ELSE Len(tasks) >= n - 3 /\ (n < MAX_TASK - 2 => Len(tasks) = n - 3)
    /\ \A i \in 0 .. n - 1 : space[i] = IF i < 3 THEN 0 ELSE i - 2
    /\ \A i \in 3 .. n - 1 : \E q \in DOMAIN multiboot :
         /\ multiboot[q].name = tss[i] /\ multiboot[q].pag <= MAX_PAG_DRIVER
         /\ tasks[i - 2].mem = ImageList(multiboot[q])

Listed == {multiboot[q] : q \in DOMAIN multiboot}

\* What _main has still to look at are modules of GRUB's list, and PhysMem's
\* pending modules are these.
ListInv ==
    /\ \A m \in Listed : m.name \in T!Programs /\ m.pag = Frames(m.len) /\ m.start \in Nat /\ m.len \in Lengths
    /\ list \in Seq(Listed) /\ start \in Listed \cup {T!None}
    /\ phase \in {"memory", "execs"} => start = T!None
    /\ mods = Pending

\* How far _main and the memory are.
Phases ==
    /\ phase \in {"memory", "execs", "modules", "run", "stopped"}
    /\ phase = "memory" => step \in {"mem_off", "ini_mm", "ini_pag"}
    /\ phase \in {"execs", "modules"} => step = "exec"
    /\ phase = "run" => step \in {"exec", "run"} /\ mods = << >>
    /\ multiboot = << >> => phase \in {"memory", "stopped"} /\ step = "mem_off" /\ mods = << >> /\ Blank
    /\ t_indice \in 0 .. MAX_TASK - 1 /\ des \in 0 .. MAX_GDT - 1 /\ ret \subseteq {0, 1}

TablesInv == \E n, m \in 0 .. MAX_TASK : Filled(n, m) /\ KernelFirst(n, m) /\ Spaces(n)

BootInv == ListInv /\ Phases /\ TablesInv /\ (multiboot # << >> => MemInv)

-----------------------------------------------------------------------------
(* The list of modules                                                     *)

\* PhysMem's view of a list of modules.
Strip(w) == [i \in DOMAIN w |-> [start |-> w[i].start, len |-> w[i].len]]

LEMMA Stripped ==
    ASSUME NEW S, \A m \in S : m.start \in Nat /\ m.len \in Lengths, NEW w \in Seq(S)
    PROVE  /\ Strip(w) \in Seq([start : Nat, len : Lengths]) /\ Len(Strip(w)) = Len(w) /\ Len(w) \in Nat
           /\ \A i \in 1 .. Len(w) : Strip(w)[i] = [start |-> w[i].start, len |-> w[i].len]
<1>1. Len(w) \in Nat /\ DOMAIN w = 1 .. Len(w) /\ \A i \in 1 .. Len(w) : w[i] \in S
  OBVIOUS
<1>2. \A i \in 1 .. Len(w) : [start |-> w[i].start, len |-> w[i].len] \in [start : Nat, len : Lengths]
  BY <1>1
<1>3. PICK n \in Nat : n = Len(w)
  BY <1>1
<1>4. Strip(w) = [i \in 1 .. n |-> [start |-> w[i].start, len |-> w[i].len]]
  BY <1>1, <1>3 DEF Strip
<1>5. Strip(w) \in [1 .. n -> [start : Nat, len : Lengths]]
  BY <1>2, <1>3, <1>4
<1>6. \A k \in Nat : \A R : \A g \in [1 .. k -> R] : g \in Seq(R) /\ Len(g) = k
  OBVIOUS
<1> QED BY <1>3, <1>4, <1>5, <1>6

\* The first module leaves the list.
LEMMA StripTail ==
    ASSUME NEW S, \A m \in S : m.start \in Nat /\ m.len \in Lengths, NEW w \in Seq(S), NEW v \in Seq(S),
           Len(w) >= 1, Len(v) = Len(w) - 1, \A i \in 1 .. Len(v) : v[i] = w[i + 1]
    PROVE  Strip(w) # << >> /\ Strip(v) = Tail(Strip(w)) /\ Head(Strip(w)) = [start |-> w[1].start, len |-> w[1].len]
<1> DEFINE R == [start : Nat, len : Lengths]
<1>1. PICK n \in Nat : n = Len(v) /\ Len(w) = n + 1
  BY Stripped
<1>2. PICK p \in Seq(R) : /\ p = Strip(w) /\ Len(p) = n + 1
                          /\ \A i \in 1 .. n + 1 : p[i] = [start |-> w[i].start, len |-> w[i].len]
  <2>1. /\ Strip(w) \in Seq(R) /\ Len(Strip(w)) = Len(w)
        /\ \A i \in 1 .. Len(w) : Strip(w)[i] = [start |-> w[i].start, len |-> w[i].len]
    BY Stripped
  <2> HIDE DEF R
  <2> QED BY <1>1, <2>1
<1>3. PICK q \in Seq(R) : /\ q = Strip(v) /\ Len(q) = n
                          /\ \A i \in 1 .. n : q[i] = [start |-> v[i].start, len |-> v[i].len]
  BY <1>1, Stripped
<1> HIDE DEF R
<1>4. p # << >>
  BY <1>1, <1>2
<1>5. /\ Head(p) = p[1] /\ Tail(p) \in Seq(R) /\ Len(Tail(p)) = n
      /\ \A i \in 1 .. n : Tail(p)[i] = p[i + 1]
  BY <1>1, <1>2, <1>4, Rest
<1>6. \A i \in 1 .. n : Tail(p)[i] = q[i]
  <2>1. ASSUME NEW i \in 1 .. n PROVE Tail(p)[i] = q[i]
    <3>1. i + 1 \in 1 .. n + 1 /\ v[i] = w[i + 1]
      BY <1>1
    <3>2. Tail(p)[i] = p[i + 1]
      BY <1>5
    <3>3. p[i + 1] = [start |-> w[i + 1].start, len |-> w[i + 1].len]
      BY <1>2, <3>1
    <3>4. q[i] = [start |-> v[i].start, len |-> v[i].len]
      BY <1>3
    <3> QED BY <3>1, <3>2, <3>3, <3>4
  <2> QED BY <2>1
<1>7. Tail(p) = q
  BY <1>3, <1>5, <1>6
<1>8. Head(p) = [start |-> w[1].start, len |-> w[1].len]
  <2>1. 1 \in 1 .. n + 1 /\ Head(p) = p[1]
    BY <1>5
  <2>2. p[1] = [start |-> w[1].start, len |-> w[1].len]
    BY <1>2, <2>1
  <2> QED BY <2>1, <2>2
<1>9. p = Strip(w) /\ q = Strip(v)
  BY <1>2, <1>3
<1> QED BY <1>4, <1>7, <1>8, <1>9

\* A list with the module put aside at its end.
LEMMA WithStart ==
    ASSUME NEW S, NEW l \in Seq(S), NEW s \in S
    PROVE  /\ Append(l, s) \in Seq(S) /\ Len(Append(l, s)) = Len(l) + 1 /\ Append(l, s)[Len(l) + 1] = s
           /\ \A i \in 1 .. Len(l) : Append(l, s)[i] = l[i]
BY Longer

\* What exec does depends on the place of a module only.
LEMMA ExecOf == ASSUME NEW m, NEW p, p.start = m.start, p.len = m.len, exec(m) PROVE exec(p)
BY Zenon DEF exec

\* What is pending, when start.bin has been put aside and when it has not.
LEMMA PendingIs ==
    ASSUME ListInv
    PROVE  /\ \A m \in Listed : m.start \in Nat /\ m.len \in Lengths
           /\ Waiting \in Seq(Listed) /\ mods = Strip(Waiting)
           /\ phase = "modules" /\ start # T!None => Waiting = Append(list, start) /\ start \in Listed
           /\ ~(phase = "modules" /\ start # T!None) => Waiting = list
<1>1. list \in Seq(Listed) /\ start \in Listed \cup {T!None} /\ mods = Pending
  BY DEF ListInv
<1>2. phase = "modules" /\ start # T!None => Waiting = Append(list, start) /\ start \in Listed
  BY <1>1 DEF Waiting
<1>3. ~(phase = "modules" /\ start # T!None) => Waiting = list
  BY DEF Waiting
<1>4. Waiting \in Seq(Listed)
  <2>1. CASE phase = "modules" /\ start # T!None
    BY <1>1, <1>2, <2>1, WithStart
  <2> QED BY <1>1, <1>3, <2>1
<1>5. mods = Strip(Waiting)
  BY <1>1 DEF Pending, Strip
<1> QED BY <1>2, <1>3, <1>4, <1>5 DEF ListInv

-----------------------------------------------------------------------------
(* The initial state                                                       *)

\* The sizes of the tables.
LEMMA TableSizes ==
    /\ MAX_TASK \in Nat /\ MAX_TASK >= 5 /\ MAX_GDT = 2 * MAX_TASK /\ MAX_STRING \in Nat
    /\ PathLen \in [T!Programs \cup {T!Kernel[i] : i \in 1 .. 3} -> 1 .. MAX_STRING]
BY BootAssumption DEF T!TableAssumption

LEMMA EmptyFilled == T!Empty => Filled(0, 0)
<1> SUFFICES ASSUME T!Empty PROVE Filled(0, 0)
  OBVIOUS
<1>1. /\ tss = [i \in 0 .. MAX_TASK - 1 |-> ""]
      /\ gdt = [i \in 0 .. MAX_GDT - 1 |-> [acceso |-> IF i \in {1, 2, 3} THEN "segment" ELSE "free", base |-> 0]]
      /\ r_tareas = [i \in 0 .. MAX_TASK - 1 |-> [task |-> 0, tss |-> -1, status |-> "none", name |-> << >>]]
  BY DEF T!Empty, T!Entries, T!Null
<1>2. MAX_TASK \in Nat /\ MAX_TASK >= 5 /\ MAX_GDT = 2 * MAX_TASK
  BY TableSizes
<1>3. /\ \A i \in 0 .. MAX_TASK - 1 : tss[i] = ""
      /\ \A i \in 0 .. MAX_TASK - 1 : r_tareas[i].tss \in -1 .. MAX_TASK - 1
      /\ \A i \in 0 .. MAX_TASK - 1 : r_tareas[i].task = 0 /\ r_tareas[i].name = << >>
  <2>1. \A i \in 0 .. MAX_TASK - 1 : tss[i] = ""
    BY <1>1
  <2>2. \A i \in 0 .. MAX_TASK - 1 : r_tareas[i].tss = -1 /\ r_tareas[i].task = 0 /\ r_tareas[i].name = << >>
    BY <1>1
  <2>3. -1 \in -1 .. MAX_TASK - 1
    BY <1>2
  <2> QED BY <2>1, <2>2, <2>3
<1>4. \A j \in 0 .. 3 : gdt[j].acceso \in {"free", "segment"}
  <2>1. \A j \in 0 .. 3 : j \in 0 .. MAX_GDT - 1
    BY <1>2
  <2> QED BY <1>1, <2>1
<1>5. \A j \in 4 .. MAX_GDT - 1 : gdt[j].acceso = "free"
  <2>1. \A j \in 4 .. MAX_GDT - 1 : j \in 0 .. MAX_GDT - 1 /\ j \notin {1, 2, 3}
    BY <1>2
  <2> QED BY <1>1, <2>1
<1>6. 0 .. 0 - 1 = {} /\ 2 * 0 + 4 = 4 /\ 0 \in 0 .. MAX_TASK - 2 /\ 0 \in {0, MAX_TASK - 1}
  BY <1>2
<1>7. /\ tss = [i \in 0 .. MAX_TASK - 1 |-> tss[i]]
      /\ r_tareas = [i \in 0 .. MAX_TASK - 1 |-> r_tareas[i]]
      /\ gdt = [j \in 0 .. MAX_GDT - 1 |-> gdt[j]]
  BY <1>1
<1> QED BY <1>2, <1>3, <1>4, <1>5, <1>6, <1>7 DEF Filled

LEMMA BootStart == BootInit => BootInv
<1> SUFFICES ASSUME BootInit PROVE BootInv
  OBVIOUS
<1>1. PICK n \in 0 .. MaxModules : \E names \in [1 .. n -> T!Programs] : \E lens \in [1 .. n -> Lengths] :
         multiboot = [i \in 1 .. n |->
            [name |-> names[i], pag |-> Frames(lens[i]), start |-> Layout(lens)[i].start, len |-> lens[i]]]
  BY DEF BootInit
<1>2. PICK names \in [1 .. n -> T!Programs], lens \in [1 .. n -> Lengths] :
         multiboot = [i \in 1 .. n |->
            [name |-> names[i], pag |-> Frames(lens[i]), start |-> Layout(lens)[i].start, len |-> lens[i]]]
  BY <1>1
<1>3. /\ phase = "memory" /\ step = "mem_off" /\ list = multiboot /\ T!Empty /\ mods = Pending
      /\ ram \in RamBytes /\ (mods # << >> => Enough(ram, mods)) /\ Blank
      /\ space = [i \in 0 .. MAX_TASK - 1 |-> 0]
      /\ start = T!None /\ ret = {1} /\ t_indice = 0 /\ des = 0 /\ gates = [int40 |-> 0, int10 |-> 0, tr |-> 0]
  BY DEF BootInit, T!Empty, T!Entries
<1>4. n \in Nat /\ DOMAIN multiboot = 1 .. n
  BY <1>2, Sizes
<1>5. ASSUME NEW i \in 1 .. n
      PROVE  /\ multiboot[i].name \in T!Programs /\ multiboot[i].pag = Frames(multiboot[i].len)
             /\ multiboot[i].start \in Nat /\ multiboot[i].len \in Lengths
             /\ multiboot[i].start = Layout(lens)[i].start /\ multiboot[i].len = lens[i]
             /\ Layout(lens) = [j \in 1 .. n |-> [start |-> Layout(lens)[j].start, len |-> lens[j]]]
  <2>1. n \in Nat \ {0}
    BY <1>4
  <2>2. PICK first \in [1 .. n -> Nat] :
          Layout(lens) = [j \in 1 .. n |-> [start |-> first[j] * PAG_LEN, len |-> lens[j]]]
    <3>1. \E first \in [1 .. n -> Nat] :
            /\ Layout(lens) = [j \in 1 .. n |-> [start |-> first[j] * PAG_LEN, len |-> lens[j]]]
            /\ first[1] = KernelFin + 1
            /\ \A j \in 1 .. n - 1 : first[j + 1] = first[j] + Frames(lens[j])
      BY <2>1, LayoutIs
    <3> QED BY <3>1
  <2>3. /\ multiboot[i].name = names[i] /\ multiboot[i].pag = Frames(lens[i])
        /\ multiboot[i].start = Layout(lens)[i].start /\ multiboot[i].len = lens[i]
    BY <1>2
  <2>4. Layout(lens)[i].start \in Nat
    <3>1. first[i] \in Nat /\ first[i] * PAG_LEN \in Nat
      BY Sizes
    <3> QED BY <2>2, <3>1
  <2>5. Layout(lens) = [j \in 1 .. n |-> [start |-> Layout(lens)[j].start, len |-> lens[j]]]
    BY <2>2
  <2> QED BY <2>3, <2>4, <2>5
<1>6. \A m \in Listed : m.name \in T!Programs /\ m.pag = Frames(m.len) /\ m.start \in Nat /\ m.len \in Lengths
  BY <1>4, <1>5 DEF Listed
<1>7. multiboot \in Seq(Listed) /\ Len(multiboot) = n
  <2>1. multiboot \in [1 .. n -> Listed]
    BY <1>2, <1>4 DEF Listed
  <2>2. \A k \in Nat : \A R : \A g \in [1 .. k -> R] : g \in Seq(R) /\ Len(g) = k
    OBVIOUS
  <2> QED BY <1>4, <2>1, <2>2
<1>8. ListInv
  BY <1>3, <1>6, <1>7 DEF ListInv
<1>9. mods = Strip(multiboot)
  BY <1>3 DEF Pending, Waiting, Strip
<1>10. Len(mods) = n /\ mods = [i \in 1 .. n |-> [start |-> multiboot[i].start, len |-> multiboot[i].len]]
  <2>1. Len(mods) = n
    BY <1>6, <1>7, <1>9, Stripped
  <2>2. mods = [i \in 1 .. n |-> [start |-> multiboot[i].start, len |-> multiboot[i].len]]
    BY <1>4, <1>9 DEF Strip
  <2> QED BY <2>1, <2>2
<1>11. Phases
  <2>1. multiboot = << >> => mods = << >>
    BY <1>7, <1>10
  <2>2. MAX_TASK \in Nat /\ MAX_TASK >= 5 /\ MAX_GDT = 2 * MAX_TASK
    BY TableSizes
  <2> QED BY <1>3, <2>1, <2>2 DEF Phases
<1>12. TablesInv
  <2>1. Filled(0, 0)
    BY <1>3, EmptyFilled
  <2>2. KernelFirst(0, 0)
    BY <1>3 DEF KernelFirst
  <2>3. tasks = << >>
    BY <1>3 DEF Blank
  <2>4. Spaces(0)
    BY <1>3, <2>3 DEF Spaces
  <2>5. 0 \in 0 .. MAX_TASK
    BY TableSizes
  <2> QED BY <2>1, <2>2, <2>4, <2>5 DEF TablesInv
<1>13. ASSUME multiboot # << >> PROVE MemInv
  <2>1. n \in 1 .. MaxModules /\ n # 0
    <3>1. n # 0
      BY <1>7, <1>13
    <3> QED BY <3>1, <1>4, Sizes
  <2>2. 1 \in 1 .. n
    BY <2>1
  <2>3. Layout(lens) = [j \in 1 .. n |-> [start |-> Layout(lens)[j].start, len |-> lens[j]]]
    BY <1>5, <2>2
  <2>4. mods = Layout(lens)
    <3>1. \A i \in 1 .. n : multiboot[i].start = Layout(lens)[i].start /\ multiboot[i].len = lens[i]
      BY <1>5
    <3> QED BY <1>10, <2>3, <3>1
  <2>5. mods # << >>
    <3>1. Len(mods) # 0
      BY <1>10, <2>1
    <3> QED BY <3>1
  <2> QED BY <1>3, <2>1, <2>4, <2>5, MemStart
<1> QED BY <1>8, <1>11, <1>12, <1>13 DEF BootInv

-----------------------------------------------------------------------------
(* The frames and the list of modules                                      *)

\* The module at the head of the list.
LEMMA AtHead ==
    ASSUME ListInv, list # << >>
    PROVE  /\ Head(list) = list[1] /\ list[1] \in Listed /\ list[1] # T!None /\ Len(list) \in Nat \ {0}
           /\ Tail(list) \in Seq(Listed) /\ Len(Tail(list)) = Len(list) - 1
           /\ \A i \in 1 .. Len(list) - 1 : Tail(list)[i] = list[i + 1]
<1>1. PICK S : S = Listed
  OBVIOUS
<1>2. list \in Seq(S) /\ \A m \in S : m.name \in T!Programs
  BY <1>1 DEF ListInv
<1>3. /\ Len(list) \in Nat \ {0} /\ Head(list) = list[1] /\ list[1] \in S
      /\ Tail(list) \in Seq(S) /\ Len(Tail(list)) = Len(list) - 1
      /\ \A i \in 1 .. Len(list) - 1 : Tail(list)[i] = list[i + 1]
  BY <1>2, Rest
<1>4. list[1] # T!None
  <2>1. T!None.name \notin T!Programs
    BY DEF T!None, T!Programs
  <2> QED BY <1>2, <1>3, <2>1
<1> QED BY <1>1, <1>3, <1>4

\* Modules were listed if one is left.
LEMMA SomeListed == ASSUME NEW m \in Listed PROVE multiboot # << >>
BY DEF Listed

\* Nothing but the list of pending modules changes, and that by losing modules or
\* taking them in another order.
Untouched == UNCHANGED <<step, ram, mem_max, mem_off, mem_map, tables, g_dir, tasks, dir_user, tab_user, shared, granted, eax>>

\* v has elements of w, at the places f.
Chosen(S, w, v, f) ==
    /\ \A m \in S : m.start \in Nat /\ m.len \in Lengths
    /\ w \in Seq(S) /\ v \in Seq(S) /\ Len(v) <= Len(w)
    /\ f \in [1 .. Len(v) -> 1 .. Len(w)] /\ \A i, j \in 1 .. Len(v) : i # j => f[i] # f[j]
    /\ \A i \in 1 .. Len(v) : v[i] = w[f[i]]

LEMMA Rearranged ==
    ASSUME MemInv, step = "exec", Untouched,
           NEW S, NEW w, NEW v, NEW f, Chosen(S, w, v, f), mods = Strip(w), mods' = Strip(v)
    PROVE  MemInv'
<1>0. /\ \A m \in S : m.start \in Nat /\ m.len \in Lengths
      /\ w \in Seq(S) /\ v \in Seq(S) /\ Len(v) <= Len(w)
      /\ f \in [1 .. Len(v) -> 1 .. Len(w)] /\ \A i, j \in 1 .. Len(v) : i # j => f[i] # f[j]
      /\ \A i \in 1 .. Len(v) : v[i] = w[f[i]]
  BY DEF Chosen
<1>1. PICK k \in Nat, n \in Nat : k = Len(v) /\ n = Len(w)
  BY <1>0, Stripped
<1>2. /\ mods' \in Seq([start : Nat, len : Lengths]) /\ Len(mods') = k
      /\ \A i \in 1 .. k : mods'[i] = [start |-> v[i].start, len |-> v[i].len]
  <2>1. /\ Strip(v) \in Seq([start : Nat, len : Lengths]) /\ Len(Strip(v)) = Len(v)
        /\ \A i \in 1 .. Len(v) : Strip(v)[i] = [start |-> v[i].start, len |-> v[i].len]
    BY <1>0, Stripped
  <2> QED BY <1>1, <2>1
<1>3. Len(mods) = n /\ \A i \in 1 .. n : mods[i] = [start |-> w[i].start, len |-> w[i].len]
  <2>1. /\ Len(Strip(w)) = Len(w)
        /\ \A i \in 1 .. Len(w) : Strip(w)[i] = [start |-> w[i].start, len |-> w[i].len]
    BY <1>0, Stripped
  <2> QED BY <1>1, <2>1
<1>4. f \in [1 .. k -> 1 .. n] /\ k <= n /\ \A i, j \in 1 .. k : i # j => f[i] # f[j]
  BY <1>0, <1>1
<1>5. \A i \in 1 .. k : mods'[i] = mods[f[i]]
  <2> SUFFICES ASSUME NEW i \in 1 .. k PROVE mods'[i] = mods[f[i]]
    OBVIOUS
  <2>1. mods'[i] = [start |-> v[i].start, len |-> v[i].len]
    BY <1>2
  <2>2. PICK j \in 1 .. n : j = f[i]
    BY <1>4
  <2>3. mods[j] = [start |-> w[j].start, len |-> w[j].len]
    BY <1>3
  <2>4. v[i] = w[j]
    BY <1>0, <1>1, <2>2
  <2> QED BY <2>1, <2>2, <2>3, <2>4
<1>6. f \in [1 .. k -> 1 .. Len(mods)] /\ k <= Len(mods)
  BY <1>3, <1>4
<1>7. step = "exec" /\ UNCHANGED <<step, ram, mem_max, mem_off, mem_map, tables, g_dir, tasks, dir_user, tab_user, shared, granted, eax>>
  BY DEF Untouched
<1>8. k \in Nat /\ k <= Len(mods) /\ mods' \in Seq([start : Nat, len : Lengths]) /\ Len(mods') = k
  BY <1>2, <1>6
<1> QED BY <1>4, <1>5, <1>6, <1>7, <1>8, FewerModules

\* v is w without its first element.
Leads(S, w, v) ==
    /\ \A m \in S : m.start \in Nat /\ m.len \in Lengths
    /\ w \in Seq(S) /\ v \in Seq(S) /\ Len(w) >= 1 /\ Len(v) = Len(w) - 1
    /\ \A i \in 1 .. Len(v) : v[i] = w[i + 1]

\* The first module leaves what is pending.
LEMMA FirstLeaves ==
    ASSUME ListInv, phase = "modules", phase' = phase, list # << >>, list' = Tail(list), start' = start,
           mods' = Pending'
    PROVE  Leads(Listed, Waiting, Waiting') /\ mods' = Strip(Waiting') /\ Waiting[1] = list[1]
<1>0. PICK S : S = Listed
  OBVIOUS
<1>1. PICK n \in Nat \ {0}, t \in Seq(S) : S = Listed /\ n = Len(list) /\ t = Tail(list)
  BY <1>0, AtHead
<1>2. list \in Seq(S) /\ Len(t) = n - 1 /\ \A i \in 1 .. n - 1 : t[i] = list[i + 1]
  BY <1>1, AtHead DEF ListInv
<1>3. mods' = Strip(Waiting')
  BY DEF Pending, Strip
<1> DEFINE Done == /\ Waiting' \in Seq(S) /\ Waiting[1] = list[1]
                    /\ Len(Waiting) >= 1 /\ Len(Waiting') = Len(Waiting) - 1
                    /\ \A i \in 1 .. Len(Waiting') : Waiting'[i] = Waiting[i + 1]
<1>4. ASSUME start # T!None PROVE Done
  <2>1. Waiting = Append(list, start) /\ Waiting' = Append(t, start) /\ start \in S
    BY <1>1, <1>4 DEF Waiting, ListInv
  <2>2. Waiting' \in Seq(S) /\ Len(Waiting') = n /\ Waiting'[n] = start /\ \A i \in 1 .. n - 1 : Waiting'[i] = t[i]
    <3>1. /\ Append(t, start) \in Seq(S) /\ Len(Append(t, start)) = Len(t) + 1 /\ Append(t, start)[Len(t) + 1] = start
          /\ \A i \in 1 .. Len(t) : Append(t, start)[i] = t[i]
      BY <2>1, WithStart
    <3>2. Len(t) + 1 = n
      BY <1>2
    <3> QED BY <1>2, <2>1, <3>1, <3>2
  <2>3. Len(Waiting) = n + 1 /\ Waiting[n + 1] = start /\ \A i \in 1 .. n : Waiting[i] = list[i]
    <3>1. /\ Len(Append(list, start)) = Len(list) + 1 /\ Append(list, start)[Len(list) + 1] = start
          /\ \A i \in 1 .. Len(list) : Append(list, start)[i] = list[i]
      BY <1>2, <2>1, WithStart
    <3> QED BY <1>1, <2>1, <3>1
  <2>4. ASSUME NEW i \in 1 .. n PROVE Waiting'[i] = Waiting[i + 1]
    <3>1. CASE i = n
      BY <2>2, <2>3, <3>1
    <3>2. CASE i # n
      <4>1. i \in 1 .. n - 1 /\ i + 1 \in 1 .. n
        BY <3>2
      <4> QED BY <1>2, <2>2, <2>3, <4>1
    <3> QED BY <3>1, <3>2
  <2>5. 1 \in 1 .. n
    OBVIOUS
  <2> QED BY <1>1, <1>3, <2>2, <2>3, <2>4, <2>5
<1>5. ASSUME start = T!None PROVE Done
  <2>1. Waiting = list /\ Waiting' = t
    BY <1>1, <1>5 DEF Waiting
  <2> QED BY <1>1, <1>2, <1>3, <2>1
<1>6. \A m \in S : m.start \in Nat /\ m.len \in Lengths
  BY <1>1, PendingIs
<1>7. Waiting \in Seq(S)
  BY <1>1, PendingIs
<1> QED BY <1>1, <1>3, <1>4, <1>5, <1>6, <1>7 DEF Leads

\* The same, for the frames, whether exec takes over the module that leaves or not.
LEMMA Passes ==
    ASSUME MemInv, step = "exec", step' = step, UNCHANGED fixed,
           NEW S, NEW w, NEW v, Leads(S, w, v), mods = Strip(w), mods' = Strip(v),
           exec(w[1]) \/ UNCHANGED <<mem_map, tasks, dir_user, tab_user, granted, eax>>
    PROVE  MemInv'
<1>1. /\ \A m \in S : m.start \in Nat /\ m.len \in Lengths
      /\ w \in Seq(S) /\ v \in Seq(S) /\ Len(w) >= 1 /\ Len(v) = Len(w) - 1
      /\ \A i \in 1 .. Len(v) : v[i] = w[i + 1]
  BY DEF Leads
<1>2. CASE exec(w[1])
  <2>1. mods # << >> /\ mods' = Tail(mods) /\ Head(mods) = [start |-> w[1].start, len |-> w[1].len]
    BY <1>1, StripTail
  <2>2. exec(Head(mods))
    <3>1. PICK p : p = Head(mods)
      OBVIOUS
    <3>2. p.start = w[1].start /\ p.len = w[1].len
      BY <2>1, <3>1
    <3> QED BY <1>2, <3>1, <3>2, ExecOf
  <2>3. Load
    BY <2>1, <2>2 DEF Load, fixed
  <2> QED BY <2>3, LoadStep
<1>3. CASE UNCHANGED <<mem_map, tasks, dir_user, tab_user, granted, eax>>
  <2>1. PICK k \in Nat, n \in Nat : k = Len(v) /\ n = Len(w) /\ k = n - 1
    BY <1>1, Stripped
  <2>2. PICK f \in [1 .. k -> 1 .. n] : \A i \in 1 .. k : f[i] = i + 1
    <3>1. [i \in 1 .. k |-> i + 1] \in [1 .. k -> 1 .. n]
      BY <2>1
    <3> QED BY <3>1
  <2>3. \A i, j \in 1 .. k : i # j => f[i] # f[j]
    BY <2>2
  <2>4. \A i \in 1 .. k : v[i] = w[f[i]]
    BY <1>1, <2>1, <2>2
  <2>5. Chosen(S, w, v, f)
    BY <1>1, <2>1, <2>2, <2>3, <2>4 DEF Chosen
  <2>6. Untouched
    BY <1>3 DEF Untouched, fixed, boot
  <2> QED BY <2>5, <2>6, Rearranged
<1> QED BY <1>2, <1>3

\* The list after a step.
LEMMA ListKept ==
    ASSUME ListInv, UNCHANGED multiboot, list' = list \/ (list # << >> /\ list' = Tail(list)),
           start' = start \/ (list # << >> /\ start' = Head(list)),
           phase' \in {"memory", "execs"} => start' = T!None, mods' = Pending'
    PROVE  ListInv'
<1>1. Listed' = Listed
  BY DEF Listed
<1>2. list' \in Seq(Listed)
  <2>1. CASE list' = list
    BY <2>1 DEF ListInv
  <2>2. CASE list # << >> /\ list' = Tail(list)
    BY <2>2, AtHead
  <2> QED BY <2>1, <2>2
<1>3. start' \in Listed \cup {T!None}
  <2>1. CASE start' = start
    BY <2>1 DEF ListInv
  <2>2. CASE list # << >> /\ start' = Head(list)
    BY <2>2, AtHead
  <2> QED BY <2>1, <2>2
<1>4. \A m \in Listed : m.name \in T!Programs /\ m.pag = Frames(m.len) /\ m.start \in Nat /\ m.len \in Lengths
  BY DEF ListInv
<1> QED BY <1>1, <1>2, <1>3, <1>4 DEF ListInv

\* start.bin is put aside, and what was there before is dropped.
LEMMA KeptAside ==
    ASSUME ListInv, MemInv, step = "exec", phase = "modules", phase' = phase, list # << >>, list' = Tail(list),
           start' = Head(list), mods' = Pending', Untouched
    PROVE  MemInv'
<1>0. PICK S : S = Listed
  OBVIOUS
<1>1. PICK n \in Nat \ {0}, t \in Seq(S), h \in S :
          /\ n = Len(list) /\ t = Tail(list) /\ h = list[1] /\ h = Head(list) /\ h # T!None
          /\ Len(t) = n - 1 /\ \A i \in 1 .. n - 1 : t[i] = list[i + 1]
  BY <1>0, AtHead
<1>2. /\ \A m \in S : m.start \in Nat /\ m.len \in Lengths
      /\ Waiting \in Seq(S) /\ mods = Strip(Waiting) /\ list \in Seq(S) /\ start \in S \cup {T!None}
  BY <1>0, PendingIs DEF ListInv
<1>3. PICK w \in Seq(S) : w = Waiting /\ Len(w) \in Nat /\ n <= Len(w) /\ \A i \in 1 .. n : w[i] = list[i]
  <2>1. CASE start # T!None
    <3>1. Waiting = Append(list, start) /\ start \in S
      BY <1>2, <2>1 DEF Waiting
    <3>2. Len(Append(list, start)) = Len(list) + 1 /\ \A i \in 1 .. Len(list) : Append(list, start)[i] = list[i]
      BY <1>2, <3>1, WithStart
    <3>3. Len(Waiting) = n + 1 /\ \A i \in 1 .. n : Waiting[i] = list[i]
      BY <1>1, <3>1, <3>2
    <3> QED BY <1>2, <3>3
  <2>2. CASE start = T!None
    BY <1>1, <1>2, <2>2 DEF Waiting
  <2> QED BY <2>1, <2>2
<1>4. PICK v \in Seq(S) : /\ v = Waiting' /\ Len(v) = n /\ v[n] = h
                          /\ \A i \in 1 .. n - 1 : v[i] = t[i]
  <2>1. Waiting' = Append(t, h)
    BY <1>1 DEF Waiting
  <2>2. /\ Append(t, h) \in Seq(S) /\ Len(Append(t, h)) = Len(t) + 1 /\ Append(t, h)[Len(t) + 1] = h
        /\ \A i \in 1 .. Len(t) : Append(t, h)[i] = t[i]
    BY WithStart
  <2>3. Len(t) + 1 = n
    BY <1>1
  <2> QED BY <1>1, <2>1, <2>2, <2>3
<1>5. PICK f \in [1 .. n -> 1 .. Len(w)] : \A i \in 1 .. n : f[i] = IF i = n THEN 1 ELSE i + 1
  <2>1. [i \in 1 .. n |-> IF i = n THEN 1 ELSE i + 1] \in [1 .. n -> 1 .. Len(w)]
    BY <1>3
  <2> QED BY <2>1
<1>6. \A i, j \in 1 .. n : i # j => f[i] # f[j]
  BY <1>5
<1>7. \A i \in 1 .. n : v[i] = w[f[i]]
  <2> SUFFICES ASSUME NEW i \in 1 .. n PROVE v[i] = w[f[i]]
    OBVIOUS
  <2>1. CASE i = n
    <3>1. f[i] = 1 /\ 1 \in 1 .. n /\ v[i] = h
      BY <1>4, <1>5, <2>1
    <3> QED BY <1>1, <1>3, <3>1
  <2>2. CASE i # n
    <3>1. f[i] = i + 1 /\ i + 1 \in 1 .. n /\ i \in 1 .. n - 1
      BY <1>5, <2>2
    <3> QED BY <1>1, <1>3, <1>4, <3>1
  <2> QED BY <2>1, <2>2
<1>8. Chosen(S, w, v, f)
  BY <1>2, <1>3, <1>4, <1>5, <1>6, <1>7 DEF Chosen
<1>9. mods' = Strip(v)
  BY <1>4 DEF Pending, Strip
<1> QED BY <1>2, <1>3, <1>8, <1>9, Rearranged

\* The loop over the modules, up to start.bin.
LEMMA LoopFrames == ASSUME BootInv, Loop PROVE ListInv' /\ (multiboot # << >> => MemInv)'
<1>1. /\ UNCHANGED <<multiboot, step>> /\ mods' = Pending' /\ ListInv
      /\ \/ (T!KeepStart \/ T!SkipPicture \/ T!NoStart) /\ UNCHANGED <<memory, space>>
         \/ T!LoadModule /\ InSpace(Head(list)) /\ UNCHANGED fixed
         \/ T!LoadStart /\ InSpace(start) /\ UNCHANGED fixed
  BY DEF Loop, BootInv
<1>2. phase = "modules" /\ step = "exec" /\ multiboot # << >>
  <2>1. phase = "modules"
    BY <1>1 DEF T!KeepStart, T!SkipPicture, T!NoStart, T!LoadModule, T!LoadStart, T!InLoop
  <2> QED BY <2>1 DEF BootInv, Phases
<1>3. MemInv
  BY <1>2 DEF BootInv
<1>4. ASSUME NEW m, InSpace(m)
      PROVE  exec(m) \/ UNCHANGED <<mem_map, tasks, dir_user, tab_user, granted, eax>>
  BY <1>4, Zenon DEF InSpace
<1>5. CASE T!KeepStart /\ UNCHANGED memory
  <2>1. phase' = phase /\ list # << >> /\ list' = Tail(list) /\ start' = Head(list)
    BY <1>5 DEF T!KeepStart, T!InLoop
  <2>2. Untouched
    BY <1>1, <1>5 DEF memory, fixed, boot, Untouched
  <2>3. MemInv'
    BY <1>1, <1>2, <1>3, <2>1, <2>2, KeptAside
  <2>4. ListInv'
    BY <1>1, <1>2, <2>1, ListKept
  <2> QED BY <2>3, <2>4
<1>6. CASE (T!SkipPicture /\ UNCHANGED memory) \/ (T!LoadModule /\ InSpace(Head(list)) /\ UNCHANGED fixed)
  <2>1. phase' = phase /\ list # << >> /\ list' = Tail(list) /\ start' = start
    BY <1>6 DEF T!SkipPicture, T!LoadModule, T!InLoop
  <2>2. Leads(Listed, Waiting, Waiting') /\ mods' = Strip(Waiting') /\ Waiting[1] = Head(list)
    BY <1>1, <1>2, <2>1, FirstLeaves, AtHead
  <2>3. exec(Waiting[1]) \/ UNCHANGED <<mem_map, tasks, dir_user, tab_user, granted, eax>>
    <3>1. CASE UNCHANGED memory
      BY <3>1 DEF memory
    <3>2. CASE InSpace(Head(list))
      <4>1. exec(Head(list)) \/ UNCHANGED <<mem_map, tasks, dir_user, tab_user, granted, eax>>
        BY <1>4, <3>2
      <4> QED BY <2>2, <4>1
    <3> QED BY <1>6, <3>1, <3>2
  <2>4. UNCHANGED fixed /\ mods = Strip(Waiting)
    BY <1>1, <1>6, PendingIs DEF memory
  <2>5. MemInv'
    <3>1. PICK S, w, v : S = Listed /\ w = Waiting /\ v = Waiting'
      OBVIOUS
    <3>2. Leads(S, w, v) /\ mods = Strip(w) /\ mods' = Strip(v)
      BY <2>2, <2>4, <3>1
    <3>3. exec(w[1]) \/ UNCHANGED <<mem_map, tasks, dir_user, tab_user, granted, eax>>
      BY <2>3, <3>1
    <3>4. step = "exec" /\ step' = step /\ UNCHANGED fixed
      BY <1>1, <1>2, <2>4
    <3> QED BY <1>3, <3>2, <3>3, <3>4, Passes
  <2>6. ListInv'
    BY <1>1, <1>2, <2>1, ListKept
  <2> QED BY <2>5, <2>6
<1>7. CASE T!NoStart /\ UNCHANGED memory
  <2>1. list = << >> /\ list' = list /\ start' = start /\ start = T!None /\ phase' = "stopped"
    BY <1>7 DEF T!NoStart
  <2>2. ListInv'
    BY <1>1, <2>1, ListKept
  <2>3. mods' = mods
    BY <1>1, <2>1 DEF ListInv, Pending, Waiting
  <2>4. UNCHANGED vars
    BY <1>1, <1>7, <2>3 DEF memory, fixed, boot, vars
  <2> QED BY <1>3, <2>2, <2>4, MemStep
<1>8. CASE T!LoadStart /\ InSpace(start) /\ UNCHANGED fixed
  <2>1. list = << >> /\ list' = list /\ start' = start /\ start # T!None /\ phase' = "run"
    BY <1>8 DEF T!LoadStart
  <2>2. ListInv'
    BY <1>1, <2>1, ListKept
  <2>3. PICK S : S = Listed
    OBVIOUS
  <2>4. start \in S /\ list \in Seq(S) /\ \A m \in S : m.start \in Nat /\ m.len \in Lengths
    BY <1>1, <2>1, <2>3, PendingIs DEF ListInv
  <2>5. PICK w \in Seq(S) : w = Waiting /\ Len(w) = 1 /\ w[1] = start
    <3>1. Waiting = Append(list, start)
      BY <1>2, <2>1 DEF Waiting
    <3>2. PICK l \in Seq(S) : l = list /\ Len(l) = 0
      BY <2>1, <2>4
    <3>3. Append(l, start) \in Seq(S) /\ Len(Append(l, start)) = 1 /\ Append(l, start)[1] = start
      BY <2>4, <3>2
    <3>4. Waiting = Append(l, start)
      BY <3>1, <3>2
    <3> HIDE DEF Waiting
    <3> QED BY <3>3, <3>4
  <2>6. PICK v \in Seq(S) : v = Waiting' /\ Len(v) = 0
    <3>1. phase' # "modules"
      BY <2>1
    <3>2. Waiting' = list'
      BY <3>1 DEF Waiting
    <3>3. << >> \in Seq(S) /\ Len(<< >>) = 0
      OBVIOUS
    <3> QED BY <2>1, <3>2, <3>3
  <2>7. Leads(S, w, v)
    BY <2>4, <2>5, <2>6 DEF Leads
  <2>8. exec(w[1]) \/ UNCHANGED <<mem_map, tasks, dir_user, tab_user, granted, eax>>
    BY <1>4, <1>8, <2>5
  <2>9. mods = Strip(w) /\ mods' = Strip(v)
    BY <1>1, <2>5, <2>6, PendingIs DEF Pending, Strip
  <2>10. MemInv'
    BY <1>1, <1>2, <1>3, <1>8, <2>7, <2>8, <2>9, Passes
  <2> QED BY <2>2, <2>10
<1>9. CASE (T!KeepStart \/ T!SkipPicture \/ T!NoStart) /\ UNCHANGED <<memory, space>>
  <2>1. UNCHANGED memory
    BY <1>9
  <2> QED BY <1>5, <1>6, <1>7, <1>9, <2>1, Zenon
<1>10. CASE T!LoadModule /\ InSpace(Head(list)) /\ UNCHANGED fixed
  BY <1>6, <1>10, Zenon
<1> QED BY <1>1, <1>8, <1>9, <1>10, Zenon

\* Memory, tables and list before the loop, and after it.
LEMMA BootFrames == ASSUME BootInv, [BootNext]_allVars PROVE ListInv' /\ (multiboot # << >> => MemInv)'
<1>1. ListInv /\ Phases /\ (multiboot # << >> => MemInv)
  BY DEF BootInv
<1>2. ASSUME UNCHANGED <<vars, multiboot, list, start>>, phase' = phase \/ phase \in {"memory", "execs", "stopped"} \/ start = T!None,
             phase' \in {"memory", "execs"} => phase \in {"memory", "execs"}, phase' = "modules" => start = T!None \/ phase = "modules"
      PROVE  ListInv' /\ (multiboot # << >> => MemInv)'
  <2>1. MemInv => MemInv'
    BY <1>2, MemStep
  <2>2. Waiting' = Waiting
    BY <1>1, <1>2 DEF Waiting, ListInv
  <2>3. mods' = Pending'
    BY <1>1, <1>2, <2>2 DEF ListInv, Pending, vars
  <2>4. ListInv'
    BY <1>1, <1>2, <2>3, ListKept DEF ListInv
  <2> QED BY <1>1, <1>2, <2>1, <2>4
<1>3. CASE NoModules
  BY <1>2, <1>3 DEF NoModules, table
<1>4. CASE Memory
  <2>1. /\ phase = "memory" /\ list # << >> /\ phase' \in {"memory", "execs"}
        /\ set_mem_off \/ ini_mm \/ ini_pag
        /\ UNCHANGED <<multiboot, list, start>>
    BY <1>4 DEF Memory, table
  <2>2. multiboot # << >>
    BY <1>1, <2>1, AtHead, SomeListed
  <2>3. MemInv'
    BY <1>1, <2>1, <2>2, OffStep, MapStep, PagStep
  <2>4. UNCHANGED mods
    BY <2>1 DEF set_mem_off, ini_mm, ini_pag
  <2>5. Waiting' = Waiting
    BY <2>1 DEF Waiting
  <2>6. mods' = Pending'
    BY <1>1, <2>4, <2>5 DEF ListInv, Pending
  <2>7. ListInv'
    BY <1>1, <2>1, <2>6, ListKept DEF ListInv
  <2> QED BY <2>3, <2>7
<1>5. CASE \E n \in 1 .. 3 : Execs(n)
  <2>1. /\ phase = "execs" /\ phase' \in {"execs", "modules"}
        /\ UNCHANGED <<vars, multiboot, list, start>>
    BY <1>5 DEF Execs, T!execs
  <2>2. start = T!None
    BY <1>1, <2>1 DEF ListInv
  <2> QED BY <1>2, <2>1, <2>2
<1>6. CASE Loop
  BY <1>6, LoopFrames
<1>7. CASE TaskControl
  <2>1. phase = "run" /\ phase' = "run" /\ UNCHANGED <<multiboot, list, start>> /\ (task_control \/ UNCHANGED vars)
    BY <1>7 DEF TaskControl, T!task_control, table
  <2>2. CASE UNCHANGED vars
    BY <1>2, <2>1, <2>2
  <2>3. CASE task_control
    <3>1. UNCHANGED mods
      BY <2>3 DEF task_control
    <3>2. Waiting' = Waiting
      BY <2>1 DEF Waiting
    <3>3. mods' = Pending'
      BY <1>1, <3>1, <3>2 DEF ListInv, Pending
    <3>4. ListInv'
      BY <1>1, <2>1, <3>3, ListKept DEF ListInv
    <3> QED BY <1>1, <2>1, <2>3, <3>4, ControlStep
  <2> QED BY <2>1, <2>2, <2>3
<1>8. CASE UNCHANGED allVars
  BY <1>2, <1>8 DEF allVars, table
<1> QED BY <1>3, <1>4, <1>5, <1>6, <1>7, <1>8 DEF BootNext


-----------------------------------------------------------------------------
(* The tables                                                              *)

LEMMA LeastIs == ASSUME NEW a \in Int, NEW b \in Int, a <= b PROVE T!Least(a .. b) = a
<1>1. a \in a .. b /\ \A j \in a .. b : a <= j
  OBVIOUS
<1>2. \A x \in a .. b : (\A j \in a .. b : x <= j) => x = a
  BY <1>1
<1> QED BY <1>1, <1>2 DEF T!Least

\* What the searches of the three tables find.
LEMMA Searches ==
    ASSUME NEW n, NEW m, Filled(n, m)
    PROVE  /\ T!set_tss = IF m = MAX_TASK - 1 THEN -1 ELSE m
           /\ T!set_desc_tss = IF n = MAX_TASK - 2 THEN 0 ELSE 2 * n + 5
           /\ n # MAX_TASK - 2 => T!FreeGdt # {} /\ T!Least(T!FreeGdt) = 2 * n + 4
           /\ n = MAX_TASK - 2 => T!FreeGdt = {}
           /\ T!tarea_libre = n
           /\ T!Started = 0 .. n - 1 /\ Cardinality(T!Started) = n
<1>1. MAX_TASK \in Nat /\ MAX_TASK >= 5 /\ MAX_GDT = 2 * MAX_TASK
  BY TableSizes
<1>2. n \in 0 .. MAX_TASK - 2 /\ m \in {n, MAX_TASK - 1} /\ (m # n => n = MAX_TASK - 2)
  BY DEF Filled
<1>3. T!FreeTss = m .. MAX_TASK - 1
  <2>1. \A i \in 0 .. m - 1 : tss[i] # ""
    BY DEF Filled
  <2>2. \A i \in m .. MAX_TASK - 1 : tss[i] = ""
    BY DEF Filled
  <2>3. T!FreeTss = {i \in 0 .. MAX_TASK - 1 : tss[i] = ""}
    BY DEF T!FreeTss, T!Entries
  <2>4. \A i : (i \in 0 .. MAX_TASK - 1 /\ ~(i \in m .. MAX_TASK - 1)) => i \in 0 .. m - 1
    BY <1>1, <1>2
  <2>5. \A i \in m .. MAX_TASK - 1 : i \in 0 .. MAX_TASK - 1
    BY <1>1, <1>2
  <2> QED BY <2>1, <2>2, <2>3, <2>4, <2>5
<1>4. T!set_tss = IF m = MAX_TASK - 1 THEN -1 ELSE m
  <2>1. m \in Int /\ m <= MAX_TASK - 1
    BY <1>1, <1>2
  <2>2. T!Least(m .. MAX_TASK - 1) = m
    BY <1>1, <2>1, LeastIs
  <2>3. m .. MAX_TASK - 1 # {}
    BY <1>1, <2>1
  <2>4. m .. MAX_TASK - 1 = {MAX_TASK - 1} <=> m = MAX_TASK - 1
    <3>1. m \in m .. MAX_TASK - 1
      BY <1>1, <2>1
    <3>2. m = MAX_TASK - 1 => m .. MAX_TASK - 1 = {MAX_TASK - 1}
      BY <1>1
    <3> QED BY <3>1, <3>2
  <2> QED BY <1>3, <2>2, <2>3, <2>4 DEF T!set_tss, T!Null
<1>5. T!FreeGdt = 2 * n + 4 .. MAX_GDT - 1
  <2>1. \A j \in 2 * n + 4 .. MAX_GDT - 1 : gdt[j].acceso = "free" /\ j \in 4 .. MAX_GDT - 1
    <3>1. \A j \in 2 * n + 4 .. MAX_GDT - 1 : j \in 4 .. MAX_GDT - 1
      BY <1>1, <1>2
    <3> QED BY <3>1 DEF Filled
  <2>2. ASSUME NEW j \in 4 .. MAX_GDT - 1, j \notin 2 * n + 4 .. MAX_GDT - 1 PROVE gdt[j].acceso # "free"
    <3>1. PICK i \in 0 .. n - 1 : j = 2 * i + 4 \/ j = 2 * i + 5
      <4>1. j < 2 * n + 4 /\ j >= 4 /\ j \in Int
        BY <1>1, <1>2, <2>2
      <4>2. (j - 4) \div 2 \in 0 .. n - 1 /\ (j = 2 * ((j - 4) \div 2) + 4 \/ j = 2 * ((j - 4) \div 2) + 5)
        BY <1>2, <4>1
      <4> QED BY <4>2
    <3>2. gdt[2 * i + 4].acceso = "tss" /\ gdt[2 * i + 5].acceso = "gate"
      <4>1. gdt[2 * i + 4] = [acceso |-> "tss", base |-> i] /\ gdt[2 * i + 5] = [acceso |-> "gate", base |-> 2 * i + 4]
        BY <3>1 DEF Filled
      <4> QED BY <4>1
    <3> QED BY <3>1, <3>2
  <2> QED BY <2>1, <2>2 DEF T!FreeGdt
<1>6. /\ n # MAX_TASK - 2 => T!FreeGdt # {} /\ T!Least(T!FreeGdt) = 2 * n + 4
      /\ n = MAX_TASK - 2 => T!FreeGdt = {}
  <2>1. CASE n # MAX_TASK - 2
    <3>1. 2 * n + 4 \in Int /\ MAX_GDT - 1 \in Int /\ 2 * n + 4 <= MAX_GDT - 1
      BY <1>1, <1>2, <2>1
    <3>2. T!Least(2 * n + 4 .. MAX_GDT - 1) = 2 * n + 4
      BY <3>1, LeastIs
    <3>3. 2 * n + 4 \in 2 * n + 4 .. MAX_GDT - 1
      BY <3>1
    <3> QED BY <1>5, <2>1, <3>2, <3>3
  <2>2. CASE n = MAX_TASK - 2
    <3>1. 2 * n + 4 .. MAX_GDT - 1 = {}
      BY <1>1, <2>2
    <3> QED BY <1>5, <2>2, <3>1
  <2> QED BY <2>1, <2>2
<1>7. T!set_desc_tss = IF n = MAX_TASK - 2 THEN 0 ELSE 2 * n + 5
  <2>1. 2 * n + 4 + 1 = 2 * n + 5
    BY <1>1, <1>2
  <2> QED BY <1>6, <2>1 DEF T!set_desc_tss
<1>8. \A i \in 0 .. MAX_TASK - 1 : r_tareas[i].task = 0 <=> i \in n .. MAX_TASK - 1
  <2>1. \A i \in 0 .. n - 1 : r_tareas[i].task = 2 * i + 5
    BY DEF Filled
  <2>2. \A i \in n .. MAX_TASK - 1 : r_tareas[i].task = 0
    BY DEF Filled
  <2>3. \A i \in 0 .. MAX_TASK - 1 : i \in n .. MAX_TASK - 1 \/ i \in 0 .. n - 1
    BY <1>1, <1>2
  <2>4. \A i \in 0 .. n - 1 : 2 * i + 5 # 0 /\ i \notin n .. MAX_TASK - 1
    BY <1>1, <1>2
  <2> QED BY <2>1, <2>2, <2>3, <2>4
<1>9. T!tarea_libre = n
  <2>1. {i \in T!Entries : r_tareas[i].task = 0} = n .. MAX_TASK - 1
    <3>1. \A i \in n .. MAX_TASK - 1 : i \in 0 .. MAX_TASK - 1
      BY <1>1, <1>2
    <3> QED BY <1>8, <3>1 DEF T!Entries
  <2>2. n \in Int /\ n <= MAX_TASK - 1
    BY <1>1, <1>2
  <2>3. n .. MAX_TASK - 1 # {} /\ T!Least(n .. MAX_TASK - 1) = n
    BY <1>1, <2>2, LeastIs
  <2> QED BY <2>1, <2>3 DEF T!tarea_libre
<1>10. T!Started = 0 .. n - 1
  <2>1. \A i \in 0 .. MAX_TASK - 1 : i \notin n .. MAX_TASK - 1 <=> i \in 0 .. n - 1
    BY <1>1, <1>2
  <2>2. \A i \in 0 .. n - 1 : i \in 0 .. MAX_TASK - 1
    BY <1>1, <1>2
  <2> QED BY <1>8, <2>1, <2>2 DEF T!Started, T!Entries
<1>11. Cardinality(0 .. n - 1) = n
  <2>1. 0 \in Int /\ n - 1 \in Int
    BY <1>1, <1>2
  <2>2. Cardinality(0 .. n - 1) = IF 0 > n - 1 THEN 0 ELSE n - 1 - 0 + 1
    BY <2>1, FS_Interval
  <2> QED BY <1>1, <1>2, <2>2
<1> QED BY <1>4, <1>6, <1>7, <1>9, <1>10, <1>11

\* strcpy of a path into an entry without a name.
LEMMA Named == ASSUME NEW name \in Names PROVE T!strcpy(T!Path(name), << >>) = T!Path(name)
<1>1. PathLen[name] \in 1 .. MAX_STRING /\ MAX_STRING \in Nat
  <2>1. name \in T!Programs \cup {T!Kernel[i] : i \in 1 .. 3}
    BY DEF Names, T!Kernel
  <2> QED BY <2>1, TableSizes
<1>2. PICK k \in Nat : k = PathLen[name] /\ k # 0 /\ k <= MAX_STRING
  BY <1>1
<1>3. T!Path(name) = [i \in 1 .. k |-> <<name, i>>]
  BY <1>2 DEF T!Path
<1>4. PICK p : p = T!Path(name) /\ Len(p) = k /\ DOMAIN p = 1 .. k /\ p = [i \in 1 .. k |-> p[i]]
  <2>1. Len([i \in 1 .. k |-> <<name, i>>]) = k
    OBVIOUS
  <2> QED BY <1>3, <2>1
<1>5. DOMAIN << >> = {}
  OBVIOUS
<1>6. T!strcpy(p, << >>) = [i \in 1 .. k |-> p[i]]
  <2>1. T!strcpy(p, << >>) = [i \in DOMAIN p \cup DOMAIN << >> |-> IF i \in DOMAIN p THEN p[i] ELSE << >>[i]]
    <3>1. T!strlen(p) # 0 /\ ~(T!strlen(p) > MAX_STRING)
      BY <1>1, <1>2, <1>4 DEF T!strlen
    <3> QED BY <3>1, Zenon DEF T!strcpy
  <2> QED BY <1>4, <1>5, <2>1
<1> QED BY <1>4, <1>6

\* A task created when the gdt has room takes the next entry of every table.
LEMMA CreatedFills ==
    ASSUME NEW n, NEW m, Filled(n, m), n # MAX_TASK - 2, NEW name \in Names, NEW status, T!Created(n, name, status)
    PROVE  Filled(n + 1, n + 1)' /\ tss'[n] = name /\ \A i \in 0 .. n - 1 : tss'[i] = tss[i]
<1>1. MAX_TASK \in Nat /\ MAX_TASK >= 5 /\ MAX_GDT = 2 * MAX_TASK
  BY TableSizes
<1>2. n \in 0 .. MAX_TASK - 3 /\ m = n /\ n \in Int
  <2>1. n \in 0 .. MAX_TASK - 2 /\ m \in {n, MAX_TASK - 1} /\ (m # n => n = MAX_TASK - 2)
    BY DEF Filled
  <2> QED BY <1>1, <2>1
<1>3. /\ T!set_tss = n /\ T!set_desc_tss = 2 * n + 5
      /\ T!FreeGdt # {} /\ T!Least(T!FreeGdt) = 2 * n + 4
  <2>1. m # MAX_TASK - 1
    BY <1>1, <1>2
  <2> QED BY <1>2, <2>1, Searches
<1>4. n # -1
  BY <1>2
<1>5. r_tareas[n].name = << >>
  <2>1. n \in n .. MAX_TASK - 1
    BY <1>1, <1>2
  <2> QED BY <1>2, <2>1 DEF Filled
<1>6. tss' = [tss EXCEPT ![n] = name]
  BY <1>3, <1>4 DEF T!Created, T!Null
<1>7. PICK row : row.task = 2 * n + 5 /\ row.tss = n /\ row.name = T!Path(name) /\ r_tareas' = [r_tareas EXCEPT ![n] = row]
  <2>1. PICK old : old = r_tareas[n].name
    OBVIOUS
  <2>2. r_tareas' = [r_tareas EXCEPT ![n] = [task |-> T!set_desc_tss, tss |-> T!set_tss, status |-> status, name |-> T!strcpy(T!Path(name), r_tareas[n].name)]]
    BY DEF T!Created
  <2>3. T!strcpy(T!Path(name), r_tareas[n].name) = T!Path(name)
    BY <1>5, Named
  <2>4. r_tareas' = [r_tareas EXCEPT ![n] = [task |-> 2 * n + 5, tss |-> n, status |-> status, name |-> T!Path(name)]]
    BY <1>3, <2>2, <2>3
  <2> QED BY <2>4
<1>8. gdt' = [gdt EXCEPT ![2 * n + 4] = [acceso |-> "tss", base |-> n],
                         ![2 * n + 5] = [acceso |-> "gate", base |-> 2 * n + 4]]
  <2>1. PICK g : g = 2 * n + 4 /\ g + 1 = 2 * n + 5
    BY <1>2
  <2>2. gdt' = T!WithDesc(n)
    BY <1>3 DEF T!Created
  <2>3. T!WithDesc(n) = [gdt EXCEPT ![g] = [acceso |-> "tss", base |-> n],
                                    ![g + 1] = [acceso |-> "gate", base |-> g]]
    BY <1>3, <2>1 DEF T!WithDesc
  <2> QED BY <2>1, <2>2, <2>3
<1>9. /\ tss = [i \in 0 .. MAX_TASK - 1 |-> tss[i]]
      /\ r_tareas = [i \in 0 .. MAX_TASK - 1 |-> r_tareas[i]]
      /\ gdt = [j \in 0 .. MAX_GDT - 1 |-> gdt[j]]
  BY DEF Filled
<1>10. n \in 0 .. MAX_TASK - 1 /\ 2 * n + 4 \in 0 .. MAX_GDT - 1 /\ 2 * n + 5 \in 0 .. MAX_GDT - 1 /\ 2 * n + 4 # 2 * n + 5
  BY <1>1, <1>2
<1>11. tss' = [i \in 0 .. MAX_TASK - 1 |-> tss'[i]] /\ tss'[n] = name /\ \A i \in 0 .. MAX_TASK - 1 : i # n => tss'[i] = tss[i]
  BY <1>6, <1>9, <1>10
<1>12. r_tareas' = [i \in 0 .. MAX_TASK - 1 |-> r_tareas'[i]] /\ r_tareas'[n] = row /\ \A i \in 0 .. MAX_TASK - 1 : i # n => r_tareas'[i] = r_tareas[i]
  BY <1>7, <1>9, <1>10
<1>13. /\ gdt' = [j \in 0 .. MAX_GDT - 1 |-> gdt'[j]]
       /\ gdt'[2 * n + 4] = [acceso |-> "tss", base |-> n] /\ gdt'[2 * n + 5] = [acceso |-> "gate", base |-> 2 * n + 4]
       /\ \A j \in 0 .. MAX_GDT - 1 : (j # 2 * n + 4 /\ j # 2 * n + 5) => gdt'[j] = gdt[j]
  <2>1. PICK a, b, p, q : a = 2 * n + 4 /\ b = 2 * n + 5 /\ p = [acceso |-> "tss", base |-> n] /\ q = [acceso |-> "gate", base |-> a]
    OBVIOUS
  <2>2. gdt' = [gdt EXCEPT ![a] = p, ![b] = q]
    BY <1>8, <2>1
  <2>3. a \in 0 .. MAX_GDT - 1 /\ b \in 0 .. MAX_GDT - 1 /\ a # b
    BY <1>10, <2>1
  <2>4. /\ gdt' = [j \in 0 .. MAX_GDT - 1 |-> gdt'[j]] /\ gdt'[a] = p /\ gdt'[b] = q
        /\ \A j \in 0 .. MAX_GDT - 1 : (j # a /\ j # b) => gdt'[j] = gdt[j]
    BY <1>9, <2>2, <2>3
  <2> QED BY <2>1, <2>4
<1>14. \A i \in 0 .. n - 1 : i \in 0 .. MAX_TASK - 1 /\ i # n /\ tss'[i] = tss[i] /\ r_tareas'[i] = r_tareas[i]
  <2>1. \A i \in 0 .. n - 1 : i \in 0 .. MAX_TASK - 1 /\ i # n
    BY <1>1, <1>2
  <2> QED BY <1>11, <1>12, <2>1
<1>15. \A i \in n + 1 .. MAX_TASK - 1 : i \in n .. MAX_TASK - 1 /\ tss'[i] = tss[i] /\ r_tareas'[i] = r_tareas[i]
  <2>1. \A i \in n + 1 .. MAX_TASK - 1 : i \in 0 .. MAX_TASK - 1 /\ i \in n .. MAX_TASK - 1 /\ i # n
    BY <1>1, <1>2
  <2> QED BY <1>11, <1>12, <2>1
<1>16. \A i \in 0 .. n : i \in 0 .. n - 1 \/ i = n
  BY <1>2
<1>17. name # ""
  BY DEF Names, T!Programs
<1>18. (\A i \in 0 .. n : tss'[i] # "") /\ \A i \in n + 1 .. MAX_TASK - 1 : tss'[i] = ""
  <2>1. (\A i \in 0 .. n - 1 : tss[i] # "") /\ \A i \in n .. MAX_TASK - 1 : tss[i] = ""
    BY <1>2 DEF Filled
  <2> QED BY <1>11, <1>14, <1>15, <1>16, <1>17, <2>1
<1>19. \A i \in 0 .. MAX_TASK - 1 : r_tareas'[i].tss \in -1 .. MAX_TASK - 1
  <2>1. \A i \in 0 .. MAX_TASK - 1 : r_tareas[i].tss \in -1 .. MAX_TASK - 1
    BY DEF Filled
  <2>2. row.tss \in -1 .. MAX_TASK - 1
    BY <1>1, <1>2, <1>7
  <2> QED BY <1>12, <2>1, <2>2
<1>20. ASSUME NEW i \in 0 .. n
       PROVE  /\ tss'[i] \in Names
              /\ r_tareas'[i].task = 2 * i + 5 /\ r_tareas'[i].tss = i /\ r_tareas'[i].name = T!Path(tss'[i])
              /\ gdt'[2 * i + 4] = [acceso |-> "tss", base |-> i]
              /\ gdt'[2 * i + 5] = [acceso |-> "gate", base |-> 2 * i + 4]
  <2>1. CASE i = n
    BY <1>7, <1>11, <1>12, <1>13, <2>1
  <2>2. CASE i \in 0 .. n - 1
    <3>1. /\ tss[i] \in Names
          /\ r_tareas[i].task = 2 * i + 5 /\ r_tareas[i].tss = i /\ r_tareas[i].name = T!Path(tss[i])
          /\ gdt[2 * i + 4] = [acceso |-> "tss", base |-> i]
          /\ gdt[2 * i + 5] = [acceso |-> "gate", base |-> 2 * i + 4]
      BY <2>2 DEF Filled
    <3>2. /\ 2 * i + 4 \in 0 .. MAX_GDT - 1 /\ 2 * i + 4 # 2 * n + 4 /\ 2 * i + 4 # 2 * n + 5
          /\ 2 * i + 5 \in 0 .. MAX_GDT - 1 /\ 2 * i + 5 # 2 * n + 4 /\ 2 * i + 5 # 2 * n + 5
      BY <1>1, <1>2, <2>2
    <3>3. gdt'[2 * i + 4] = gdt[2 * i + 4] /\ gdt'[2 * i + 5] = gdt[2 * i + 5]
      BY <1>13, <3>2
    <3>4. tss'[i] = tss[i] /\ r_tareas'[i] = r_tareas[i]
      BY <1>14, <2>2
    <3> QED BY <3>1, <3>3, <3>4
  <2> QED BY <1>16, <2>1, <2>2
<1>21. \A i \in n + 1 .. MAX_TASK - 1 : r_tareas'[i].task = 0 /\ r_tareas'[i].name = << >>
  <2>1. \A i \in n .. MAX_TASK - 1 : r_tareas[i].task = 0 /\ r_tareas[i].name = << >>
    BY <1>2 DEF Filled
  <2> QED BY <1>15, <2>1
<1>22. \A j \in 0 .. 3 : gdt'[j].acceso \in {"free", "segment"}
  <2>1. \A j \in 0 .. 3 : j \in 0 .. MAX_GDT - 1 /\ j # 2 * n + 4 /\ j # 2 * n + 5
    BY <1>1, <1>2
  <2>2. \A j \in 0 .. 3 : gdt[j].acceso \in {"free", "segment"}
    BY DEF Filled
  <2> QED BY <1>13, <2>1, <2>2
<1>23. \A j \in 2 * (n + 1) + 4 .. MAX_GDT - 1 : gdt'[j].acceso = "free"
  <2>1. \A j \in 2 * (n + 1) + 4 .. MAX_GDT - 1 :
           j \in 0 .. MAX_GDT - 1 /\ j # 2 * n + 4 /\ j # 2 * n + 5 /\ j \in 2 * n + 4 .. MAX_GDT - 1
    BY <1>1, <1>2
  <2>2. \A j \in 2 * n + 4 .. MAX_GDT - 1 : gdt[j].acceso = "free"
    BY DEF Filled
  <2> QED BY <1>13, <2>1, <2>2
<1>24. 0 .. (n + 1) - 1 = 0 .. n /\ n + 1 \in 0 .. MAX_TASK - 2 /\ n + 1 \in {n + 1, MAX_TASK - 1}
  BY <1>1, <1>2
<1>25. Filled(n + 1, n + 1)'
  BY <1>11, <1>12, <1>13, <1>18, <1>19, <1>20, <1>21, <1>22, <1>23, <1>24 DEF Filled
<1> QED BY <1>11, <1>14, <1>25

\* Afterwards it only takes a TSS, and no more when they are all taken.
LEMMA CreatedFull ==
    ASSUME NEW n, NEW m, Filled(n, m), n = MAX_TASK - 2, NEW name \in Names, NEW status, T!Created(n, name, status)
    PROVE  Filled(n, MAX_TASK - 1)' /\ \A i \in 0 .. n - 1 : tss'[i] = tss[i]
<1>1. MAX_TASK \in Nat /\ MAX_TASK >= 5 /\ MAX_GDT = 2 * MAX_TASK
  BY TableSizes
<1>2. n \in Int /\ n \in 0 .. MAX_TASK - 1 /\ (m = n \/ m = MAX_TASK - 1)
  <2>1. m \in {n, MAX_TASK - 1}
    BY DEF Filled
  <2> QED BY <1>1, <2>1
<1>3. T!set_tss = (IF m = MAX_TASK - 1 THEN -1 ELSE m) /\ T!set_desc_tss = 0 /\ T!FreeGdt = {}
  BY Searches
<1>4. gdt' = gdt
  BY <1>3 DEF T!Created, T!WithDesc
<1>5. tss = [i \in 0 .. MAX_TASK - 1 |-> tss[i]] /\ r_tareas = [i \in 0 .. MAX_TASK - 1 |-> r_tareas[i]]
  BY DEF Filled
<1>6. /\ tss' = [i \in 0 .. MAX_TASK - 1 |-> tss'[i]] /\ tss'[n] # ""
      /\ \A i \in 0 .. MAX_TASK - 1 : i # n => tss'[i] = tss[i]
  <2>1. CASE m = MAX_TASK - 1
    <3>1. tss' = tss
      BY <1>3, <2>1 DEF T!Created, T!Null
    <3>2. tss[n] # ""
      <4>1. n \in 0 .. m - 1
        BY <1>1, <1>2, <2>1
      <4> QED BY <4>1 DEF Filled
    <3> QED BY <1>5, <3>1, <3>2
  <2>2. CASE m # MAX_TASK - 1
    <3>1. T!set_tss = n /\ n # -1
      BY <1>2, <1>3, <2>2
    <3>2. tss' = [tss EXCEPT ![n] = name]
      BY <3>1 DEF T!Created, T!Null
    <3>3. name # ""
      BY DEF Names, T!Programs
    <3> QED BY <1>2, <1>5, <3>2, <3>3
  <2> QED BY <2>1, <2>2
<1>7. PICK row : row.task = 0 /\ row.tss \in -1 .. MAX_TASK - 1 /\ r_tareas' = [r_tareas EXCEPT ![n] = row]
  <2>1. PICK s, new : s = T!set_tss /\ new = T!strcpy(T!Path(name), r_tareas[n].name)
    OBVIOUS
  <2>2. r_tareas' = [r_tareas EXCEPT ![n] = [task |-> 0, tss |-> s, status |-> status, name |-> new]]
    BY <1>3, <2>1 DEF T!Created
  <2>3. s \in -1 .. MAX_TASK - 1
    <3>1. s = -1 \/ s = m
      BY <1>3, <2>1
    <3>2. -1 \in -1 .. MAX_TASK - 1 /\ m \in -1 .. MAX_TASK - 1
      BY <1>1, <1>2
    <3> QED BY <3>1, <3>2
  <2> QED BY <2>2, <2>3
<1>8. r_tareas' = [i \in 0 .. MAX_TASK - 1 |-> r_tareas'[i]] /\ r_tareas'[n] = row /\ \A i \in 0 .. MAX_TASK - 1 : i # n => r_tareas'[i] = r_tareas[i]
  BY <1>2, <1>5, <1>7
<1>9. \A i \in 0 .. n - 1 : i \in 0 .. MAX_TASK - 1 /\ tss'[i] = tss[i] /\ r_tareas'[i] = r_tareas[i]
  <2>1. \A i \in 0 .. n - 1 : i \in 0 .. MAX_TASK - 1 /\ i # n
    BY <1>1, <1>2
  <2> QED BY <1>6, <1>8, <2>1
<1>10. (\A i \in 0 .. (MAX_TASK - 1) - 1 : tss'[i] # "") /\ \A i \in MAX_TASK - 1 .. MAX_TASK - 1 : tss'[i] = ""
  <2>1. \A i \in 0 .. (MAX_TASK - 1) - 1 : i = n \/ i \in 0 .. n - 1
    BY <1>1
  <2>2. \A i \in 0 .. n - 1 : tss[i] # ""
    <3>1. \A i \in 0 .. n - 1 : i \in 0 .. m - 1
      BY <1>1, <1>2
    <3> QED BY <3>1 DEF Filled
  <2>3. \A i \in MAX_TASK - 1 .. MAX_TASK - 1 : i \in 0 .. MAX_TASK - 1 /\ i # n /\ i \in m .. MAX_TASK - 1
    BY <1>1, <1>2
  <2>4. \A i \in m .. MAX_TASK - 1 : tss[i] = ""
    BY DEF Filled
  <2> QED BY <1>6, <1>9, <2>1, <2>2, <2>3, <2>4
<1>11. \A i \in 0 .. MAX_TASK - 1 : r_tareas'[i].tss \in -1 .. MAX_TASK - 1
  <2>1. \A i \in 0 .. MAX_TASK - 1 : r_tareas[i].tss \in -1 .. MAX_TASK - 1
    BY DEF Filled
  <2> QED BY <1>7, <1>8, <2>1
<1>12. \A i \in n .. MAX_TASK - 1 : r_tareas'[i].task = 0
  <2>1. \A i \in n .. MAX_TASK - 1 : r_tareas[i].task = 0
    BY DEF Filled
  <2>2. \A i \in n .. MAX_TASK - 1 : i \in 0 .. MAX_TASK - 1
    BY <1>1, <1>2
  <2> QED BY <1>7, <1>8, <2>1, <2>2
<1>13. n \in 0 .. MAX_TASK - 2 /\ MAX_TASK - 1 \in {n, MAX_TASK - 1} /\ MAX_TASK - 1 # n
  BY <1>1
<1>14. gdt' = [j \in 0 .. MAX_GDT - 1 |-> gdt'[j]]
  BY <1>4 DEF Filled
<1>15. ASSUME NEW i \in 0 .. n - 1
       PROVE  /\ tss'[i] \in Names
              /\ r_tareas'[i].task = 2 * i + 5 /\ r_tareas'[i].tss = i /\ r_tareas'[i].name = T!Path(tss'[i])
              /\ gdt'[2 * i + 4] = [acceso |-> "tss", base |-> i]
              /\ gdt'[2 * i + 5] = [acceso |-> "gate", base |-> 2 * i + 4]
  <2>1. /\ tss[i] \in Names
        /\ r_tareas[i].task = 2 * i + 5 /\ r_tareas[i].tss = i /\ r_tareas[i].name = T!Path(tss[i])
        /\ gdt[2 * i + 4] = [acceso |-> "tss", base |-> i]
        /\ gdt[2 * i + 5] = [acceso |-> "gate", base |-> 2 * i + 4]
    BY DEF Filled
  <2>2. tss'[i] = tss[i] /\ r_tareas'[i] = r_tareas[i]
    BY <1>9
  <2> QED BY <1>4, <2>1, <2>2
<1>16. /\ \A j \in 0 .. 3 : gdt'[j].acceso \in {"free", "segment"}
       /\ \A j \in 2 * n + 4 .. MAX_GDT - 1 : gdt'[j].acceso = "free"
  BY <1>4 DEF Filled
<1>17. Filled(n, MAX_TASK - 1)'
  BY <1>6, <1>8, <1>10, <1>11, <1>12, <1>13, <1>14, <1>15, <1>16 DEF Filled
<1> QED BY <1>9, <1>17

\* Steps that create no task.
LEMMA TablesKept ==
    ASSUME TablesInv, UNCHANGED <<tss, gdt, r_tareas, gates, space, tasks, multiboot>>,
           phase' \in {"memory", "execs"} => phase \in {"memory", "execs"},
           phase' = "memory" => phase = "memory", phase' \in {"modules", "run"} => phase \in {"modules", "run"}
    PROVE  TablesInv'
<1>1. PICK n \in 0 .. MAX_TASK, m \in 0 .. MAX_TASK : Filled(n, m) /\ KernelFirst(n, m) /\ Spaces(n)
  BY DEF TablesInv
<1>2. Filled(n, m)'
  <2>1. tss' = tss /\ gdt' = gdt /\ r_tareas' = r_tareas
    OBVIOUS
  <2>2. /\ tss' = [i \in 0 .. MAX_TASK - 1 |-> tss'[i]]
        /\ r_tareas' = [i \in 0 .. MAX_TASK - 1 |-> r_tareas'[i]]
        /\ gdt' = [j \in 0 .. MAX_GDT - 1 |-> gdt'[j]]
    <3>1. /\ tss = [i \in 0 .. MAX_TASK - 1 |-> tss[i]]
          /\ r_tareas = [i \in 0 .. MAX_TASK - 1 |-> r_tareas[i]]
          /\ gdt = [j \in 0 .. MAX_GDT - 1 |-> gdt[j]]
      BY <1>1 DEF Filled
    <3> QED BY <2>1, <3>1
  <2>3. /\ n \in 0 .. MAX_TASK - 2 /\ m \in {n, MAX_TASK - 1} /\ (m # n => n = MAX_TASK - 2)
        /\ \A i \in 0 .. m - 1 : tss'[i] # ""
        /\ \A i \in m .. MAX_TASK - 1 : tss'[i] = ""
        /\ \A i \in 0 .. MAX_TASK - 1 : r_tareas'[i].tss \in -1 .. MAX_TASK - 1
    <3>1. /\ n \in 0 .. MAX_TASK - 2 /\ m \in {n, MAX_TASK - 1} /\ (m # n => n = MAX_TASK - 2)
          /\ \A i \in 0 .. m - 1 : tss[i] # ""
          /\ \A i \in m .. MAX_TASK - 1 : tss[i] = ""
          /\ \A i \in 0 .. MAX_TASK - 1 : r_tareas[i].tss \in -1 .. MAX_TASK - 1
      BY <1>1 DEF Filled
    <3> QED BY <2>1, <3>1, Zenon
  <2>4. \A i \in 0 .. n - 1 :
          /\ tss'[i] \in Names
          /\ r_tareas'[i].task = 2 * i + 5 /\ r_tareas'[i].tss = i /\ r_tareas'[i].name = T!Path(tss'[i])
          /\ gdt'[2 * i + 4] = [acceso |-> "tss", base |-> i]
          /\ gdt'[2 * i + 5] = [acceso |-> "gate", base |-> 2 * i + 4]
    <3>1. \A i \in 0 .. n - 1 :
            /\ tss[i] \in Names
            /\ r_tareas[i].task = 2 * i + 5 /\ r_tareas[i].tss = i /\ r_tareas[i].name = T!Path(tss[i])
            /\ gdt[2 * i + 4] = [acceso |-> "tss", base |-> i]
            /\ gdt[2 * i + 5] = [acceso |-> "gate", base |-> 2 * i + 4]
      BY <1>1 DEF Filled
    <3> QED BY <2>1, <3>1, Zenon
  <2>5. /\ \A i \in n .. MAX_TASK - 1 : r_tareas'[i].task = 0 /\ (m = n => r_tareas'[i].name = << >>)
        /\ \A j \in 0 .. 3 : gdt'[j].acceso \in {"free", "segment"}
        /\ \A j \in 2 * n + 4 .. MAX_GDT - 1 : gdt'[j].acceso = "free"
    <3>1. /\ \A i \in n .. MAX_TASK - 1 : r_tareas[i].task = 0 /\ (m = n => r_tareas[i].name = << >>)
          /\ \A j \in 0 .. 3 : gdt[j].acceso \in {"free", "segment"}
          /\ \A j \in 2 * n + 4 .. MAX_GDT - 1 : gdt[j].acceso = "free"
      BY <1>1 DEF Filled
    <3> QED BY <2>1, <3>1, Zenon
  <2> QED BY <2>2, <2>3, <2>4, <2>5 DEF Filled
<1>3. KernelFirst(n, m)'
  BY <1>1 DEF KernelFirst
<1>4. Spaces(n)'
  <2>1. tss' = tss /\ space' = space /\ tasks' = tasks /\ multiboot' = multiboot
    OBVIOUS
  <2> QED BY <1>1, <2>1 DEF Spaces
<1> QED BY <1>2, <1>3, <1>4 DEF TablesInv

\* The instance has its own copy of what it extends.
LEMMA Counted == \A S : T!Cardinality(S) = Cardinality(S)
BY Zenon DEF T!Cardinality, Cardinality

\* The kernel's tasks are created in the order of the code.
LEMMA ExecsFill ==
    ASSUME TablesInv, Phases, NEW k \in 1 .. 3, Execs(k)
    PROVE  TablesInv'
<1>1. PICK n \in 0 .. MAX_TASK, m \in 0 .. MAX_TASK : Filled(n, m) /\ KernelFirst(n, m) /\ Spaces(n)
  BY DEF TablesInv
<1>2. /\ phase = "execs" /\ k = Cardinality(T!Started) + 1
      /\ T!Created(T!tarea_libre, T!Kernel[k], "SLEEPING")
      /\ gates' = CASE k = 1 -> [gates EXCEPT !.tr = T!set_desc_tss - 1]
                    [] k = 2 -> [gates EXCEPT !.int40 = T!set_desc_tss - 1]
                    [] k = 3 -> [gates EXCEPT !.int10 = T!set_desc_tss - 1]
      /\ phase' = IF k = Len(T!Kernel) THEN "modules" ELSE "execs"
      /\ space' = (IF T!set_tss = T!Null THEN space ELSE [space EXCEPT ![T!set_tss] = 0])
      /\ UNCHANGED <<vars, multiboot>>
  <2>1. T!execs(k)
    BY DEF Execs
  <2>2. phase = "execs" /\ k = Cardinality(T!Started) + 1
    BY <2>1, Counted DEF T!execs
  <2>6. T!Created(T!tarea_libre, T!Kernel[k], "SLEEPING")
    BY <2>1 DEF T!execs
  <2>3. gates' = CASE k = 1 -> [gates EXCEPT !.tr = T!set_desc_tss - 1]
                   [] k = 2 -> [gates EXCEPT !.int40 = T!set_desc_tss - 1]
                   [] k = 3 -> [gates EXCEPT !.int10 = T!set_desc_tss - 1]
    BY <2>1, SMTT(30) DEF T!execs
  <2>4. phase' = IF k = Len(T!Kernel) THEN "modules" ELSE "execs"
    BY <2>1 DEF T!execs
  <2>5. /\ space' = (IF T!set_tss = T!Null THEN space ELSE [space EXCEPT ![T!set_tss] = 0])
        /\ UNCHANGED <<vars, multiboot>>
    BY DEF Execs
  <2> QED BY <2>2, <2>3, <2>4, <2>5, <2>6
<1>3. MAX_TASK \in Nat /\ MAX_TASK >= 5 /\ n \in 0 .. 2 /\ m = n /\ n # MAX_TASK - 2
  <2>1. m = n /\ n <= 2
    BY <1>1, <1>2 DEF KernelFirst
  <2> QED BY <2>1, <1>1, TableSizes
<1>4. T!set_tss = n /\ T!set_desc_tss = 2 * n + 5 /\ T!tarea_libre = n /\ Cardinality(T!Started) = n
  <2>1. m # MAX_TASK - 1
    BY <1>3
  <2> QED BY <1>1, <1>3, <2>1, Searches
<1>5. k = n + 1
  BY <1>2, <1>4
<1>6. T!Kernel[k] \in Names /\ Len(T!Kernel) = 3
  BY DEF T!Kernel, Names
<1>7. Filled(n + 1, n + 1)' /\ tss'[n] = T!Kernel[n + 1] /\ \A i \in 0 .. n - 1 : tss'[i] = tss[i]
  <2>1. T!Created(n, T!Kernel[k], "SLEEPING")
    BY <1>2, <1>4
  <2>2. PICK name \in Names : name = T!Kernel[k]
    BY <1>6
  <2>3. T!Created(n, name, "SLEEPING")
    BY <2>1, <2>2
  <2>4. Filled(n + 1, n + 1)' /\ tss'[n] = name /\ \A i \in 0 .. n - 1 : tss'[i] = tss[i]
    BY <1>1, <1>3, <2>3, CreatedFills
  <2> QED BY <1>5, <2>2, <2>4
<1>8. phase' \in {"execs", "modules"} /\ (phase' = "execs" => n <= 1) /\ (phase' = "modules" => n = 2)
  BY <1>2, <1>3, <1>5, <1>6
<1>9. /\ gates' \in [int40 : Nat, int10 : Nat, tr : Nat]
      /\ gates'.tr = 4 /\ (n + 1 >= 2 => gates'.int40 = 6) /\ (n + 1 >= 3 => gates'.int10 = 8)
  <2>1. /\ gates \in [int40 : Nat, int10 : Nat, tr : Nat]
        /\ (n >= 1 => gates.tr = 4) /\ (n >= 2 => gates.int40 = 6) /\ (n >= 3 => gates.int10 = 8)
    BY <1>1 DEF KernelFirst
  <2>2. CASE n = 0
    <3>1. T!set_desc_tss - 1 = 4 /\ k = 1
      BY <1>4, <1>5, <2>2
    <3>2. gates' = [gates EXCEPT !.tr = 4]
      BY <1>2, <3>1
    <3> QED BY <2>1, <2>2, <3>2
  <2>3. CASE n = 1
    <3>1. T!set_desc_tss - 1 = 6 /\ k = 2
      BY <1>4, <1>5, <2>3
    <3>2. gates' = [gates EXCEPT !.int40 = 6]
      BY <1>2, <3>1
    <3> QED BY <2>1, <2>3, <3>2
  <2>4. CASE n = 2
    <3>1. T!set_desc_tss - 1 = 8 /\ k = 3
      BY <1>4, <1>5, <2>4
    <3>2. gates' = [gates EXCEPT !.int10 = 8]
      BY <1>2, <3>1
    <3> QED BY <2>1, <2>4, <3>2
  <2> QED BY <1>3, <2>2, <2>3, <2>4
<1>10. KernelFirst(n + 1, n + 1)'
  <2>1. \A i \in 0 .. (n + 1) - 1 : i < 3 /\ tss'[i] = T!Kernel[i + 1]
    <3>1. \A i \in 0 .. n - 1 : tss[i] = T!Kernel[i + 1]
      <4>1. \A i \in 0 .. n - 1 : i < 3
        BY <1>3
      <4> QED BY <1>1, <4>1 DEF KernelFirst
    <3>2. \A i \in 0 .. (n + 1) - 1 : i < 3 /\ (i = n \/ i \in 0 .. n - 1)
      BY <1>3
    <3> QED BY <1>7, <3>1, <3>2
  <2> QED BY <1>3, <1>8, <1>9, <2>1 DEF KernelFirst
<1>11. Spaces(n + 1)'
  <2>1. space' = [space EXCEPT ![n] = 0] /\ tasks' = tasks
    <3>1. n # -1
      BY <1>3
    <3> QED BY <1>2, <1>4, <3>1 DEF T!Null, vars
  <2>2. /\ space \in [0 .. MAX_TASK - 1 -> 0 .. Len(tasks)] /\ Len(tasks) = 0
        /\ \A i \in 0 .. n - 1 : space[i] = 0
    <3>1. \A i \in 0 .. n - 1 : i < 3
      BY <1>3
    <3> QED BY <1>1, <1>3, <3>1 DEF Spaces
  <2>3. n \in 0 .. MAX_TASK - 1
    BY <1>3
  <2>4. space' \in [0 .. MAX_TASK - 1 -> 0 .. Len(tasks')] /\ Len(tasks') = 0
    BY <2>1, <2>2, <2>3
  <2>5. \A i \in 0 .. (n + 1) - 1 : i < 3 /\ space'[i] = 0
    <3>1. \A i \in 0 .. (n + 1) - 1 : i < 3 /\ i \in 0 .. MAX_TASK - 1 /\ (i = n \/ i \in 0 .. n - 1)
      BY <1>3
    <3> QED BY <2>1, <2>2, <3>1
  <2>6. 3 .. (n + 1) - 1 = {} /\ (~(n + 1 < 3) => n + 1 - 3 = 0)
    BY <1>3
  <2> QED BY <2>4, <2>5, <2>6 DEF Spaces
<1>12. n + 1 \in 0 .. MAX_TASK
  BY <1>3
<1> QED BY <1>7, <1>10, <1>11, <1>12 DEF TablesInv

\* A module that exec takes.
LEMMA LoadFills ==
    ASSUME TablesInv, phase = "modules", phase' \in {"modules", "run"}, tasks \in Seq([mem : Seq(Nat), dir : Nat, tab : Nat, stack : Nat]),
           UNCHANGED <<multiboot, gates>>, NEW p \in Listed, p.name \in T!Programs, p.pag = Frames(p.len), p.len \in Lengths, T!exec(p), InSpace(p)
    PROVE  TablesInv'
<1>1. PICK n \in 0 .. MAX_TASK, m \in 0 .. MAX_TASK : Filled(n, m) /\ KernelFirst(n, m) /\ Spaces(n)
  BY DEF TablesInv
<1>2. MAX_TASK \in Nat /\ MAX_TASK >= 5 /\ n \in 3 .. MAX_TASK - 2 /\ m \in {n, MAX_TASK - 1} /\ (m # n => n = MAX_TASK - 2)
  <2>1. n >= 3
    BY <1>1 DEF KernelFirst
  <2>2. n \in 0 .. MAX_TASK - 2 /\ m \in {n, MAX_TASK - 1} /\ (m # n => n = MAX_TASK - 2)
    BY <1>1 DEF Filled
  <2> QED BY <2>1, <2>2, TableSizes
<1>3. T!set_tss = (IF m = MAX_TASK - 1 THEN -1 ELSE m) /\ T!tarea_libre = n
  BY <1>1, Searches
<1>4. CASE ~T!Accepted(p)
  <2>1. UNCHANGED <<tss, gdt, r_tareas, tasks, space>>
    BY <1>4 DEF T!exec, InSpace
  <2> QED BY <2>1, TablesKept
<1>5. CASE T!Accepted(p)
  <2>1. T!Created(n, p.name, "RUNNING") /\ p.name \in Names /\ p.pag <= MAX_PAG_DRIVER
    BY <1>3, <1>5 DEF T!exec, T!Accepted, Names
  <2>2. exec(p) /\ space' = (IF T!set_tss = -1 THEN space ELSE [space EXCEPT ![T!set_tss] = Len(tasks')])
    BY <1>5 DEF InSpace, T!Null
  <2>3. PICK t : tasks' = Append(tasks, t) /\ t.mem = ImageList(p)
    <3>1. p.pag \in Int /\ MAX_PAG_DRIVER \in Int => ~(p.pag > MAX_PAG_DRIVER)
      BY <2>1
    <3>2. p.pag \in Int /\ MAX_PAG_DRIVER \in Int
      <4>1. p.len \in Nat /\ PAG_LEN \in Nat \ {0} /\ MAX_PAG_DRIVER \in Nat
        BY MemAssumption
      <4>2. p.len \div PAG_LEN \in Int
        BY <4>1
      <4>3. p.pag = p.len \div PAG_LEN \/ p.pag = p.len \div PAG_LEN + 1
        <5>1. p.len \div PAG_LEN + 0 = p.len \div PAG_LEN
          BY <4>2
        <5> QED BY <5>1 DEF Frames
      <4> QED BY <4>1, <4>2, <4>3
    <3>3. ~(Frames(p.len) > MAX_PAG_DRIVER)
      BY <3>1, <3>2
    <3>4. \E d, a, s : tasks' = Append(tasks, [mem |-> [i \in 1 .. Frames(p.len) |-> addr2pag(p.start) + i - 1], dir |-> d, tab |-> a, stack |-> s])
      BY <2>2, <3>3, Zenon DEF exec
    <3>5. PICK d, a, s : tasks' = Append(tasks, [mem |-> [i \in 1 .. Frames(p.len) |-> addr2pag(p.start) + i - 1], dir |-> d, tab |-> a, stack |-> s])
      BY <3>4
    <3>6. [i \in 1 .. Frames(p.len) |-> addr2pag(p.start) + i - 1] = ImageList(p)
      BY DEF ImageList
    <3>7. PICK t : t = [mem |-> ImageList(p), dir |-> d, tab |-> a, stack |-> s]
      OBVIOUS
    <3>8. tasks' = Append(tasks, t) /\ t.mem = ImageList(p)
      BY <3>5, <3>6, <3>7
    <3> QED BY <3>8
  <2>4. PICK len \in Nat : len = Len(tasks)
    OBVIOUS
  <2>5. Len(tasks') = len + 1 /\ tasks'[len + 1] = t /\ \A i \in 1 .. len : tasks'[i] = tasks[i]
    BY <2>3, <2>4
  <2>6. /\ space \in [0 .. MAX_TASK - 1 -> 0 .. len]
        /\ len >= n - 3 /\ (n < MAX_TASK - 2 => len = n - 3)
        /\ \A i \in 0 .. n - 1 : space[i] = IF i < 3 THEN 0 ELSE i - 2
    <3>1. ~(n < 3)
      BY <1>2
    <3> QED BY <1>1, <2>4, <3>1 DEF Spaces
  <2>7. PICK q \in DOMAIN multiboot : multiboot[q] = p
    BY DEF Listed
  <2>8. ASSUME NEW i \in 3 .. n - 1, tss'[i] = tss[i]
        PROVE  \E r \in DOMAIN multiboot' :
                 /\ multiboot'[r].name = tss'[i] /\ multiboot'[r].pag <= MAX_PAG_DRIVER
                 /\ tasks'[i - 2].mem = ImageList(multiboot'[r])
    <3>1. PICK r \in DOMAIN multiboot : /\ multiboot[r].name = tss[i] /\ multiboot[r].pag <= MAX_PAG_DRIVER
                                        /\ tasks[i - 2].mem = ImageList(multiboot[r])
      BY <1>1 DEF Spaces
    <3>2. i - 2 \in 1 .. len
      BY <1>2, <2>6
    <3>3. tasks'[i - 2] = tasks[i - 2]
      BY <2>5, <3>2
    <3> QED BY <2>8, <3>1, <3>3
  <2>9. CASE n # MAX_TASK - 2
    <3>1. Filled(n + 1, n + 1)' /\ tss'[n] = p.name /\ \A i \in 0 .. n - 1 : tss'[i] = tss[i]
      BY <1>1, <2>1, <2>9, CreatedFills
    <3>2. KernelFirst(n + 1, n + 1)'
      <4>1. \A i \in 0 .. n - 1 : IF i < 3 THEN tss[i] = T!Kernel[i + 1] ELSE tss[i] \in T!Programs
        BY <1>1 DEF KernelFirst
      <4>2. /\ gates \in [int40 : Nat, int10 : Nat, tr : Nat]
            /\ gates.tr = 4 /\ gates.int40 = 6 /\ gates.int10 = 8
        BY <1>1, <1>2 DEF KernelFirst
      <4>3. \A i \in 0 .. (n + 1) - 1 : i \in 0 .. n - 1 \/ (i = n /\ ~(i < 3))
        BY <1>2
      <4>4. ASSUME NEW i \in 0 .. (n + 1) - 1
            PROVE  IF i < 3 THEN tss'[i] = T!Kernel[i + 1] ELSE tss'[i] \in T!Programs
        <5>1. CASE i \in 0 .. n - 1
          <6>1. tss'[i] = tss[i]
            BY <3>1, <5>1
          <6> QED BY <4>1, <5>1, <6>1, Zenon
        <5>2. CASE i = n /\ ~(i < 3)
          BY <3>1, <5>2
        <5> QED BY <4>3, <5>1, <5>2
      <4> QED BY <1>2, <4>2, <4>4 DEF KernelFirst
    <3>3. T!set_tss = n /\ n # -1 /\ len = n - 3 /\ len + 1 = n - 2
      BY <1>2, <1>3, <2>6, <2>9
    <3>4. space' = [space EXCEPT ![n] = n - 2]
      BY <2>2, <2>5, <3>3
    <3>5. Spaces(n + 1)'
      <4>1. n \in 0 .. MAX_TASK - 1 /\ n - 2 \in 0 .. len + 1 /\ \A x \in 0 .. len : x \in 0 .. len + 1
        BY <1>2, <3>3
      <4>2. space' \in [0 .. MAX_TASK - 1 -> 0 .. Len(tasks')]
        BY <2>5, <2>6, <3>4, <4>1
      <4>3. \A i \in 0 .. (n + 1) - 1 : i \in 0 .. MAX_TASK - 1 /\ ((i \in 0 .. n - 1 /\ i # n) \/ (i = n /\ ~(i < 3)))
        BY <1>2
      <4>4. \A i \in 0 .. (n + 1) - 1 : space'[i] = IF i < 3 THEN 0 ELSE i - 2
        BY <2>6, <3>4, <4>3
      <4>5. ASSUME NEW i \in 3 .. (n + 1) - 1
            PROVE  \E r \in DOMAIN multiboot' :
                     /\ multiboot'[r].name = tss'[i] /\ multiboot'[r].pag <= MAX_PAG_DRIVER
                     /\ tasks'[i - 2].mem = ImageList(multiboot'[r])
        <5>1. CASE i = n
          <6>1. tasks'[i - 2].mem = ImageList(p)
            BY <2>3, <2>5, <3>3, <5>1
          <6>2. multiboot' = multiboot
            OBVIOUS
          <6> QED BY <2>1, <2>7, <3>1, <5>1, <6>1, <6>2
        <5>2. CASE i # n
          <6>1. i \in 3 .. n - 1 /\ i \in 0 .. n - 1
            BY <1>2, <5>2
          <6> QED BY <2>8, <3>1, <6>1
        <5> QED BY <5>1, <5>2
      <4>6. ~(n + 1 < 3) /\ Len(tasks') = (n + 1) - 3
        BY <1>2, <2>5, <3>3
      <4> QED BY <4>2, <4>4, <4>5, <4>6 DEF Spaces
    <3>6. n + 1 \in 0 .. MAX_TASK
      BY <1>2
    <3> QED BY <3>1, <3>2, <3>5, <3>6 DEF TablesInv
  <2>10. CASE n = MAX_TASK - 2
    <3>1. Filled(n, MAX_TASK - 1)' /\ \A i \in 0 .. n - 1 : tss'[i] = tss[i]
      BY <1>1, <2>1, <2>10, CreatedFull
    <3>2. KernelFirst(n, MAX_TASK - 1)'
      <4>1. \A i \in 0 .. n - 1 : IF i < 3 THEN tss[i] = T!Kernel[i + 1] ELSE tss[i] \in T!Programs
        BY <1>1 DEF KernelFirst
      <4>2. /\ gates \in [int40 : Nat, int10 : Nat, tr : Nat]
            /\ gates.tr = 4 /\ gates.int40 = 6 /\ gates.int10 = 8
        BY <1>1, <1>2 DEF KernelFirst
      <4>3. \A i \in 0 .. n - 1 : IF i < 3 THEN tss'[i] = T!Kernel[i + 1] ELSE tss'[i] \in T!Programs
        BY <3>1, <4>1
      <4> QED BY <1>2, <4>2, <4>3 DEF KernelFirst
    <3>3. space' \in [0 .. MAX_TASK - 1 -> 0 .. Len(tasks')] /\ \A i \in 0 .. n - 1 : space'[i] = space[i]
      <4>1. len + 1 \in 0 .. len + 1 /\ \A x \in 0 .. len : x \in 0 .. len + 1
        BY <2>4
      <4>2. CASE T!set_tss = -1
        BY <2>2, <2>5, <2>6, <4>1, <4>2
      <4>3. CASE T!set_tss # -1
        <5>1. T!set_tss = n /\ n \in 0 .. MAX_TASK - 1 /\ \A i \in 0 .. n - 1 : i # n /\ i \in 0 .. MAX_TASK - 1
          BY <1>2, <1>3, <4>3
        <5>2. space' = [space EXCEPT ![n] = len + 1]
          BY <2>2, <2>5, <4>3, <5>1
        <5> QED BY <2>5, <2>6, <4>1, <5>1, <5>2
      <4> QED BY <4>2, <4>3
    <3>4. Spaces(n)'
      <4>1. ~(n < 3) /\ Len(tasks') >= n - 3 /\ ~(n < MAX_TASK - 2)
        <5>1. ~(n < 3) /\ ~(n < MAX_TASK - 2)
          BY <1>2, <2>10
        <5>2. PICK new \in Nat : new = Len(tasks') /\ new = len + 1
          BY <2>4, <2>5
        <5>3. new >= n - 3
          BY <1>2, <2>6, <5>2
        <5> QED BY <5>1, <5>2, <5>3
      <4>2. \A i \in 0 .. n - 1 : space'[i] = IF i < 3 THEN 0 ELSE i - 2
        BY <2>6, <3>3
      <4>3. \A i \in 3 .. n - 1 : i \in 0 .. n - 1
        OBVIOUS
      <4>4. \A i \in 3 .. n - 1 : \E r \in DOMAIN multiboot' :
              /\ multiboot'[r].name = tss'[i] /\ multiboot'[r].pag <= MAX_PAG_DRIVER
              /\ tasks'[i - 2].mem = ImageList(multiboot'[r])
        BY <2>8, <3>1, <4>3
      <4> QED BY <3>3, <4>1, <4>2, <4>4 DEF Spaces
    <3>5. MAX_TASK - 1 \in 0 .. MAX_TASK
      BY <1>2
    <3> QED BY <3>1, <3>2, <3>4, <3>5 DEF TablesInv
  <2> QED BY <2>9, <2>10
<1> QED BY <1>4, <1>5

-----------------------------------------------------------------------------
(* The steps                                                               *)

\* What task_control may jump to, and where its search goes on.
LEMMA SearchInTable ==
    ASSUME TablesInv, t_indice \in 0 .. MAX_TASK - 1
    PROVE  /\ T!NextIndex \in 0 .. MAX_TASK - 1
           /\ \A i \in 0 .. MAX_TASK - 1 : r_tareas[i].task \in 0 .. MAX_GDT - 1 /\ r_tareas[i].tss \in -1 .. MAX_TASK - 1
<1>1. PICK n \in 0 .. MAX_TASK, m \in 0 .. MAX_TASK : Filled(n, m)
  BY DEF TablesInv
<1>2. MAX_TASK \in Nat /\ MAX_TASK >= 5 /\ MAX_GDT = 2 * MAX_TASK /\ n \in 0 .. MAX_TASK - 2
  BY <1>1, TableSizes DEF Filled
<1>3. T!NextIndex \in 0 .. MAX_TASK - 1
  <2>1. T!NextIndex = 1 \/ (T!NextIndex = t_indice + 1 /\ t_indice + 1 # MAX_TASK)
    BY DEF T!NextIndex
  <2> QED BY <1>2, <2>1
<1>4. ASSUME NEW i \in 0 .. MAX_TASK - 1 PROVE r_tareas[i].task \in 0 .. MAX_GDT - 1 /\ r_tareas[i].tss \in -1 .. MAX_TASK - 1
  <2>1. r_tareas[i].tss \in -1 .. MAX_TASK - 1
    BY <1>1 DEF Filled
  <2>2. CASE i \in 0 .. n - 1
    <3>1. r_tareas[i].task = 2 * i + 5
      BY <1>1, <2>2 DEF Filled
    <3>2. 2 * i + 5 \in 0 .. MAX_GDT - 1
      BY <1>2, <2>2
    <3> QED BY <2>1, <3>1, <3>2
  <2>3. CASE i \in n .. MAX_TASK - 1
    <3>1. r_tareas[i].task = 0
      BY <1>1, <2>3 DEF Filled
    <3>2. 0 \in 0 .. MAX_GDT - 1
      BY <1>2
    <3> QED BY <2>1, <3>1, <3>2
  <2>4. i \in 0 .. n - 1 \/ i \in n .. MAX_TASK - 1
    BY <1>2
  <2> QED BY <2>2, <2>3, <2>4
<1> QED BY <1>3, <1>4

LEMMA PhasesKept == ASSUME BootInv, [BootNext]_allVars PROVE Phases'
<1>1. Phases /\ ListInv /\ TablesInv
  BY DEF BootInv
<1>2. ASSUME UNCHANGED <<vars, multiboot, t_indice, des, ret>>, phase' = phase PROVE Phases'
  BY <1>1, <1>2 DEF Phases, Blank, vars
<1>3. CASE NoModules
  <2>1. phase = "memory" /\ phase' = "stopped" /\ UNCHANGED <<vars, multiboot, t_indice, des, ret>>
    BY <1>3 DEF NoModules, table
  <2> QED BY <1>1, <2>1 DEF Phases, Blank, vars
<1>4. CASE Memory
  <2>1. /\ phase = "memory" /\ list # << >> /\ phase' = (IF step = "ini_pag" THEN "execs" ELSE phase)
        /\ set_mem_off \/ ini_mm \/ ini_pag
        /\ UNCHANGED <<multiboot, t_indice, des, ret>>
    BY <1>4 DEF Memory, table
  <2>2. multiboot # << >>
    BY <1>1, <2>1, AtHead, SomeListed
  <2>3. \/ step = "mem_off" /\ step' = "ini_mm"
        \/ step = "ini_mm" /\ step' = "ini_pag"
        \/ step = "ini_pag" /\ step' = "exec"
    BY <2>1 DEF set_mem_off, ini_mm, ini_pag
  <2>4. (phase' = "memory" /\ step' \in {"ini_mm", "ini_pag"}) \/ (phase' = "execs" /\ step' = "exec")
    BY <2>1, <2>3
  <2> QED BY <1>1, <2>1, <2>2, <2>4 DEF Phases
<1>5. CASE \E k \in 1 .. 3 : Execs(k)
  <2>1. phase = "execs" /\ phase' \in {"execs", "modules"} /\ UNCHANGED <<vars, multiboot, t_indice, des, ret>>
    BY <1>5 DEF Execs, T!execs
  <2>2. step' = "exec" /\ multiboot' # << >>
    BY <1>1, <2>1 DEF Phases, vars
  <2> QED BY <1>1, <2>1, <2>2 DEF Phases
<1>6. CASE Loop
  <2>1. /\ phase = "modules" /\ phase' \in {"modules", "run", "stopped"} /\ ret' \in {ret, {0}, {1}}
        /\ UNCHANGED <<multiboot, step, t_indice, des>> /\ (phase' = "run" => list' = << >>) /\ mods' = Pending'
    <3>1. mods' = Pending' /\ UNCHANGED <<multiboot, step>>
      BY <1>6 DEF Loop
    <3>2. T!KeepStart \/ T!SkipPicture \/ T!NoStart \/ T!LoadModule \/ T!LoadStart
      BY <1>6 DEF Loop
    <3>3. CASE T!KeepStart
      BY <3>1, <3>3 DEF T!KeepStart, T!InLoop
    <3>4. CASE T!SkipPicture
      BY <3>1, <3>4 DEF T!SkipPicture, T!InLoop
    <3>5. CASE T!NoStart
      BY <3>1, <3>5 DEF T!NoStart
    <3>6. CASE T!LoadModule
      BY <3>1, <3>6 DEF T!LoadModule, T!InLoop
    <3>7. CASE T!LoadStart
      BY <3>1, <3>7 DEF T!LoadStart
    <3> QED BY <3>2, <3>3, <3>4, <3>5, <3>6, <3>7
  <2>2. step' = "exec" /\ multiboot' # << >>
    BY <1>1, <2>1 DEF Phases
  <2>3. phase' = "run" => mods' = << >>
    <3>1. ASSUME phase' = "run" PROVE mods' = << >>
      <4>1. Waiting' = << >>
        BY <2>1, <3>1 DEF Waiting
      <4>2. Pending' = [i \in DOMAIN Waiting' |-> [start |-> Waiting'[i].start, len |-> Waiting'[i].len]]
        BY DEF Pending
      <4>3. PICK w : w = Waiting' /\ w = << >>
        BY <4>1
      <4>4. Pending' = [i \in DOMAIN w |-> [start |-> w[i].start, len |-> w[i].len]]
        BY <4>2, <4>3
      <4>5. DOMAIN w = {}
        BY <4>3
      <4> QED BY <2>1, <4>4, <4>5
    <3> QED BY <3>1
  <2>4. ret' \subseteq {0, 1}
    BY <1>1, <2>1 DEF Phases
  <2> QED BY <1>1, <2>1, <2>2, <2>3, <2>4 DEF Phases
<1>7. CASE TaskControl
  <2>1. phase = "run" /\ phase' = "run" /\ UNCHANGED <<multiboot, ret>> /\ multiboot # << >>
    BY <1>1, <1>7 DEF TaskControl, T!task_control, table, Phases
  <2>2. step' = "run" /\ mods' = << >>
    <3>1. step = "exec" \/ step = "run"
      BY <1>1, <2>1 DEF Phases
    <3>2. mods = << >>
      BY <1>1, <2>1 DEF Phases
    <3>3. (task_control \/ (step = "run" /\ UNCHANGED vars))
      BY <1>7 DEF TaskControl
    <3>4. CASE task_control
      BY <3>2, <3>4 DEF task_control
    <3>5. CASE step = "run" /\ UNCHANGED vars
      BY <3>2, <3>5 DEF vars
    <3> QED BY <3>3, <3>4, <3>5
  <2>3. t_indice' \in 0 .. MAX_TASK - 1 /\ des' \in 0 .. MAX_GDT - 1
    <3>1. t_indice \in 0 .. MAX_TASK - 1 /\ des \in 0 .. MAX_GDT - 1
      BY <1>1 DEF Phases
    <3>2. UNCHANGED table \/ T!task_control
      BY <1>7 DEF TaskControl
    <3>3. CASE UNCHANGED table
      BY <3>1, <3>3 DEF table
    <3>4. CASE T!task_control
      <4>1. t_indice' = T!NextIndex /\ (des' = r_tareas[t_indice'].task \/ des' = des)
        BY <3>4 DEF T!task_control
      <4> QED BY <1>1, <3>1, <4>1, SearchInTable
    <3> QED BY <3>2, <3>3, <3>4
  <2> QED BY <1>1, <2>1, <2>2, <2>3 DEF Phases
<1>8. CASE UNCHANGED allVars
  BY <1>2, <1>8 DEF allVars, table
<1> QED BY <1>3, <1>4, <1>5, <1>6, <1>7, <1>8 DEF BootNext

LEMMA TablesStep == ASSUME BootInv, [BootNext]_allVars PROVE TablesInv'
<1>1. Phases /\ ListInv /\ TablesInv /\ (multiboot # << >> => MemInv)
  BY DEF BootInv
<1>2. CASE NoModules
  <2>1. phase' = "stopped" /\ UNCHANGED <<tss, gdt, r_tareas, gates, space, tasks, multiboot>>
    BY <1>2 DEF NoModules, table, vars
  <2> QED BY <1>1, <2>1, TablesKept
<1>3. CASE Memory
  <2>1. phase = "memory" /\ phase' \in {"memory", "execs"} /\ UNCHANGED <<tss, gdt, r_tareas, gates, space, multiboot>>
    BY <1>3 DEF Memory, table
  <2>2. UNCHANGED tasks
    BY <1>3 DEF Memory, set_mem_off, ini_mm, ini_pag
  <2> QED BY <1>1, <2>1, <2>2, TablesKept
<1>4. CASE \E k \in 1 .. 3 : Execs(k)
  BY <1>1, <1>4, ExecsFill
<1>5. CASE Loop
  <2>1. /\ UNCHANGED multiboot
        /\ \/ (T!KeepStart \/ T!SkipPicture \/ T!NoStart) /\ UNCHANGED <<memory, space>>
           \/ T!LoadModule /\ InSpace(Head(list))
           \/ T!LoadStart /\ InSpace(start)
    BY <1>5 DEF Loop
  <2>2. CASE (T!KeepStart \/ T!SkipPicture \/ T!NoStart) /\ UNCHANGED <<memory, space>>
    <3>1. phase = "modules" /\ phase' \in {"modules", "stopped"} /\ UNCHANGED <<tss, gdt, r_tareas, gates>>
      BY <2>2 DEF T!KeepStart, T!SkipPicture, T!NoStart, T!InLoop
    <3>2. UNCHANGED <<space, tasks, multiboot>>
      BY <2>1, <2>2 DEF memory
    <3> QED BY <1>1, <3>1, <3>2, TablesKept
  <2>3. ASSUME phase = "modules", phase' \in {"modules", "run"}, UNCHANGED gates, NEW p \in Listed, T!exec(p), InSpace(p)
        PROVE  TablesInv'
    <3>1. p.name \in T!Programs /\ p.pag = Frames(p.len) /\ p.len \in Lengths
      BY <1>1, <2>3 DEF ListInv
    <3>2. tasks \in Seq([mem : Seq(Nat), dir : Nat, tab : Nat, stack : Nat])
      BY <1>1, <2>3, SomeListed DEF MemInv, TypeOK
    <3> QED BY <1>1, <2>1, <2>3, <3>1, <3>2, LoadFills
  <2>4. CASE T!LoadModule /\ InSpace(Head(list))
    <3>1. phase = "modules" /\ phase' = "modules" /\ list # << >> /\ T!exec(Head(list)) /\ UNCHANGED gates
      BY <2>4 DEF T!LoadModule, T!InLoop
    <3>2. Head(list) \in Listed
      BY <1>1, <3>1, AtHead
    <3> QED BY <2>3, <2>4, <3>1, <3>2
  <2>5. CASE T!LoadStart /\ InSpace(start)
    <3>1. phase = "modules" /\ phase' = "run" /\ start # T!None /\ T!exec(start) /\ UNCHANGED gates
      BY <2>5 DEF T!LoadStart, T!execd
    <3>2. start \in Listed
      BY <1>1, <3>1 DEF ListInv
    <3> QED BY <2>3, <2>5, <3>1, <3>2
  <2> QED BY <2>1, <2>2, <2>4, <2>5
<1>6. CASE TaskControl
  <2>1. phase' = phase /\ UNCHANGED <<tss, gdt, r_tareas, gates, space, multiboot>>
    BY <1>6 DEF TaskControl, T!task_control, table
  <2>2. UNCHANGED tasks
    BY <1>6 DEF TaskControl, task_control, vars
  <2> QED BY <1>1, <2>1, <2>2, TablesKept
<1>7. CASE UNCHANGED allVars
  <2>1. phase' = phase /\ UNCHANGED <<tss, gdt, r_tareas, gates, space, tasks, multiboot>>
    BY <1>7 DEF allVars, table, vars
  <2> QED BY <1>1, <2>1, TablesKept
<1> QED BY <1>2, <1>3, <1>4, <1>5, <1>6, <1>7 DEF BootNext

\* _main's order of calls keeps frames, tables and list together.
THEOREM BootKept == BootSpec => []BootInv
<1>1. BootInv /\ [BootNext]_allVars => BootInv'
  <2> SUFFICES ASSUME BootInv, [BootNext]_allVars PROVE BootInv'
    OBVIOUS
  <2>1. ListInv' /\ (multiboot # << >> => MemInv)'
    BY BootFrames
  <2>2. Phases' /\ TablesInv'
    BY PhasesKept, TablesStep
  <2> QED BY <2>1, <2>2 DEF BootInv
<1> QED BY <1>1, BootStart, PTL DEF BootSpec

-----------------------------------------------------------------------------
(* The properties                                                          *)

\* Modules skipped, refused or kept for last never lose their frames to a page
\* table, a directory or a stack before exec takes them over.
THEOREM ModulesKeepTheirFrames == BootSpec => []FramesApart
<1>1. BootInv => FramesApart
  <2> SUFFICES ASSUME BootInv, step \notin {"mem_off", "ini_mm"}
               PROVE  /\ \A h \in Holdings : h[3] \in mem_map
                      /\ \A g, h \in Holdings : g[3] = h[3] => g = h
    BY DEF FramesApart, NoFrameTwice
  <2>1. MemInv
    BY DEF BootInv, Phases
  <2> QED BY <2>1, Parts, Apart
<1> QED BY <1>1, BootKept, PTL

\* What _main keeps has its type, whatever GRUB loaded.
THEOREM BootTypes == BootSpec => []BootTypeOK
<1>1. BootInv => BootTypeOK
  <2> SUFFICES ASSUME BootInv PROVE BootTypeOK
    OBVIOUS
  <2>1. Phases /\ TablesInv /\ (multiboot # << >> => MemInv)
    BY DEF BootInv
  <2>2. PICK n \in 0 .. MAX_TASK, m \in 0 .. MAX_TASK : Filled(n, m) /\ Spaces(n)
    BY <2>1 DEF TablesInv
  <2>3. TypeOK
    <3>1. CASE multiboot # << >>
      BY <2>1, <3>1 DEF MemInv
    <3>2. CASE multiboot = << >>
      <4>1. step = "mem_off" /\ Blank
        BY <2>1, <3>2 DEF Phases
      <4>2. \A S : << >> \in Seq(S) /\ Len(<< >>) = 0
        OBVIOUS
      <4> QED BY <4>1, <4>2 DEF Blank, TypeOK
    <3> QED BY <3>1, <3>2
  <2>4. T!TableTypeOK
    <3>1. t_indice \in 0 .. MAX_TASK - 1 /\ des \in 0 .. MAX_GDT - 1 /\ ret \subseteq {0, 1}
      BY <2>1 DEF Phases
    <3>2. \A i \in T!Entries : r_tareas[i].task \in 0 .. MAX_GDT - 1 /\ r_tareas[i].tss \in T!Entries \cup {T!Null}
      <4>1. -1 .. MAX_TASK - 1 \subseteq T!Entries \cup {-1}
        BY TableSizes DEF T!Entries
      <4>2. \A i \in 0 .. MAX_TASK - 1 : r_tareas[i].task \in 0 .. MAX_GDT - 1 /\ r_tareas[i].tss \in -1 .. MAX_TASK - 1
        BY <2>1, <3>1, SearchInTable
      <4> QED BY <4>1, <4>2 DEF T!Entries, T!Null
    <3>3. ASSUME NEW j \in 0 .. MAX_GDT - 1 PROVE gdt[j].acceso \in {"free", "segment", "tss", "gate"}
      <4>1. MAX_TASK \in Nat /\ MAX_GDT = 2 * MAX_TASK /\ n \in 0 .. MAX_TASK - 2
        BY <2>2, TableSizes DEF Filled
      <4>2. CASE j \in 0 .. 3
        BY <2>2, <4>2 DEF Filled
      <4>3. CASE j \in 2 * n + 4 .. MAX_GDT - 1
        BY <2>2, <4>3 DEF Filled
      <4>4. CASE j \notin 0 .. 3 /\ j \notin 2 * n + 4 .. MAX_GDT - 1
        <5>1. (j - 4) \div 2 \in 0 .. n - 1 /\ (j = 2 * ((j - 4) \div 2) + 4 \/ j = 2 * ((j - 4) \div 2) + 5)
          BY <4>1, <4>4
        <5>2. PICK i \in 0 .. n - 1 : j = 2 * i + 4 \/ j = 2 * i + 5
          BY <5>1
        <5>3. gdt[2 * i + 4] = [acceso |-> "tss", base |-> i] /\ gdt[2 * i + 5] = [acceso |-> "gate", base |-> 2 * i + 4]
          BY <2>2, <5>2 DEF Filled
        <5> QED BY <5>2, <5>3
      <4> QED BY <4>2, <4>3, <4>4
    <3> QED BY <3>1, <3>2, <3>3 DEF T!TableTypeOK, T!Entries
  <2>5. space \in [T!Entries -> 0 .. Len(tasks)]
    BY <2>2 DEF Spaces, T!Entries
  <2>6. phase \in {"memory", "execs", "modules", "run", "stopped"}
    BY <2>1 DEF Phases
  <2> QED BY <2>3, <2>4, <2>5, <2>6 DEF BootTypeOK
<1> QED BY <1>1, BootKept, PTL

\* From an entry over gate and descriptor to the TSS it names.
LEMMA Resolve == ASSUME NEW n, NEW m, Filled(n, m) PROVE T!EntriesResolve
<1>1. T!Started = 0 .. n - 1 /\ n \in Int
  <2>1. n \in 0 .. MAX_TASK - 2
    BY DEF Filled
  <2>2. T!Started = 0 .. n - 1
    BY Searches
  <2> QED BY <2>1, <2>2, TableSizes
<1>2. ASSUME NEW i \in 0 .. n - 1
      PROVE  /\ gdt[r_tareas[i].task].acceso = "gate"
             /\ gdt[gdt[r_tareas[i].task].base].acceso = "tss"
             /\ gdt[gdt[r_tareas[i].task].base].base = r_tareas[i].tss
             /\ r_tareas[i].tss = i /\ i # -1 /\ T!Path(tss[r_tareas[i].tss]) = r_tareas[i].name
  <2>1. /\ r_tareas[i].task = 2 * i + 5 /\ r_tareas[i].tss = i /\ r_tareas[i].name = T!Path(tss[i])
        /\ gdt[2 * i + 4] = [acceso |-> "tss", base |-> i]
        /\ gdt[2 * i + 5] = [acceso |-> "gate", base |-> 2 * i + 4]
    BY DEF Filled
  <2>2. gdt[r_tareas[i].task].base = 2 * i + 4 /\ gdt[r_tareas[i].task].acceso = "gate"
    BY <2>1
  <2>3. gdt[2 * i + 4].acceso = "tss" /\ gdt[2 * i + 4].base = i
    BY <2>1
  <2>4. i # -1
    BY <1>1
  <2> QED BY <2>1, <2>2, <2>3, <2>4
<1> QED BY <1>1, <1>2 DEF T!EntriesResolve, T!Null

\* The selectors the kernel uses are the first three tasks'.
LEMMA InPlace == ASSUME NEW n, NEW m, Filled(n, m), KernelFirst(n, m) PROVE T!KernelInPlace
<1> SUFFICES ASSUME phase \in {"modules", "run"}
             PROVE  /\ gates.tr = 4 /\ gdt[4] = [acceso |-> "tss", base |-> r_tareas[0].tss]
                    /\ gdt[gates.int40] = [acceso |-> "tss", base |-> r_tareas[1].tss]
                    /\ gdt[gates.int10] = [acceso |-> "tss", base |-> r_tareas[2].tss]
                    /\ r_tareas[0].name = T!Path("task_control") /\ r_tareas[1].name = T!Path("sys_call")
  BY DEF T!KernelInPlace, T!Control
<1>1. n >= 3 /\ n \in Int /\ gates.tr = 4 /\ gates.int40 = 6 /\ gates.int10 = 8
  <2>1. n >= 3
    BY DEF KernelFirst
  <2>2. n \in Int
    <3>1. n \in 0 .. MAX_TASK - 2
      BY DEF Filled
    <3> QED BY <3>1, TableSizes
  <2> QED BY <2>1, <2>2 DEF KernelFirst
<1>2. 0 \in 0 .. n - 1 /\ 1 \in 0 .. n - 1 /\ 2 \in 0 .. n - 1
  BY <1>1
<1>3. \A i \in 0 .. n - 1 : r_tareas[i].tss = i /\ r_tareas[i].name = T!Path(tss[i]) /\ gdt[2 * i + 4] = [acceso |-> "tss", base |-> i]
  BY DEF Filled
<1>4. \A i \in 0 .. n - 1 : i < 3 => tss[i] = T!Kernel[i + 1]
  BY DEF KernelFirst
<1>5. tss[0] = "task_control" /\ tss[1] = "sys_call"
  BY <1>2, <1>4 DEF T!Kernel
<1>6. gdt[4] = [acceso |-> "tss", base |-> 0] /\ gdt[6] = [acceso |-> "tss", base |-> 1] /\ gdt[8] = [acceso |-> "tss", base |-> 2]
  <2>1. 2 * 0 + 4 = 4 /\ 2 * 1 + 4 = 6 /\ 2 * 2 + 4 = 8
    OBVIOUS
  <2> QED BY <1>2, <1>3, <2>1
<1>7. r_tareas[0].tss = 0 /\ r_tareas[1].tss = 1 /\ r_tareas[2].tss = 2
  BY <1>2, <1>3
<1>8. r_tareas[0].name = T!Path("task_control") /\ r_tareas[1].name = T!Path("sys_call")
  BY <1>2, <1>3, <1>5
<1> QED BY <1>1, <1>6, <1>7, <1>8

\* The entry of r_tareas that task_control jumps to runs the program it is named
\* after, in a directory of its own whose pages from V_USER on are that module's
\* image; the kernel's tasks stay in the kernel's.
THEOREM EntriesReachTheirPrograms == BootSpec => []ReachesItsProgram
<1>1. BootInv => ReachesItsProgram
  <2> SUFFICES ASSUME BootInv PROVE ReachesItsProgram
    OBVIOUS
  <2>1. ListInv /\ TablesInv
    BY DEF BootInv
  <2>2. PICK n \in 0 .. MAX_TASK, m \in 0 .. MAX_TASK : Filled(n, m) /\ KernelFirst(n, m) /\ Spaces(n)
    BY <2>1 DEF TablesInv
  <2>3. T!EntriesResolve /\ T!KernelInPlace
    BY <2>2, Resolve, InPlace
  <2>4. T!Started = 0 .. n - 1 /\ Len(T!Kernel) = 3
    BY <2>2, Searches DEF T!Kernel
  <2>5. \A i \in 0 .. n - 1 : space[r_tareas[i].tss] = (IF i < 3 THEN 0 ELSE i - 2) /\ r_tareas[i].name = T!Path(tss[i])
    <3>1. \A i \in 0 .. n - 1 : r_tareas[i].tss = i /\ r_tareas[i].name = T!Path(tss[i])
      BY <2>2 DEF Filled
    <3>2. \A i \in 0 .. n - 1 : space[i] = IF i < 3 THEN 0 ELSE i - 2
      BY <2>2 DEF Spaces
    <3> QED BY <3>1, <3>2
  <2>6. ASSUME NEW i \in 0 .. n - 1, ~(i < 3), NEW k, k = i - 2
        PROVE  /\ k > 0 /\ HasImage(r_tareas[i].name, tasks[k].mem)
               /\ \A j \in DOMAIN tasks[k].mem : Frame(k, V_USER + j - 1) = tasks[k].mem[j]
               /\ \A j \in 0 .. n - 1 : j # i => space[r_tareas[j].tss] # k
    <3>1. i \in 3 .. n - 1 /\ k > 0
      BY <2>6
    <3>2. PICK q \in DOMAIN multiboot : /\ multiboot[q].name = tss[i] /\ multiboot[q].pag <= MAX_PAG_DRIVER
                                        /\ tasks[k].mem = ImageList(multiboot[q])
      BY <2>2, <2>6, <3>1 DEF Spaces
    <3>3. HasImage(r_tareas[i].name, tasks[k].mem)
      <4>1. T!Path(multiboot[q].name) = r_tareas[i].name
        BY <2>5, <3>2
      <4>2. tasks[k].mem = [j \in 1 .. multiboot[q].pag |-> addr2pag(multiboot[q].start) + j - 1]
        BY <3>2 DEF ImageList
      <4> QED BY <4>1, <4>2 DEF HasImage
    <3>4. \A j \in DOMAIN tasks[k].mem : Frame(k, V_USER + j - 1) = tasks[k].mem[j]
      <4>1. multiboot[q].pag \in Int
        <5>1. multiboot[q].pag = Frames(multiboot[q].len) /\ multiboot[q].len \in Lengths
          BY <2>1 DEF ListInv, Listed
        <5>2. multiboot[q].len \in Nat /\ PAG_LEN \in Nat \ {0}
          BY <5>1, MemAssumption
        <5>3. PICK l \in Nat : l = multiboot[q].len /\ multiboot[q].pag = Frames(l)
          BY <5>1, <5>2
        <5>4. l \div PAG_LEN \in Int
          BY <5>2, <5>3
        <5>5. Frames(l) = l \div PAG_LEN + 0 \/ Frames(l) = l \div PAG_LEN + 1
          BY DEF Frames
        <5>6. Frames(l) \in Int
          BY <5>4, <5>5
        <5> QED BY <5>3, <5>6
      <4>2. DOMAIN tasks[k].mem = 1 .. multiboot[q].pag
        BY <3>2 DEF ImageList
      <4>3. ASSUME NEW j \in 1 .. multiboot[q].pag PROVE Frame(k, V_USER + j - 1) = tasks[k].mem[j]
        <5>1. V_USER \in Nat /\ V_STACK \in Nat /\ TAB_PAG_LEN \in Nat /\ MAX_PAG_DRIVER \in Nat
              /\ V_USER + MAX_PAG_DRIVER <= V_STACK /\ V_STACK < TAB_PAG_LEN
          BY MemAssumption
        <5>2. V_USER + j - 1 < TAB_PAG_LEN /\ (V_USER + j - 1) - V_USER + 1 = j
          BY <3>2, <4>1, <5>1
        <5>3. Target(k, V_USER + j - 1) = tasks[k].mem[j]
          BY <4>2, <5>2 DEF Target
        <5> QED BY <5>2, <5>3 DEF Frame
      <4> QED BY <4>2, <4>3
    <3>5. \A j \in 0 .. n - 1 : j # i => space[r_tareas[j].tss] # k
      <4>1. \A j \in 0 .. n - 1 : j # i => (IF j < 3 THEN 0 ELSE j - 2) # k
        BY <2>6, <3>1
      <4> QED BY <2>5, <4>1
    <3> QED BY <3>1, <3>3, <3>4, <3>5
  <2>7. ASSUME NEW i \in T!Started
        PROVE  LET k == space[r_tareas[i].tss] IN
               IF i < Len(T!Kernel) THEN k = 0
               ELSE /\ k > 0
                    /\ HasImage(r_tareas[i].name, tasks[k].mem)
                    /\ \A j \in DOMAIN tasks[k].mem : Frame(k, V_USER + j - 1) = tasks[k].mem[j]
                    /\ \A j \in T!Started \ {i} : space[r_tareas[j].tss] # k
    <3>1. PICK k : k = space[r_tareas[i].tss]
      OBVIOUS
    <3>2. CASE i < 3
      BY <2>4, <2>5, <3>2
    <3>3. CASE ~(i < 3)
      <4>1. k = i - 2
        BY <2>4, <2>5, <3>1, <3>3
      <4>2. /\ k > 0 /\ HasImage(r_tareas[i].name, tasks[k].mem)
            /\ \A j \in DOMAIN tasks[k].mem : Frame(k, V_USER + j - 1) = tasks[k].mem[j]
            /\ \A j \in 0 .. n - 1 : j # i => space[r_tareas[j].tss] # k
        BY <2>4, <2>6, <3>3, <4>1
      <4>3. \A j \in T!Started \ {i} : space[r_tareas[j].tss] # k
        BY <2>4, <4>2
      <4> QED BY <2>4, <3>1, <3>3, <4>2, <4>3
    <3> QED BY <3>2, <3>3
  <2> QED BY <2>3, <2>7 DEF ReachesItsProgram
<1> QED BY <1>1, BootKept, PTL
=============================================================================
