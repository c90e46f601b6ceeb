# Silicio: a TLA+ development of the kernel

Silicio is a small 32-bit x86 kernel (C and AT&T assembly, multiboot, hardware task
switching). GRUB loads the kernel and a few user programs as modules; the kernel makes a
task of each, and then does nothing but switch between them and serve their system calls.
Programs talk to devices through *drivers*, which are user programs too: a client calls
the kernel, the kernel wakes the driver, the driver answers through the kernel.

The directory holds modules that translate that code, TLC runs that check them on small
instances, and proofs checked by TLAPS. `PROJECT.json` maps every definition to the lines
it stands for.

## 1. The system

| Component | State it keeps | Operations | What makes it correct |
|---|---|---|---|
| Device calls: `sys_call`, `sys_open/read/write/seek/reg/ret/wait` (exec.c 137-613) | `r_tareas[].status`, the saved registers in each TSS, `r_drv[]` (name, driver's task, `id_ret`, `call`, `buf_ret`, size), the driver's `sys_param` | INT 0x40, one task at a time | no client is lost, nobody but the answering driver touches a blocked client, refused calls have no effect, calls are answered |
| Scheduler: `task_control` (exec.c 612-663) | `t_indice` | round robin over `r_tareas` | everybody who can run is reached; the search ends |
| Task switching: `ljmp`, task gates, `sys_control`, `iret`, 8259 (exec.c, io.h, int.c) | task register, busy bits, back links, each task's kernel stack, request and in-service bits | far jumps, INT 0x40 and IRQ 0 through task gates, INT 0x41 and IRQ 1 through interrupt gates | no jump to a busy TSS, `sys_call` serves the caller, interrupts are acknowledged, kernel stacks stay small |
| Vectors and masks: `set_8259`, `int_up`, `SYS_RINT`, `int_hard_17` | the 8259's mask and the copy `t_int`, `r_int[]`, `cr3` | boot, registration, the keyboard's interrupt in the middle of any task | one owner per vector, the clock is never masked, each side in its own address space |
| I/O ports: `set_port`, `unset_port` | `r_port`, the permission map in each TSS | `SYS_RPORT`, `SYS_URPORT` | the two maps agree; exactly the asked port changes |
| Memory: `mm.c`, frames in `exec`, `SYS_MEM`, `check_addr` | `mem_map`, page directories and tables, what each task was given | boot, loading, granting, checking pointers | no frame twice, identity map, grants reachable, checks accept what they should |
| Task creation: `execs`, `exec`, `set_tss`, `set_desc_tss`, `tarea_libre`, with `strlen`, `strcpy`, `strcmp` | the tables of TSSs, of descriptors, of tasks; the gates | loading of the kernel's tasks and of the modules | entries lead to their own TSS however full the tables are; the kernel's fixed selectors are right |
| Boot: `_main` | the order of it all: `set_mem_off`, `ini_mm`, `ini_pag`, `execs`, the modules, start.bin, `task_control` | one pass, then the scheduler | whatever GRUB loads, an entry runs the program it is named after, in frames of its own; start.bin is started |
| Console and video: `open_mod_vbe`, `bmp2vbe`, `cls`, `putc`, `printk`, `itoa` | `vbe_header`, the frame buffer, the cursor | mode, background, characters, conversions, line feed, scrolling | nothing behind a graphic screen changes, and of the text memory no more than as much again as the screen; what is printed reads as on a terminal, in every mode; numbers read as what they are |
| Floppy driver: `fd_ini`, `fd_seek`, `fd_in`, `fd_out`, the motor | the output register and the copy `fd_estado`; the controller's state | calls, each a series of bounded polls | the controller found is the one that is there; commands arrive whole; the motor stops; calls return |
| ext2 reader: `string2file_desc` (a program for the host) | the block size, what has been read | one search of the root directory | the file found is the one asked for; a file that is there is found |
| Exceptions and boot.S; keyboard and ramdisk stubs; pipes and VBE calls; programs; build files | see section 9 | | no behaviour of their own, or no source |

How they interact. A task enters the kernel in four ways. INT 0x40 and IRQ 0 are *task
gates*: the processor itself switches to the kernel tasks `sys_call` and `sys_control`,
which end by jumping to `task_control`; that one picks `r_tareas[t_indice]` and jumps
to it. INT 0x41 and IRQ 1 are *interrupt gates*: `int_soft_speed` and `int_hard_17` run
on the interrupted task's own kernel stack. The global `t_indice` is how all of them know
for whom they work. Nothing is locked: the kernel tasks run with interrupts disabled, and
what makes calls atomic is that they do. The exception is `SYS_HLT`, which enables
interrupts inside `int_soft_speed`.

What is hard here. The protocol between client and driver is spread over four fields and
several calls, with the clock between any two instructions of a program; the busy bits are
changed by the processor and put back by `task_control` after a jump from which
it returns only when another jump comes back; a registered function runs in the middle of
another task; the tables are filled by functions whose failure nobody looks at; and results
are dropped or left uninitialised in places. Outside the kernel's
core, the floppy driver polls a controller that may be absent or slow, and the ext2 reader
computes positions in an image from numbers it has just read. The list with the lines is
in `PROJECT.json`, "hazards".

## 2. Modules

| Module | What it is | Models |
|---|---|---|
| `Rendezvous` | abstract: what a client may expect of a device call | - |
| `Scheduler` | abstract: who may get the processor when | - |
| `Ipc` | the device calls and `task_control`, one action per call and outcome | exec.c 137-613 |
| `IpcRefinement` | `Ipc` with the two refinement mappings | - |
| `IpcProofs` | TLAPS proofs about `Ipc`: its invariants, its action properties, the two refinements | - |
| `TaskSwitch` | TSSs, task gates, busy bits, the 8259; below `Ipc`'s atomic steps | exec.c 612-663, 1173-1308; io.h |
| `TaskSwitchProofs` | TLAPS proofs about `TaskSwitch`, with the refinement | - |
| `PhysMem` | the bitmap, `ini_pag`, frames of `exec`, `SYS_MEM`, `check_addr` | mm.c, exec.c, main.c |
| `PhysMemProofs` | TLAPS proofs about `PhysMem` | - |
| `Interrupts` | masks, `r_int`, `int_hard_17` | int.c, exec.c |
| `Ports` | `r_port` and the permission maps | exec.c 1260-1344 |
| `Speed` | `Interrupts` and `Ports` composed: the calls of INT 0x41 a task can mix | exec.c 1246-1269 |
| `SpeedProofs` | TLAPS proofs about `Interrupts`, `Ports` and `Speed` | - |
| `TaskTable` | the three tables, `_main`'s loading loop, the string functions as it uses them | exec.c 729-1145, main.c 162-231, stdio.c 231-300 |
| `Boot` | `PhysMem` and `TaskTable` composed in `_main`'s order | main.c 84-231, exec.c 729-1145 |
| `BootProofs` | TLAPS proofs about `Boot` and, with it, about `TaskTable` | - |
| `Terminal` | abstract: what a reader of the screen sees of a text | - |
| `Screen` | the frame buffer, the background, `printk`, `itoa`, `putc` and its scrolling | stdio.c 13-457, file.c 29-154, main.c 84-265 |
| `Floppy` | the driver, one poll a step, against a controller | fd.c |
| `FloppyProofs` | TLAPS proofs about `Floppy` | - |
| `Ext2` | the reader, on any small image | fs.c |
| `Ext2Proofs` | TLAPS proofs about `Ext2` | - |
| `NatLemmas` | facts about naturals: induction, recursion, division | - |
| `MCIpc`, `MCPhysMem`, `MCSpeed`, `MCTaskTable`, `MCBoot`, `MCScreen` | values for constants | - |

### Ipc

State: `status`, `eax` (what a task finds in eax when it runs on), `mem` (its buffer, one
abstract value), `sys` (the driver's `sys_param`), and the fields of `r_drv`. `cpu` says
whether `task_control` searches or a task runs: this hides the TSSs, and `TaskSwitch`
shows separately that the switching implements the same `Scheduler`. Each call is one
action, because the kernel runs it with interrupts disabled from entry to the jump to
`task_control`; between calls a task computes (`Compute`, `Serve`) and the clock may take
the processor away (`Timer`). A refused call is an action too, with the code's order
of tests, because what it leaves in `eax` matters: `sys_read` and its siblings
drop the negative result. `asked` is a history variable (edx of the call a task is blocked
in); no guard reads it.

Assumed of the programs: a client opens, reads, writes and seeks with any descriptor,
length and buffer; a driver registers and answers; a sleeper issues SYS_WAIT. Whether a
pointer passes `check_addr` is a choice (`Faults` names the checks that may fail).
`HonestCount` says whether a driver reports at most as many bytes as it was asked for.
`Flat` is the hypothesis that no task both calls and serves: the three programs of the
repository are of this kind, the kernel does not enforce it, and section 5 shows
what happens without it.

### TaskSwitch

`tr` is the task that runs, `busy` the TSSs marked busy, `b_link` what a task gate wrote,
`tss` and `acceso` the locals of `task_control` (its stack survives between jumps), `ctx`
the frames on each task's kernel stack, `irr` and `isr` the requests and in-service bits of
the 8259. Far jumps, gates and the controller are the processor's part and are marked
external in the map. `stopped` becomes true when the processor would fault.

### PhysMem

Frames are numbers and `mem_map` the set of those marked. `testmem`'s three loops are
written by their closed form; `buscar_mem` searches chars of the bitmap as the code does,
from a few frames before `mem_off`. `ini_pag` takes frames one by one and uses them as if
they were consecutive, and the model keeps the two apart.

### Interrupts, Ports, Speed

Addresses are abstracted to the task they belong to, a mask to the set of closed lines.
`t_int`, the copy `int_up` works on, is zero at boot and never sees what `set_8259` and
`task_control` write. `Ports` keeps the chars of the maps, since the code's tests look at
whole chars; `Speed` adds the clock and the keyboard between the calls.

### TaskTable

The three tables, filled in the order `_main` fills them, with any modules. A string is the
sequence of the characters before its zero; `Path` gives a program's path as such a
sequence, of which only the length and the fact that different paths differ matter. `strcpy`
does not copy the zero, so a shorter name leaves the tail of the longer one below it: that
is why `r_tareas[].name` is a string and not a program's name. What `strcmp` returns for two
different names of one length is what its stack slot held; `ret` follows that slot as the
objects of the repository lay it out. Before the loop it holds an address, which `_main`'s call
of `add_int` left there; a comparison that comes out equal leaves 0, and the next one finds it
unless `exec` and its `printk` came in between, which leave a pointer. A module with more pages than `MAX_PAG_DRIVER` is
refused. `execd`, which `_main` would use for start.bin with MODE_KERNEL, differs from `exec`
in segments that no table of the module shows.

### Boot

`Boot` extends `PhysMem` and takes `TaskTable` as an instance, with `phase` for its `step` and
`list` for its `mods`. `PhysMem`'s own `mods` is no state of the program here but follows from the
list: the modules `_main` has still to look at, with start.bin, put aside, at the end
(`Waiting`, `Pending`). `PhysMem` is the part that is extended because the proofs cite its theorems,
which the prover cannot do with those of an instance. `exec` is one step of both parts: it takes frames and entries, and what ties them is `space`, the page directory in cr3
of each TSS (0: the kernel's). `exec` writes the task's entry even when there was no TSS or
no descriptor left, as the code does, and the frames are gone all the same. The module says
what neither part can: that the entry `task_control` jumps to ends, over gate, descriptor,
TSS, directory and page table, at the frames of the program it is named after.

### Screen

`mem` is the memory from `vbe_header.addr` on, three times as long as the screen, so that
writes beyond it can be seen; an entry is a pixel, or a character with its attribute. Before
anybody writes it holds `Leftover`, something else at each address: nothing is assumed of what lies on
the screen or behind it. `open_mod_bmp` (file.c 105-154) is not modelled: there is a picture
of some size, or there is none and `cls` runs.
`printk` puts a character, or starts a conversion, whose characters `text` holds until
`putc` has drawn them: %d, %u and %x through `itoa`, %s for strings, %c like any character.
An `int` has `Bits` bits and the numerals are a parameter, so that wrap-around and the least
number are met; `Spelled` is the loop that divides, as a recursive function, and the two
reversals of `itoa` cancel out. `Scrolled` keeps the copies as the code makes them. In
text mode `putc` moves twice the text and clears nothing: 3680 bytes behind the screen of 4000 are
rewritten at each scroll, and what lies there comes in as the last line. `OnlyTheScreen` is
therefore stated apart for the two: nothing changes behind a graphic screen, and nothing behind twice
a text screen. The refinement says that `printk` implements `Terminal`: over a picture a letter
adds its ink to what was there, in text it replaces it. `Terminal`'s `below` are the lines
that wait below the screen: a blank one over and over on a graphic screen, on a text screen
the memory's next lines, whatever they hold, the last of which repeats itself. Only the colour depths that the console can draw are modelled (text,
24 and 32 bits).

### Floppy

One step is one poll of the status register, because that is where the controller's time
and the driver's patience meet: `i` counts the polls that are left, `fdc.wait` those the
controller still needs. The controller is external: absent (its ports read zeros or ones),
or one of three kinds, with a delay that is chosen anew after each byte up to a bound of the
machine. It ignores bytes it is not ready for, and it keeps the place it has in a
command, so a lost byte leaves it waiting. `fd_out` and `fd_in` end their loops on one test and
judge the result by another (`c == 0`); the disjuncts of the two actions are these
combinations. `_main`'s call of `fd_ini` is commented out and `fd_seek` has no caller: the model
calls them as a program that uses the driver would, `fd_seek` after a successful `fd_ini`.

### Ext2

An image is its magic number, block size, number of groups, inodes per group and the entries
of the root directory, of any content; `DescriptorAt` and `InodeAt` say what lies at a byte of it, so that
the reader's arithmetic is taken as written and reads what is there, also where it is
wrong. `directory` looks at which inode that is: the root, whose entries are walked through; zeros, an
inode of no size; or, with larger blocks and more than 32 groups, some other inode, whose block may
read as anything (`Others`), also as an entry of length 0, at which the walk stays for ever. The walk is
one step an entry. Fields are declared
`unsigned long`, hence the layout is that of a 32-bit host; the root directory has one
block, and the first 1024 bytes are no boot loader.

## 3. Runs

Twelve runs. Ten must pass, two must find a violation (section 5).

| Run | Instance | Question | Properties |
|---|---|---|---|
| `ipc_flat` | 2 clients, 1 driver, full task table | are device calls safe, and do they implement the two abstract specifications? | TypeOK, KernelTasksAsleep, OneDebtPerCaller, SomeRunnable, OnlyTheReplyTouches, ImplementsRendezvous, ImplementsScheduler |
| `ipc_edges` | 1 client, 2 drivers with one name, failing pointers | and when registrations collide and checks fail? | NamesKeepResolving, ImplementsRendezvous |
| `ipc_live` | 2 clients, 1 driver, 1 sleeper, transfers of 2 | are calls answered, does everybody run, does an answer fit? | CallReturns, Dispatched, CopyFits |
| `task_switch` | 3 tasks | does the switching at processor level do what `Ipc` assumes? | NeverFaults, ServesItsCaller, StackBound, Acknowledged, ImplementsScheduler, ReadyRuns |
| `physmem` | 28 or 29 frames, up to 2 modules | are frames unique and where they are looked for, and is none lost? | NoFrameTwice, FramesInPlace, OwnTableChecksOwnFrames, NothingLost |
| `speed` | 2 tasks, vectors 16, 17, 20, 4 ports | do registrations, ports, clock and keyboard disturb each other? | ToldOwners, ClockStaysOn, OwnSpace, LostOnlyEarly, MapsAgree, OpensExactly |
| `boot` | 2 places for tasks, up to 4 modules | does every entry run its own program, also when tables are full and modules are refused? | BootTypeOK, ReachesItsProgram, FramesApart, EveryoneReached |
| `screen` | 2 x 2 letters in graphic modes, 2 x 3 in text, ints of 3 bits | does what is printed stay where it belongs, read as on a terminal, and numbers as themselves? | OnlyTheScreen, ImplementsTerminal, ReadsBack |
| `floppy` | 3 polls, delays 0, 2 and 4 | does the driver get along with controllers that are absent, fast, and just in time? | FindsController, SeeksWhereAsked, MotorOff, CallsEnd |
| `ext2` | 2 or 33 groups, up to 3 entries, others of up to 2 | does the reader find what is there? | FindsTheEntry |
| `ipc_nested` | a driver that calls a driver | violated: CallersOnRecord | CallersOnRecord |
| `task_table_start` | start.bin listed, up to 2 modules | violated: RunsStart | RunsStart |

What holds, in words: a driver serves one client at a time and nobody's call is lost as long
as drivers do not call drivers; the busy bits, the back links and `t_indice` stay consistent
through every order of calls, clock, keyboard and halts; no frame and no vector
ends up with two owners; the console scrolls and wraps like a terminal; the kernel's unchecked results (full tables, refused
modules, controllers that time out) do no harm inside the stated conditions.

Why the bounds are enough.

- Two clients and one driver are the smallest system in which a client can find the driver
  busy with another; two drivers with one name the smallest in which a name is ambiguous.
  A third client would only repeat the second: `id_ret` holds one task, and the proofs
  of section 6 hold for any number.
- `MAX_DRIVERS` is 4 or 5, so that the driver table has one or two usable entries:
  descriptors below 3, unused and beyond the end are all passed. More drivers than entries
  are in no run (the three-driver instance is beyond five minutes); the proofs cover them.
  `MAX_TASK` is one more than the last task in `ipc_flat` (the index wraps at the end of the
  table) and larger in the others (it wraps at the first empty entry).
- Transfers of 0 and 1 bytes, and the refused length `MaxXfer + 1`, tell the code's tests
  apart; `ipc_live` uses 2 so that the minimum of length and size is not always one of
  them.
- `physmem` scales the machine down and keeps its shape: the kernel starts where the first
  megabyte ends, the video window straddles that border, the window of the program lies in
  table 0 above the kernel, the last char of the bitmap is incomplete in one of the two
  sizes. Modules of one and two frames and one that `exec` refuses.
- `task_switch`: three tasks, so that one can be running, one halted in `SYS_HLT`, and one
  waiting, under a search that passes over the middle one. A keyboard request is a single
  bit in the controller, as there.
- `speed`: one vector the kernel owns (16), the keyboard's, one that is free; two chars of
  two ports, so that a port has a neighbour in its char and one in the other.
- `screen`: letters of one by two pixels on five rows of pixels, so that half a letter's
  height is left below the last line; a picture larger and one smaller than the screen,
  with its displacement; three lines of text, so that the scroll brings in two different
  lines from behind the screen before the last repeats, and a text memory in which no two
  places hold the same, so that a copy from a wrong place shows. Numerals 0 and 1, and a as the one more of %x: numbers
  of up to three digits in either base, among them the least one of three bits.
- `boot`: two more modules than there are places, of any of four names (one picture, one
  start.bin, two drivers of which one has a path as long as start.bin's), each of two frames
  or too long, on a machine with room for all of them.
- `floppy`: three polls stand for a million; a controller may be ready at once, in the last
  poll, or too late, after each byte anew. Heads 0 and 1, and 64, which the shift turns into 0.
- `ext2`: groups of 8 and of 16 inodes, so that inode 16 is the last of its group in both and
  11 is in either group; three entries, so that an unused one can come before, between and
  after; blocks of 1 KB, where `group` is right, and of 2 KB, where it is not; 2 groups, for which it
  then reads zeros, and 33, for which it reads the last group's descriptor (1024 bytes further on are 32
  descriptors) and with blocks of 1 KB must still find the root.

`MaxXfer`, `MaxModules`, `MaxEntries`, `MaxOthers`, `GroupCounts`, `Pictures`, `RamBytes`, `Lengths`, `Requests`, `Vectors`, `Cylinders`,
`Heads` and `Data` bound inputs; no variable of a model is cut off by a bound that the code
does not have.
`CHECK_DEADLOCK FALSE` is used where the system really stops: `_main` returns without
modules or without /boot/start.bin (`Boot`, `TaskTableStart`), `int_hard_17` calls address 0
when no driver has registered (`Speed`), and the ext2 reader ends (`Ext2`). Each property of a passing run has a mutant, a
plausible wrong version of one definition, that breaks it.

## 4. Fairness

- `Ipc`: WF of `Scan` (task_control's loop is the kernel's code and is never interrupted);
  WF of `Timer` (IRQ 0 is enabled by `task_control`, 0xdc, and programs run with the
  interrupt flag set); SF of `SysRetAnswers` for each driver: a driver that again and again
  gets the processor finishes its service. That last one is an assumption about the
  programs, without which no call need ever return. Nothing is assumed of clients.
- `TaskSwitch`: WF of the kernel's own steps and of the clock's request; SF of
  `TimerInterrupt`, since the processor looks for a request between any two instructions
  and the keyboard's handler disables it only for a while. No fairness for programs: a task
  may loop for ever.
- `Boot`: WF of `TaskControl`: `task_control` searches for ever with interrupts disabled.
  `_main` before it is not assumed to make progress.
- `Floppy`: WF of the driver's own steps, which are loops without a wait; nobody needs to call
  it, and nothing is assumed of the controller.

## 5. What the code does not keep

Each of these runs checks one statement of the repository and finds a behaviour against it.

- `ipc_nested` (`CallersOnRecord`): a driver that calls another driver is WAITING like an
  idle one. A second client is accepted, `id_ret` is overwritten, and the first client
  sleeps for ever.
- `task_table_start` (`RunsStart`): `_main` enters `task_control` only if it has found start.bin,
  and otherwise returns after main.c:223's "main() : No se encontro el modulo". But `strcmp` returns
  an uninitialised variable for different names of equal length. With /boot/start.bin and
  /boot/video.bin listed in this order, the first comparison leaves its 0 where the second finds
  it; video.bin takes start.bin's place (main.c:194), is loaded as the last task, and the system
  starts without start.bin and without the message. In the order of the shipped menu.lst,
  keyb.bin comes between, and the `exec` for it leaves something else in that place.

### Divergences without a run

- exec.c:218: `sys_ret` copies as many bytes as the driver's `count` says now, where exec.c:418
  computes the "datos a transferir" from what the caller had asked for and had checked.
  `CopyFits` in `ipc_live` holds because that instance assumes drivers that never raise
  `count` (`HonestCount`); with `HonestCount = FALSE` TLC finds the overlong copy at once.
- exec.c:1203: the assembly under "restauro el registro cr3" in `int_hard_17` names the saved
  value as an *output*. The compiled kernel loads edx, which holds the right value only
  because the function of keyb.bin saves edx. `OwnSpace` assumes `KeepsEdx`, in the run and in
  its theorem; with `KeepsEdx = FALSE` it is violated.
- fd.c:88 says "Si está activo el bit 7 puedo escribir en los registros, sino no", and
  `fd_out` writes the byte after its last poll unless both bits it looks at are 0; `fd_in` reads
  on any status but 0. A controller slower than a million polls gets or loses bytes that
  neither function reports: `FindsController` and `SeeksWhereAsked` hold for `Timely`
  controllers, and without that condition they do not.
- fd.c:153: `fd_seek` shifts the head in an `unsigned char` and compares then, so that heads 1
  to 63 are refused, and 64, 128 and 192 pass as head 0.
- fs.c:21 "Archivo no encontrado" is reported for files that exist: `group` looks for the
  descriptors one *block* behind byte 1024, which is right for blocks of 1 KB only, and an
  unused entry with the same name after the live one hides it (`NotFoundIsAbsent`).
- fs.c:195: with larger blocks that place is 1024 bytes behind the first descriptor. If there are
  more than 32 groups, it is the descriptor of a later one, and lines 260-269 walk through the
  block of that group's second inode as if it were the root's. What is found there need not be in the
  root (`FoundIsThere`); `FindsTheEntry` excludes such images (`OnlyTheRoot`).
- fs.c:272: the file's group is taken with `%` where it is a division of n - 1, and
  `inode` does not reduce the number modulo the group's size. Off the group where both cancel
  out, `desc->ino` is some other inode (`InodeIsTheFiles`).
- fs.c:139: `main` copies the name up to a '/' or a *character* '0' and not up to the
  terminating zero; `fichero[255]` is one too short for a name of 255 characters; the walk of
  a directory longer than one block leaves the block that was read. None of it is modelled.
- exec.c:153: `sys_call` drops the negative results of `sys_read`, `sys_write` and
  `sys_seek`, so a refused program finds the call's number in eax. exec.c:383 says "Vamos a
  retornar siempre negativos si hay error"; `ErrorsReachCaller` in `Ipc` states it. Every
  refused transfer shows it, so no run is spent on it.
- file.c:41 says "Fijo los limites para no escribir mas alla de la pantalla", and the
  displacements at 47 and 81 come on top of those limits: a picture as large as the screen
  is written beyond its end. `bmp2vbe` in `Screen` does that.
- stdio.c:342 moves twice the text: each scroll rewrites 3680 bytes behind the text screen, and
  what lies there becomes the last line, which nothing clears (`Screen`, above).
- stdio.c:373: a character above 127 is negative, and its glyph lies before the table.
- exec.c:1317 and 1335 test `r_port[aux] && (1 << id)`: any free port in the same
  char lets a task take a port that is taken, and anybody may give back any port. The
  definitions `OnePortOneTask` and `OnlyTheHolderGivesBack` state what the comments say;
  `speed` assumes polite tasks instead and checks the arithmetic.
- int.c:28, exec.c:1251: the first registration of a line writes a mask derived from
  zero, so it opens every line. This is what `ClockStaysOn` rests on; `EnablesOneLine`
  states what the name `int_up` promises.
- exec.c:1201: a key pressed before the keyboard driver has registered makes `int_hard_17`
  load page directory 0 and call address 0. `LostOnlyEarly` shows that it cannot happen
  after the registration.
- exec.c:341 and 604: `check_addr` looks at the table entry only, and all tasks share the
  tables above the first. An address SYS_MEM opened for one task is accepted from another.
  `ChecksOwnMemory` states what the comment says; `OwnTableChecksOwnFrames` is what holds.

## 6. Proofs

Every module whose name ends in `Proofs` holds proofs, on top of the facts in `NatLemmas`. Each
theorem holds for every value of the constants that the named assumptions admit, and TLC
evaluates those assumptions in the runs. Every invariant of a passing run is among them.

| Theorem | Module | Statement |
|---|---|---|
| `TypeCorrect` | `IpcProofs` | `Spec => []TypeOK` |
| `NoCallerLost` | | `Flat /\ Spec => []OneDebtPerCaller` |
| `KernelStaysAsleep` | | `Flat /\ Spec => []KernelTasksAsleep` |
| `ScanEnds` | | `Flat /\ Spec => []SomeRunnable` |
| `OnlyRepliesTouch` | | `Flat /\ Spec => OnlyTheReplyTouches` |
| `NamesKept` | | `Spec => NamesKeepResolving` |
| `AnswersFit` | | `Flat /\ HonestCount /\ Spec => CopyFits` |
| `CallsSchedule` | | `Flat /\ Clients # {} /\ Spec => ImplementsScheduler` |
| `CallsRendezvous` | | `Flat /\ Spec => ImplementsRendezvous` |
| `NoFault` | `TaskSwitchProofs` | `Spec => []NeverFaults` |
| `CallerServed` | | `Spec => []ServesItsCaller` |
| `TwoFrames` | | `Spec => []StackBound` |
| `NothingPending` | | `Spec => []Acknowledged` |
| `SwitchingSchedules` | | `Spec => ImplementsScheduler` |
| `MemoryKept` | `PhysMemProofs` | `Spec => []MemInv` |
| `NoFrameHeldTwice` | | `Spec => []NoFrameTwice` |
| `FramesStayInPlace` | | `Spec => []FramesInPlace` |
| `OwnTableIsOwn` | | `Spec => []OwnTableChecksOwnFrames` |
| `NothingIsLost` | | `Spec => []NothingLost` |
| `OwnersKept` | `SpeedProofs` | `SpeedSpec => []ToldOwners` |
| `ClockNeverMasked` | | `SpeedSpec => []ClockStaysOn` |
| `KeysLostOnlyEarly` | | `Keyboard \in Vectors /\ SpeedSpec => []LostOnlyEarly` |
| `HandlerInItsSpace` | | `KeepsEdx /\ SpeedSpec => []OwnSpace` |
| `OpensOnePort` | | `SpeedSpec => OpensExactly` |
| `PortMapsAgree` | | `Polite /\ SpeedSpec => []MapsAgree` |
| `BootKept` | `BootProofs` | `BootSpec => []BootInv` |
| `BootTypes` | | `BootSpec => []BootTypeOK` |
| `EntriesReachTheirPrograms` | | `BootSpec => []ReachesItsProgram` |
| `ModulesKeepTheirFrames` | | `BootSpec => []FramesApart` |
| `MotorIsOff` | `FloppyProofs` | `Spec => []MotorOff` |
| `MachineFound` | | `Spec => []FindsController` |
| `SeekArrives` | | `Spec => []SeeksWhereAsked` |
| `EntryFound` | `Ext2Proofs` | `Spec => []FindsTheEntry` |

**Ipc.** Assumptions: `TaskAssumption` and `DataAssumption`, and `Flat` where it is written.
Without `Flat` `NoCallerLost` is false (`ipc_nested`). `OneDebtPerCaller` says that the clients
asleep and the drivers awake pair off through `id_ret`. It is not inductive: a call could find
a driver WAITING that has a second entry in `r_drv` still naming an earlier client, or a task
that is no driver could own an entry. `IInv` adds what is needed: a driver has one entry and
entries 0 to 2 are never used (`OneEntryPerDriver`); a driver that has not registered is
awake (`UnregisteredRuns`), so nobody can hand it a call; whoever has the processor is RUNNING
(`ProcessorRuns`), so that a call by it makes one more sleeper and not the same one again;
tasks are RUNNING or WAITING only (`TasksNeverSleeping`); and the entry and the driver's
`sys_param` agree on the call (`CallsAgree`), so the answer to a read goes to the client
that is on record. `KernelTasksAsleep` belongs to it because `sys_reg` sets `id_ret` to 0,
which is `task_control`'s own entry. The step is split into quiet steps (nothing of the
protocol changes), calls, answers, registrations and waits, one lemma each. `SomeRunnable`
follows from `IInv`: a client is awake, or asleep and then its driver is awake. The searches in
`r_drv` are written with CHOOSE; the lemmas `FreeSlotIsFree`, `LookupFirst` and `SlotOfIsItsEntry`
say what they return.

The action properties and the refinements build on `IInv`. `NamesKeepResolving` needs one more invariant, `OpenFirst`: the
open entries are the first ones and a free entry has no name, so a registration always lands
behind every entry that a name resolves to. `OnlyTheReplyTouches` goes through `AnswerTouches`,
which says what SYS_RET does in terms of the debt it pays. `CopyFits` needs `Fits`: whoever serves a
read reports at most what the client on record asked for. The code limits the count when it
hands the read over (`LimitType`); from then on only the driver changes it, and nobody else's
call can replace the client, because the driver is awake. `HonestCount` is needed for the
driver alone, and section 5 says that the code does not enforce it. For `Scheduler` what matters is
that the tasks with a runnable status are user tasks and never none (`SomeUserAble`, from
`KernelTasksAsleep` and `SomeRunnable`); hence the hypothesis that there is a client. For `Rendezvous` the
mapping's `serving` is found through two tables, and `ServingIs` (from `OneEntryPerDriver`)
says in one line what it finds; then an accepted call is `Call`, an accepted registration
`Register`, SYS_RET `Reply`, what leaves only a result `Local`, and the rest stutters.

**TaskSwitch.** Assumption: `SwitchAssumption`. Nothing in `NeverFaults` says why a target is
never busy; `Segments` does: while `task_control` searches, its own segment is the only busy
one, and after its jump exactly the task it chose and whoever runs now are busy, and it will
put back the former's descriptor. So the restore is of the right task, every far jump goes to
an available segment, the back link of `sys_call` is `t_indice`, and the mapping's `turn` is the
task that runs. `StackBound` needs the exact stacks (`Stacks`): the keyboard may nest on
`int_soft_speed` only in the `hlt` of SYS_HLT, which the same interrupt ends. `Acknowledged`
needs `InService`: a task's code runs with the keyboard in service only as `int_hard_17` before
its `reset_8259`, and that with interrupts disabled, so neither the clock nor a `hlt` meets it.
`SwitchingSchedules` is the safety part of the refinement and is proved step by step from
the same invariant: `Scan` is `Offer`, the jump of `sys_call` is `Call`, the clock's gate is
`Preempt`, the rest stutters. With `CallsSchedule` both levels meet in the same `Scheduler` by
proof, which is what licenses `Ipc`'s atomic calls.

**PhysMem.** Assumption: `MemAssumption`. Its clauses are properties of the machine the code is
built for: the memory is not larger than the address space, a module has at least one byte, the
window of the program lies above the kernel in table 0, the kernel and its page tables fill more
frames than lie below the window's end (there are 1024 of them), and the kernel is longer than the
`Slack` frames that `buscar_mem` steps back before `mem_off` (the shipped kernel.bin ends in frame
0x16c, the step is ten), so that no search meets the video window or the frames of the first
megabyte. `Enough` memory for the modules is part of `Init`. None of the five properties is
inductive, since all of them depend on *which* frame a search finds. `MemInv` says where
everything lies: `Marked`, that the bits set during boot are those from the kernel to the last
frame used; `Placed`, that the directory, the tables and three frames for each task follow each
other from `mem_off` on; `ImagesApart`, that modules and images lie between the kernel and `mem_off`,
none on another; `Room`, that there is memory for the modules still to come; `Granted`, that what
SYS_MEM gave was free, has one owner, and is exactly what the user bits beyond the program's
window stand for. It rests on what the functions return: `TestmemExact` for the three probe loops,
`WholeChars`, `SearchedIs` and `Buscar` for the search of the bitmap in chars, `TakenRow` for a row of
such searches (the next frames, one after the other), `LayoutIs` for where GRUB puts modules.
With `MemInv` a frame's holder is told by its number: kernel, modules and images, the kernel's
tables, three frames a task, and grants outside all of these; `NoFrameTwice` compares these
regions pair by pair. `KernelMapIsIdentity` follows from the frames of the tables being
consecutive, which `ini_pag` uses and nothing checks.

**Interrupts, Ports, Speed.** Assumptions: `InterruptAssumption` and `PortAssumption`; that the
keyboard's vector can be registered is a hypothesis of `KeysLostOnlyEarly` alone.
`IntInv` adds to the properties that the keyboard's entry has function and directory of one
task (`KeyboardEntry`), that nothing is registered or handled before `task_control`
(`BootIsQuiet`), that a lost key found nobody registered (`LostUnowned`), and that `int_up`'s copy
of the mask is always empty: the last is the reason why no registration ever masks the clock.
`OwnSpace` is inductive on top of it, for functions that keep edx. The theorems are about the
system in which the port calls are mixed in; the lemma `Composed` carries the invariant over. `OpensExactly` is arithmetic:
setting or clearing bit b of a char of any width changes no other bit, neither below
(`FlipUp` with `AddLow`) nor above (`AddHigh`, `HigherPower`: no carry), and two ports differ in
their char or in their bit (`PortPlace`). It needs no assumption on the callers. `MapsAgree`
does: for `Polite` tasks it is inductive together with `OnePortOneTask` (`PortInv`), since
giving back a port that another task had too would leave that task's map alone.

**Boot.** Assumption: `BootAssumption`, which is `TaskTable`'s `TableAssumption`; the gdt has twice as
many entries as there are tasks, as gdt.h:5 and tss.h:9 define them. `BootInv` has four
parts. `ListInv`: what is pending is part of GRUB's list. `Phases`: how far `_main` and the memory
are. `TablesInv`: there are n tasks such that the n-th entry of each table is the n-th task's
(`Filled`), the first three are the kernel's, with the selectors that `_main` puts into the gates
and the code writes as 0x20 (`KernelFirst`), and the directory in the i-th TSS is that of the
program that was loaded as number i - 3, whose image is a listed module's (`Spaces`). And `MemInv`,
as soon as a module is listed. The hard part of `Filled` is the full table: the gdt is full two tasks
before the TSSs are, and a task created then takes a TSS, gets selector 0 and leaves its entry of
`r_tareas` free for the next one, so that its name may be overwritten in part. Such an entry
is never `Started`, and TSSs in use can run ahead of tasks (m and n in `Filled`). What
`strcmp` reads from the stack does not matter to any of it: whichever way a comparison goes, the
pending list loses its first module or moves it to the end (`Leads`, `Rearranged`), and `MemInv`
survives both. So the frames of modules that were skipped, refused or put aside stay theirs.

**Floppy.** Assumption: `FloppyAssumption`. `FloppyInv` says that while a byte is polled for, the
polls left exceed those the controller still needs (from `Timely`), so that a timeout never
happens with a controller that is there; which bytes of a seek are still to be sent for each
place the controller has in the command (`SeekUnderWay`); and that without a controller
the answer is never taken for a version (`AbsentIsFound`). The number of polls, delays and
cylinders are arbitrary.

**Ext2.** Assumption: `Ext2Assumption`, of which the proof uses that there is a group and that a
group has more inodes than the root's number. `ReaderInv` says what the walk knows of the entries
it has left behind (`Walked`: the last one of the name is kept, and if all of the name are in use
nothing found means that none was there) and at each place of the program (`Reading`). With blocks of
1 KB the whole directory is walked through, because the root's inode is the only one at
the position the reader computes (`RootFound`), for any number of groups and inodes. With larger
blocks and at most 32 groups the place where `group` looks is behind the last descriptor
(`Blocks`, by the powers of two of `NatLemmas`' `Doubling`), so it reads zeros, and at what it then
takes for an inode there is none (`ZerosFound`, `NotInFront`); hence the walk never leaves the root's
entries (`RootOnly`), whatever other inodes hold.

Only model-checked are the action properties and the refinement of `Screen` (`OnlyTheScreen`,
`ReadsBack`, `ImplementsTerminal`), and all liveness (`CallReturns`, `Dispatched`, `ReadyRuns`,
`EveryoneReached`, `CallsEnd`): the prover handles neither ENABLED nor fairness. Induction over data is
done where a set can carry it: `NatLemmas` has it in the form that a set of naturals closed under
successor holds them all, and recursive functions on the naturals through it (powers of two,
`buscar_mem` in a row, GRUB's layout). What would be left for `ReadsBack` over all widths is such an
induction over the digits of a number, and for the other two the composition of `Scrolled` and `putc`.

## 7. Running it

    tlc -config IpcFlat.cfg MCIpc          # and so on, as PROJECT.json's runs say
    tlapm IpcProofs.tla       # and NatLemmas, TaskSwitchProofs, PhysMemProofs, SpeedProofs,
                              # BootProofs, FloppyProofs, Ext2Proofs

The largest run, `screen`, has 434 000 states and takes two minutes on two cores; `ext2` has
129 000, `boot` 75 000, `task_switch` 17 000 and `floppy` 7 000. The proofs take a few minutes.

## 8. Plan

Done: the core (`Ipc`, its invariants, action properties and both its refinements proved), the
switching below it with the proof that it implements the scheduler, memory, vectors and ports, task
creation, boot as a composition, floppy, ext2 reader, all with their invariants proved; the console
with conversions, model-checked.

Left, in this order:

1. Proofs about the console: how far it writes (`OnlyTheScreen`), which is arithmetic on the
   positions `putc` and `bmp2vbe` compute, then the refinement of `Terminal`, action by action.
2. `ReadsBack`: the digits of `Spelled`, by induction over their number.

Runs are kept few: a new module joins an existing run or replaces one whose
question it answers better.

## 9. Not modelled, and why

- Exceptions and boot.S: print and halt. The tables' initial contents are `TaskTable`'s Init.
- The calls SYS_PIPER, SYS_PIPEW, SYS_VBE_* and SYS_DEBUG: they keep no state but `r_pipe`, which
  only a `printk` reads.
- Register contents at instruction granularity, the size of a C stack frame against the 200
  bytes of `int_pila`, floating point (every switch sets CR0.TS and nothing clears it).
- Port numbers beyond the permission maps and other accesses outside an array: what lies
  there is the linker's choice.
- Glyphs and colours are data; `tputc` has no caller; `strcat` has one, on a cleared name, and
  `sys_reg` in `Ipc` stands for it. `int_down`, `reg_int`, `driver_libre` have no caller.
- keyb.c and ramdisk.c: stubs that nothing calls or that do not compile.
- fs.c's `main` and directories of more than one block.
- start.bin, keyb.bin, video.bin: no source in the repository; `Ipc` models what the calls
  allow them to do.
