-------------------------------- MODULE Ipc --------------------------------
(***************************************************************************)
(* The task switcher and the driver calls of exec/exec.c: the round-robin  *)
(* loop of task_control() and the system calls that sys_call() runs on     *)
(* behalf of the task r_tareas[t_indice].                                  *)
(*                                                                         *)
(* A program that serves a device registers it (sys_reg) and sleeps; a     *)
(* client's sys_read / sys_write / sys_seek puts the client to sleep and   *)
(* wakes the driver; the driver's sys_ret hands the answer over, wakes the *)
(* client and puts the driver back to sleep.  There is no queue: the only  *)
(* record of who waits for whom is r_drv[].id_ret.                         *)
(*                                                                         *)
(* task_control, sys_call and sys_control run with interrupts disabled     *)
(* (execs() gives their TSS eflag 0), so a system call is one step; user   *)
(* tasks (eflag 0x200) can lose the processor between any two of theirs.   *)
(* The TSS-level switching below "cpu" is the subject of TaskSwitch.       *)
(***************************************************************************)
EXTENDS Integers

CONSTANTS
    MAX_TASK,      \* entries of r_tareas (include/tss.h)
    MAX_DRIVERS,   \* entries of r_drv (include/tss.h)
    LastTask,      \* r_tareas[0 .. LastTask] are loaded when task_control starts
    Clients,       \* tasks whose program opens, reads, writes and seeks
    Drivers,       \* tasks whose program registers a device and answers for it
    Sleepers,      \* tasks whose program calls SYS_WAIT
    DevName,       \* the name each driver registers
    NoName,        \* the empty name of an r_drv entry never used
    MaxXfer,       \* largest transfer the system calls accept (4096 in exec.c)
    Faults,        \* pointer checks that can fail, by the code they return
    Data,          \* abstract contents of a buffer
    Rets,          \* abstract values a driver leaves in sys->ret
    HonestCount    \* TRUE: a driver never reports more bytes than it was asked for

RUNNING  == 1
STARTING == 2
SLEEPING == 3
WAITING  == 4

SYS_READ  == 5
SYS_WRITE == 6
SYS_WAIT  == 7
SYS_SEEK  == 8
SYS_RET   == 102

KernelTasks == 0 .. 2          \* task_control, sys_call, sys_control
Tasks       == 3 .. LastTask   \* the modules exec() loaded
FirstDev    == 3               \* entries 0, 1 and 2 of r_drv are kept for later
DevSlots    == FirstDev .. MAX_DRIVERS - 1
Slots       == 0 .. MAX_DRIVERS - 1
Names       == {DevName[d] : d \in Drivers}

ASSUME TaskAssumption ==
    /\ LastTask \in Nat /\ LastTask >= 3
    /\ MAX_TASK \in Nat /\ LastTask < MAX_TASK
    /\ Clients \subseteq Tasks /\ Drivers \subseteq Tasks /\ Sleepers \subseteq Tasks

ASSUME DataAssumption ==
    /\ MAX_DRIVERS \in Nat /\ MAX_DRIVERS > FirstDev
    /\ MaxXfer \in Nat
    /\ Rets \subseteq Int
    /\ Data # {}
    /\ HonestCount \in BOOLEAN
    /\ DevName \in [Drivers -> Names] /\ NoName \notin Names
    /\ Faults \subseteq -7 .. -1

VARIABLES
    cpu,       \* "control": task_control is scanning; "user": task t_indice runs
    t_indice,  \* index in r_tareas of the task that runs
    status,    \* r_tareas[].status
    eax,       \* eax register in the TSS of each task
    asked,     \* edx of the transfer a task is blocked in, 0 when it is in none
    mem,       \* contents of the buffer of each task
    sys,       \* the sys_param structure of each task: call, count, ret
    id_drv,    \* r_drv[].id_drv, 0 when the entry is free
    arch,      \* r_drv[].arch
    size,      \* r_drv[].size
    id_ret,    \* r_drv[].id_ret, whom the driver must answer
    call,      \* r_drv[].call
    buf_ret    \* r_drv[].buf_ret, as the task that owns the buffer

sched == <<cpu, t_indice>>
drv   == <<id_drv, arch, size, id_ret, call, buf_ret>>
vars  == <<cpu, t_indice, status, eax, asked, mem, sys,
           id_drv, arch, size, id_ret, call, buf_ret>>

Init ==
    /\ cpu = "control"
    /\ t_indice = 0
    /\ status = [t \in 0 .. LastTask |-> IF t \in KernelTasks THEN SLEEPING ELSE RUNNING]
    /\ eax = [t \in 0 .. LastTask |-> 0]
    /\ asked = [t \in Tasks |-> 0]
    /\ \E d \in Data : mem = [t \in Tasks |-> d]
    /\ sys = [t \in Tasks |-> [call |-> 0, count |-> 0, ret |-> 0]]
    /\ id_drv = [s \in Slots |-> 0]
    /\ arch = [s \in Slots |-> NoName]
    /\ size = [s \in Slots |-> 0]
    /\ id_ret = [s \in Slots |-> 0]
    /\ call = [s \in Slots |-> 0]
    /\ buf_ret = [s \in Slots |-> 0]

-----------------------------------------------------------------------------
(* task_control()                                                          *)

\* Mutant: the last task of the table is skipped.
NextIndexShort(i) == IF i + 1 = MAX_TASK \/ i + 1 >= LastTask THEN 1 ELSE i + 1

\* The index after i: wrap to 1 at the end of the table or at the first
\* entry whose task field is 0.
NextIndex(i) == IF i + 1 = MAX_TASK \/ i + 1 > LastTask THEN 1 ELSE i + 1

\* One turn of the do-while loop; on a runnable task it ends in ljmp(des).
Scan ==
    /\ cpu = "control"
    /\ t_indice' = NextIndex(t_indice)
    /\ cpu' = IF status[t_indice'] \in {RUNNING, STARTING} THEN "user" ELSE "control"
    /\ UNCHANGED <<status, eax, asked, mem, sys, drv>>

\* The clock interrupt enters sys_control, which jumps back to task_control.
Timer ==
    /\ cpu = "user"
    /\ cpu' = "control"
    /\ UNCHANGED <<t_indice, status, eax, asked, mem, sys, drv>>

-----------------------------------------------------------------------------
(* User programs                                                           *)

OnCpu(Who) == cpu = "user" /\ t_indice \in Who

\* A task writes its own buffer.
Compute(v) ==
    /\ OnCpu(Clients \cup Drivers)
    /\ mem' = [mem EXCEPT ![t_indice] = v]
    /\ UNCHANGED <<sched, status, eax, asked, sys, drv>>

\* A driver leaves its answer in its own sys_param structure.
Serve(n, r) ==
    /\ OnCpu(Drivers)
    /\ HonestCount => n <= sys[t_indice].count
    /\ sys' = [sys EXCEPT ![t_indice] = [call |-> sys[t_indice].call, count |-> n, ret |-> r]]
    /\ UNCHANGED <<sched, status, eax, asked, mem, drv>>

-----------------------------------------------------------------------------
(* sys_call(): every call ends in ljmp_call(0x20), back to task_control    *)

Return == cpu' = "control" /\ UNCHANGED t_indice

Accept == 1   \* the value of the checks below when none of them returns

\* Mutant: the last driver that has the name wins.
LookupLast(name) ==
    IF \E s \in DevSlots : arch[s] = name
    THEN CHOOSE s \in DevSlots : arch[s] = name /\ \A r \in DevSlots : arch[r] = name => r <= s
    ELSE -7

\* sys_open searches the names in order; -7 when there is none.  (strcmp's slot
\* for its result, uninitialised for different names of one length, holds the
\* page directory check_addr has just used, so such names do compare different.)
Lookup(name) ==
    IF \E s \in DevSlots : arch[s] = name
    THEN CHOOSE s \in DevSlots : arch[s] = name /\ \A r \in DevSlots : arch[r] = name => s <= r
    ELSE -7

SysOpen(name, bad) ==
    /\ OnCpu(Clients)
    /\ Return
    /\ eax' = [eax EXCEPT ![t_indice] = IF bad \in -6 .. -1 THEN bad ELSE Lookup(name)]
    /\ UNCHANGED <<status, asked, mem, sys, drv>>

\* Mutant: nobody looks whether the driver is waiting.
CallCheckBusy(fd) ==
    IF fd >= MAX_DRIVERS THEN -1 ELSE IF id_drv[fd] = 0 THEN -2 ELSE Accept

\* The checks sys_read, sys_write and sys_seek share.
CallCheck(fd) ==
    IF fd >= MAX_DRIVERS THEN -1
    ELSE IF id_drv[fd] = 0 THEN -2
    ELSE IF status[id_drv[fd]] # WAITING THEN -3
    ELSE Accept

\* Mutant: one byte too many is accepted.
BufferCheckWide(n, bad) ==
    IF bad = -4 THEN -4
    ELSE IF n > MaxXfer + 1 THEN -5
    ELSE IF n = 0 THEN 0
    ELSE IF bad = -6 THEN -6
    ELSE Accept

\* The checks on a buffer of n bytes, in the order of the code.
BufferCheck(n, bad) ==
    IF bad = -4 THEN -4
    ELSE IF n > MaxXfer THEN -5
    ELSE IF n = 0 THEN 0
    ELSE IF bad = -6 THEN -6
    ELSE Accept

TransferCheck(fd, n, bad) ==
    IF CallCheck(fd) # Accept THEN CallCheck(fd) ELSE BufferCheck(n, bad)

\* Mutant: the length asked for is not considered.
LimitSize(fd, n) == size[fd]

\* What is transferred: datos a transferir.
Limit(fd, n) == IF size[fd] > n THEN n ELSE size[fd]

\* Mutants: the driver is not woken; the entry keeps the previous call.
HandoverNoWake(fd, which, n) ==
    /\ status' = [status EXCEPT ![t_indice] = WAITING]
    /\ call' = [call EXCEPT ![fd] = which]
    /\ id_ret' = [id_ret EXCEPT ![fd] = t_indice]
    /\ sys' = [sys EXCEPT ![id_drv[fd]] = [call |-> which, count |-> n, ret |-> sys[id_drv[fd]].ret]]
    /\ UNCHANGED <<id_drv, arch, size>>

HandoverStaleCall(fd, which, n) ==
    LET d == id_drv[fd] IN
    /\ status' = [status EXCEPT ![t_indice] = WAITING, ![d] = RUNNING]
    /\ call' = [call EXCEPT ![fd] = IF @ = 0 THEN which ELSE @]
    /\ id_ret' = [id_ret EXCEPT ![fd] = t_indice]
    /\ sys' = [sys EXCEPT ![d] = [call |-> which, count |-> n, ret |-> sys[d].ret]]
    /\ UNCHANGED <<id_drv, arch, size>>

\* The client sleeps, the driver wakes, and the entry records whom to answer.
Handover(fd, which, n) ==
    LET d == id_drv[fd] IN
    /\ status' = [status EXCEPT ![t_indice] = WAITING, ![d] = RUNNING]
    /\ call' = [call EXCEPT ![fd] = which]
    /\ id_ret' = [id_ret EXCEPT ![fd] = t_indice]
    /\ sys' = [sys EXCEPT ![d] = [call |-> which, count |-> n, ret |-> sys[d].ret]]
    /\ UNCHANGED <<id_drv, arch, size>>

\* sys_call leaves eax alone after these three: it still holds the call number.
CallNumberStays(which) == eax' = [eax EXCEPT ![t_indice] = which]

Refused(which, check) ==
    /\ OnCpu(Clients)
    /\ check # Accept
    /\ Return
    /\ CallNumberStays(which)
    /\ UNCHANGED <<status, asked, mem, sys, drv>>

Accepted(which, check) ==
    /\ OnCpu(Clients)
    /\ check = Accept
    /\ Return
    /\ CallNumberStays(which)

SysRead(fd, n, bad) ==
    \/ Refused(SYS_READ, TransferCheck(fd, n, bad))
    \/ /\ Accepted(SYS_READ, TransferCheck(fd, n, bad))
       /\ Handover(fd, SYS_READ, Limit(fd, n))
       /\ buf_ret' = [buf_ret EXCEPT ![fd] = t_indice]
       /\ asked' = [asked EXCEPT ![t_indice] = n]
       /\ UNCHANGED mem

\* Mutant: the copy goes the wrong way.
SysWriteBackwards(fd, n, bad) ==
    \/ Refused(SYS_WRITE, TransferCheck(fd, n, bad))
    \/ /\ Accepted(SYS_WRITE, TransferCheck(fd, n, bad))
       /\ Handover(fd, SYS_WRITE, Limit(fd, n))
       /\ mem' = [mem EXCEPT ![t_indice] = mem[id_drv[fd]]]
       /\ asked' = [asked EXCEPT ![t_indice] = n]
       /\ UNCHANGED buf_ret

\* The bytes are copied into the driver's buffer before the driver wakes.
SysWrite(fd, n, bad) ==
    \/ Refused(SYS_WRITE, TransferCheck(fd, n, bad))
    \/ /\ Accepted(SYS_WRITE, TransferCheck(fd, n, bad))
       /\ Handover(fd, SYS_WRITE, Limit(fd, n))
       /\ mem' = IF Limit(fd, n) = 0 THEN mem
                 ELSE [mem EXCEPT ![id_drv[fd]] = mem[t_indice]]
       /\ asked' = [asked EXCEPT ![t_indice] = n]
       /\ UNCHANGED buf_ret

\* sys_seek checks no buffer and leaves sys->count as it was.
SysSeek(fd) ==
    \/ Refused(SYS_SEEK, CallCheck(fd))
    \/ /\ Accepted(SYS_SEEK, CallCheck(fd))
       /\ Handover(fd, SYS_SEEK, sys[id_drv[fd]].count)
       /\ UNCHANGED <<asked, mem, buf_ret>>

Registered(t) == \E s \in DevSlots : id_drv[s] = t

\* The first free entry, and the entry of a driver.
FreeSlot  == CHOOSE s \in DevSlots :
                 id_drv[s] = 0 /\ \A r \in DevSlots : id_drv[r] = 0 => s <= r
SlotOf(t) == CHOOSE s \in DevSlots : id_drv[s] = t

RegisterCheck(n, bad) ==
    IF Registered(t_indice) THEN -1
    ELSE IF \A s \in DevSlots : id_drv[s] # 0 THEN -2
    ELSE IF bad \in {-3, -4, -5} THEN bad
    ELSE IF n > MaxXfer THEN -6
    ELSE IF bad = -7 THEN -7
    ELSE Accept

\* Mutant: the driver is not put to sleep.
SysRegAwake(n, bad) ==
    /\ OnCpu(Drivers)
    /\ Return
    /\ RegisterCheck(n, bad) = Accept
    /\ arch' = [arch EXCEPT ![FreeSlot] = DevName[t_indice]]
    /\ id_drv' = [id_drv EXCEPT ![FreeSlot] = t_indice]
    /\ size' = [size EXCEPT ![FreeSlot] = n]
    /\ id_ret' = [id_ret EXCEPT ![FreeSlot] = 0]
    /\ eax' = [eax EXCEPT ![t_indice] = FreeSlot]
    /\ UNCHANGED <<status, call, buf_ret, asked, mem, sys>>

\* A refused registration only reports its code; an accepted one claims the
\* first free entry and puts the driver to sleep until the first request.
SysReg(n, bad) ==
    /\ OnCpu(Drivers)
    /\ Return
    /\ \/ /\ RegisterCheck(n, bad) # Accept
          /\ eax' = [eax EXCEPT ![t_indice] = RegisterCheck(n, bad)]
          /\ UNCHANGED <<status, drv>>
       \/ /\ RegisterCheck(n, bad) = Accept
          /\ arch' = [arch EXCEPT ![FreeSlot] = DevName[t_indice]]
          /\ id_drv' = [id_drv EXCEPT ![FreeSlot] = t_indice]
          /\ size' = [size EXCEPT ![FreeSlot] = n]
          /\ id_ret' = [id_ret EXCEPT ![FreeSlot] = 0]
          /\ status' = [status EXCEPT ![t_indice] = WAITING]
          /\ eax' = [eax EXCEPT ![t_indice] = FreeSlot]
          /\ UNCHANGED <<call, buf_ret>>
    /\ UNCHANGED <<asked, mem, sys>>

\* Mutant: an answer without data does not wake the caller.
AnswerNoData(t, s) ==
    LET c == id_ret[s] IN
    /\ eax' = [eax EXCEPT ![t] = SYS_RET, ![c] = sys[t].ret]
    /\ mem' = IF call[s] = SYS_READ /\ sys[t].count > 0
              THEN [mem EXCEPT ![buf_ret[s]] = mem[t]] ELSE mem
    /\ status' = [status EXCEPT ![c] = IF sys[t].count = 0 THEN @ ELSE RUNNING, ![t] = WAITING]
    /\ UNCHANGED asked

\* The answer of driver t through entry s: the result goes to the eax of the
\* caller, the bytes of a read to the caller's buffer.
Answer(t, s) ==
    LET c == id_ret[s] IN
    /\ eax' = [eax EXCEPT ![t] = SYS_RET, ![c] = sys[t].ret]
    /\ mem' = IF call[s] = SYS_READ /\ sys[id_drv[s]].count > 0
              THEN [mem EXCEPT ![buf_ret[s]] = mem[t]] ELSE mem
    /\ status' = [status EXCEPT ![c] = RUNNING, ![t] = WAITING]
    /\ asked' = IF c \in Tasks THEN [asked EXCEPT ![c] = 0] ELSE asked

\* Mutant: the caller is woken although the pointer check failed.
SysRetRefusedWakes(bad) ==
    /\ OnCpu(Drivers)
    /\ ~Registered(t_indice) \/ bad = -2
    /\ Return
    /\ eax' = [eax EXCEPT ![t_indice] = SYS_RET]
    /\ status' = IF Registered(t_indice)
                 THEN [status EXCEPT ![id_ret[SlotOf(t_indice)]] = RUNNING] ELSE status
    /\ UNCHANGED <<asked, mem, sys, drv>>

SysRetRefused(bad) ==
    /\ OnCpu(Drivers)
    /\ ~Registered(t_indice) \/ bad = -2
    /\ Return
    /\ eax' = [eax EXCEPT ![t_indice] = SYS_RET]
    /\ UNCHANGED <<status, asked, mem, sys, drv>>

SysRetAnswers(t) ==
    /\ OnCpu({t})
    /\ Registered(t)
    /\ Return
    /\ Answer(t, SlotOf(t))
    /\ UNCHANGED <<sys, drv>>

\* sys_wait: nothing but an answer wakes the task again.
SysWait ==
    /\ OnCpu(Sleepers)
    /\ Return
    /\ status' = [status EXCEPT ![t_indice] = WAITING]
    /\ eax' = [eax EXCEPT ![t_indice] = SYS_WAIT]
    /\ UNCHANGED <<asked, mem, sys, drv>>

\* The default branch: a call number that does not exist only costs the slice.
SysUnknown ==
    /\ OnCpu(Tasks)
    /\ Return
    /\ eax' = [eax EXCEPT ![t_indice] = 0]
    /\ UNCHANGED <<status, asked, mem, sys, drv>>

-----------------------------------------------------------------------------
Next ==
    \/ Scan
    \/ Timer
    \/ \E v \in Data : Compute(v)
    \/ \E n \in 0 .. MaxXfer, r \in Rets : Serve(n, r)
    \/ \E name \in Names, bad \in Faults \cup {0} : SysOpen(name, bad)
    \/ \E fd \in 0 .. MAX_DRIVERS, n \in 0 .. MaxXfer + 1, bad \in Faults \cup {0} :
           SysRead(fd, n, bad) \/ SysWrite(fd, n, bad)
    \/ \E fd \in 0 .. MAX_DRIVERS : SysSeek(fd)
    \/ \E n \in 0 .. MaxXfer + 1, bad \in Faults \cup {0} : SysReg(n, bad)
    \/ \E bad \in Faults \cup {0} : SysRetRefused(bad)
    \/ \E d \in Drivers : SysRetAnswers(d)
    \/ SysWait
    \/ SysUnknown

Spec == Init /\ [][Next]_vars

\* task_control always runs on; the clock ticks, since IRQ0 is unmasked
\* (0xdc) and user tasks run with interrupts enabled; a driver that keeps
\* getting the processor finishes its service and issues SYS_RET.
Fairness ==
    /\ WF_vars(Scan)
    /\ WF_vars(Timer)
    /\ \A d \in Drivers : SF_vars(SysRetAnswers(d))

FairSpec == Spec /\ Fairness

-----------------------------------------------------------------------------
(* Properties.  The ones below the line "flat" are about systems in which  *)
(* no task is both client and driver and drivers never call SYS_WAIT: the  *)
(* programs of this repository (start, keyb and video) are of this kind.   *)

Flat == Clients \cap Drivers = {} /\ Sleepers \cap (Clients \cup Drivers) = {}

Open(s)   == id_drv[s] # 0
Busy(s)   == Open(s) /\ status[id_drv[s]] = RUNNING
Owes(s, c) == Busy(s) /\ id_ret[s] = c

Param == [call : {0, SYS_READ, SYS_WRITE, SYS_SEEK}, count : 0 .. MaxXfer, ret : Rets \cup {0}]

\* Every variable stays in its range, and in particular no index of r_tareas
\* or r_drv written by a system call leaves its table.
TypeOK ==
    /\ cpu \in {"control", "user"}
    /\ t_indice \in 0 .. LastTask
    /\ status \in [0 .. LastTask -> {RUNNING, SLEEPING, WAITING}]
    /\ eax \in [0 .. LastTask -> Int]
    /\ asked \in [Tasks -> 0 .. MaxXfer]
    /\ mem \in [Tasks -> Data]
    /\ sys \in [Tasks -> Param]
    /\ id_drv \in [Slots -> Drivers \cup {0}]
    /\ arch \in [Slots -> Names \cup {NoName}]
    /\ size \in [Slots -> 0 .. MaxXfer]
    /\ id_ret \in [Slots -> Clients \cup {0}]
    /\ call \in [Slots -> {0, SYS_READ, SYS_WRITE, SYS_SEEK}]
    /\ buf_ret \in [Slots -> Clients \cup {0}]

\* Entries 0 to 2 of r_tareas hold the kernel's own tasks, and an entry of
\* r_drv names task 0 in id_ret until its first request (sys_reg): no answer
\* may ever make task_control dispatch one of the kernel's tasks.
KernelTasksAsleep == \A k \in KernelTasks : status[k] = SLEEPING

\* A client that sleeps in a call is owed an answer by exactly one driver that
\* is awake, and a driver that is awake works for a client that sleeps: the
\* one id_ret field per device (sys_read, sys_write, sys_seek, sys_ret) never
\* loses a caller, though nothing queues the calls.
OneDebtPerCaller ==
    /\ \A c \in Clients : status[c] = WAITING =>
           \E s \in DevSlots : /\ Owes(s, c)
                               /\ \A r \in DevSlots : Owes(r, c) => r = s
    /\ \A s \in DevSlots : Busy(s) =>
           id_ret[s] \in Clients /\ status[id_ret[s]] = WAITING

\* "guardamos a quien debemos contestar": whoever sleeps in a call is on record
\* in some device's id_ret, whatever calls the drivers make themselves.
CallersOnRecord ==
    \A c \in Clients \ (Drivers \cup Sleepers) : status[c] = WAITING =>
        \E s \in DevSlots : id_ret[s] = c

\* task_control looks for a task with interrupts disabled, so if every task
\* were asleep its do-while loop would never end: whatever the calls in
\* progress, some client or the driver that owes it an answer can run.
SomeRunnable ==
    (\E c \in Clients : c \notin Sleepers) =>
        \E t \in Tasks : status[t] \in {RUNNING, STARTING}

\* What a blocked client owns (its result register, its buffer, its status)
\* changes in one way only: the driver that works for it issues SYS_RET.  The
\* result is then the driver's sys->ret, and the buffer changes only if the
\* call was a read.  A buffer is never written behind the back of a task that
\* runs: buf_ret may still name it from an earlier read (sys_ret).
OnlyTheReplyTouches ==
    [][\A c \in Clients :
         \/ OnCpu({c})
         \/ UNCHANGED <<eax[c], mem[c], status[c]>>
         \/ \E s \in DevSlots :
                /\ Owes(s, c) /\ OnCpu({id_drv[s]})
                /\ status'[c] = RUNNING /\ ~Busy(s)'
                /\ eax'[c] = sys[id_drv[s]].ret
                /\ \/ mem'[c] = mem[c]
                   \/ sys[id_drv[s]].call = SYS_READ /\ mem'[c] = mem[id_drv[s]]]_vars

\* Once sys_open has found a device, the same name gives the same descriptor
\* for ever, even if another driver registers the name again: programs open
\* their devices once and keep the number.
NamesKeepResolving ==
    [][\A name \in Names : Lookup(name) \in Slots => Lookup(name)' = Lookup(name)]_vars

\* An answer to a read copies no more bytes into the caller's buffer than the
\* caller asked for and had checked (sys_read); sys_ret copies sys->count.
CopyFits ==
    [][\A d \in Drivers : \A c \in Clients :
         (/\ OnCpu({d}) /\ status[d] = RUNNING /\ status'[d] = WAITING
          /\ status[c] = WAITING /\ status'[c] = RUNNING
          /\ sys[d].call = SYS_READ)
             => sys[d].count <= asked[c]]_vars

\* "Vamos a retornar siempre negativos si hay error": a transfer that the
\* kernel refuses leaves a negative result for the program to test.  sys_call
\* drops it, and eax keeps the call's number; no run checks this.
ErrorsReachCaller ==
    [][\A fd \in 0 .. MAX_DRIVERS, n \in 0 .. MaxXfer + 1, bad \in Faults \cup {0} :
         (TransferCheck(fd, n, bad) < 0 /\ (SysRead(fd, n, bad) \/ SysWrite(fd, n, bad)))
             => eax'[t_indice] < 0]_vars

\* Every call a driver accepted is answered: the client runs again.
CallReturns == \A c \in Clients : status[c] = WAITING ~> status[c] = RUNNING

\* Round robin: a task that stays runnable gets the processor, whatever the
\* others do (t_indice wraps in task_control).
Dispatched == \A t \in Tasks : status[t] = RUNNING ~> (OnCpu({t}) \/ status[t] # RUNNING)

\* The inductive invariant behind the properties above, in a flat system: what
\* OneDebtPerCaller needs to survive every call.
OneEntryPerDriver ==
    /\ \A s \in Slots : s < FirstDev => id_drv[s] = 0
    /\ \A s, r \in DevSlots : (Open(s) /\ id_drv[s] = id_drv[r]) => s = r

UnregisteredRuns == \A d \in Drivers : ~Registered(d) => status[d] = RUNNING

ProcessorRuns == cpu = "user" => (t_indice \in Tasks /\ status[t_indice] = RUNNING)

TasksNeverSleeping == \A t \in Tasks : status[t] \in {RUNNING, WAITING}

CallsAgree ==
    \A s \in DevSlots : Busy(s) =>
        /\ call[s] = sys[id_drv[s]].call
        /\ call[s] = SYS_READ => buf_ret[s] = id_ret[s]

IInv ==
    /\ TypeOK /\ KernelTasksAsleep /\ OneDebtPerCaller
    /\ OneEntryPerDriver /\ UnregisteredRuns /\ ProcessorRuns
    /\ TasksNeverSleeping /\ CallsAgree
=============================================================================
