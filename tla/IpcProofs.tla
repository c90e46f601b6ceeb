----------------------------- MODULE IpcProofs -----------------------------
(***************************************************************************)
(* Proofs about the device calls, for every number of tasks, devices,      *)
(* names, buffers and results: their types, that no caller is lost, what   *)
(* steps may never do, and that they implement the scheduler and the       *)
(* rendezvous.                                                             *)
(***************************************************************************)
EXTENDS IpcRefinement, NatLemmas, TLAPS


-----------------------------------------------------------------------------
(* What the searches in r_drv return.                                      *)

\* The first free entry of r_drv is free, when there is a free entry (sys_reg).
LEMMA FreeSlotIsFree ==
    ASSUME \E s \in DevSlots : id_drv[s] = 0
    PROVE  FreeSlot \in DevSlots /\ id_drv[FreeSlot] = 0
<1> DEFINE T == {s \in DevSlots : id_drv[s] = 0}
<1>1. T \in SUBSET Nat /\ T # {}
  BY DataAssumption DEF DevSlots, FirstDev
<1>2. PICK x \in T : \A y \in T : x <= y
  <2> HIDE DEF T
  <2> QED BY <1>1, LeastNat
<1> QED BY <1>2 DEF FreeSlot

\* sys_open returns the first entry that has the name, or -7.
LEMMA LookupFirst ==
    ASSUME NEW name
    PROVE  \/ /\ \A s \in DevSlots : arch[s] # name
              /\ Lookup(name) = -7
           \/ /\ Lookup(name) \in DevSlots
              /\ arch[Lookup(name)] = name
              /\ \A r \in DevSlots : arch[r] = name => Lookup(name) <= r
<1>1. CASE \A s \in DevSlots : arch[s] # name
  BY <1>1 DEF Lookup
<1>2. CASE \E s \in DevSlots : arch[s] = name
  <2> DEFINE T == {s \in DevSlots : arch[s] = name}
  <2>1. T \in SUBSET Nat /\ T # {}
    BY <1>2, DataAssumption DEF DevSlots, FirstDev
  <2>2. PICK x \in T : \A y \in T : x <= y
    <3> HIDE DEF T
    <3> QED BY <2>1, LeastNat
  <2> QED BY <1>2, <2>2 DEF Lookup
<1> QED BY <1>1, <1>2

\* A registered driver has an entry, and SlotOf is one of its entries (sys_ret).
LEMMA SlotOfIsItsEntry ==
    ASSUME NEW t, Registered(t)
    PROVE  SlotOf(t) \in DevSlots /\ id_drv[SlotOf(t)] = t
BY DEF Registered, SlotOf

-----------------------------------------------------------------------------
(* Types.                                                                  *)

\* Where constants lie; every proof below needs some of it.
LEMMA Constants ==
    /\ Tasks \subseteq 0 .. LastTask /\ KernelTasks \subseteq 0 .. LastTask
    /\ KernelTasks \cap Tasks = {} /\ 0 \notin Tasks /\ 0 \in 0 .. LastTask
    /\ Clients \subseteq Tasks /\ Drivers \subseteq Tasks /\ Sleepers \subseteq Tasks
    /\ DevSlots \subseteq Slots /\ Slots \subseteq Nat /\ 0 .. LastTask \subseteq Nat
BY TaskAssumption, DataAssumption DEF Tasks, KernelTasks, DevSlots, Slots, FirstDev

LEMMA TypeInit == Init => TypeOK
<1> SUFFICES ASSUME Init PROVE TypeOK
  OBVIOUS
<1> USE TaskAssumption, DataAssumption, Constants
<1>1. status \in [0 .. LastTask -> {RUNNING, SLEEPING, WAITING}]
  BY DEF Init
<1>2. mem \in [Tasks -> Data]
  BY DEF Init
<1>3. sys \in [Tasks -> Param]
  BY DEF Init, Param
<1> QED BY <1>1, <1>2, <1>3 DEF Init, TypeOK

\* An accepted call wakes the driver of an open entry.
LEMMA AcceptedCall ==
    ASSUME TypeOK, NEW fd \in 0 .. MAX_DRIVERS, CallCheck(fd) = Accept
    PROVE  fd \in Slots /\ id_drv[fd] \in Drivers /\ status[id_drv[fd]] = WAITING
BY DataAssumption, Constants DEF CallCheck, Accept, TypeOK, Slots

LEMMA HandoverType ==
    ASSUME TypeOK, NEW fd \in 0 .. MAX_DRIVERS, CallCheck(fd) = Accept, OnCpu(Clients),
           NEW n \in 0 .. MaxXfer, NEW which \in {SYS_READ, SYS_WRITE, SYS_SEEK},
           Handover(fd, which, n)
    PROVE  /\ status' \in [0 .. LastTask -> {RUNNING, SLEEPING, WAITING}]
           /\ call' \in [Slots -> {0, SYS_READ, SYS_WRITE, SYS_SEEK}]
           /\ id_ret' \in [Slots -> Clients \cup {0}]
           /\ sys' \in [Tasks -> Param]
<1>1. id_drv[fd] \in Tasks /\ fd \in Slots
  BY AcceptedCall, Constants
<1>2. sys' \in [Tasks -> Param]
  BY <1>1 DEF Handover, TypeOK, Param
<1> QED BY <1>1, <1>2 DEF Handover, TypeOK, OnCpu

\* What passes the buffer checks is at most MaxXfer bytes long.
LEMMA LimitType ==
    ASSUME TypeOK, NEW fd \in Slots, NEW n \in 0 .. MaxXfer + 1, NEW bad,
           BufferCheck(n, bad) = Accept
    PROVE  n \in 0 .. MaxXfer /\ Limit(fd, n) \in 0 .. MaxXfer /\ Limit(fd, n) <= n
<1>1. size[fd] \in 0 .. MaxXfer
  BY DEF TypeOK
<1>2. n <= MaxXfer
  BY DataAssumption DEF BufferCheck, Accept
<1> QED BY <1>1, <1>2, DataAssumption DEF Limit

\* What an accepted transfer has passed (sys_read, sys_write).
LEMMA TransferAccepted ==
    ASSUME NEW fd, NEW n, NEW bad, TransferCheck(fd, n, bad) = Accept
    PROVE  CallCheck(fd) = Accept /\ BufferCheck(n, bad) = Accept
BY DEF TransferCheck

LEMMA TypeStep == TypeOK /\ [Next]_vars => TypeOK'
<1> SUFFICES ASSUME TypeOK, [Next]_vars PROVE TypeOK'
  OBVIOUS
<1> USE TaskAssumption, DataAssumption, Constants
<1>1. CASE Scan
  <2>1. NextIndex(t_indice) \in 0 .. LastTask
    BY DEF TypeOK, NextIndex
  <2> QED BY <1>1, <2>1 DEF Scan, TypeOK, drv
<1>2. CASE Timer
  BY <1>2 DEF Timer, TypeOK, drv
<1>3. ASSUME NEW v \in Data, Compute(v) PROVE TypeOK'
  BY <1>3 DEF Compute, TypeOK, drv, sched
<1>4. ASSUME NEW n \in 0 .. MaxXfer, NEW r \in Rets, Serve(n, r) PROVE TypeOK'
  <2>1. t_indice \in Tasks
    BY <1>4 DEF Serve, OnCpu
  <2>2. sys' \in [Tasks -> Param]
    BY <1>4, <2>1 DEF Serve, TypeOK, Param
  <2> QED BY <1>4, <2>2 DEF Serve, TypeOK, drv, sched
<1>5. ASSUME NEW name \in Names, NEW bad \in Faults \cup {0}, SysOpen(name, bad) PROVE TypeOK'
  <2>1. Lookup(name) \in Int
    BY LookupFirst DEF DevSlots, FirstDev
  <2>2. eax' \in [0 .. LastTask -> Int]
    BY <1>5, <2>1 DEF SysOpen, TypeOK
  <2> QED BY <1>5, <2>2 DEF SysOpen, Return, TypeOK, drv
<1>6. ASSUME NEW which \in {SYS_READ, SYS_WRITE, SYS_SEEK}, NEW check, Refused(which, check)
      PROVE  TypeOK'
  <2>1. eax' \in [0 .. LastTask -> Int]
    BY <1>6 DEF Refused, CallNumberStays, TypeOK, SYS_READ, SYS_WRITE, SYS_SEEK
  <2> QED BY <1>6, <2>1 DEF Refused, Return, TypeOK, drv
<1>7. ASSUME NEW fd \in 0 .. MAX_DRIVERS, NEW n \in 0 .. MaxXfer, CallCheck(fd) = Accept,
             NEW which \in {SYS_READ, SYS_WRITE, SYS_SEEK}, NEW check,
             Accepted(which, check), Handover(fd, which, n),
             asked' \in [Tasks -> 0 .. MaxXfer], mem' \in [Tasks -> Data],
             buf_ret' \in [Slots -> Clients \cup {0}]
      PROVE  TypeOK'
  <2>1. eax' \in [0 .. LastTask -> Int]
    BY <1>7 DEF Accepted, CallNumberStays, TypeOK, SYS_READ, SYS_WRITE, SYS_SEEK
  <2>2. OnCpu(Clients) /\ UNCHANGED <<id_drv, arch, size, t_indice>> /\ cpu' = "control"
    BY <1>7 DEF Accepted, Handover, Return
  <2>3. /\ status' \in [0 .. LastTask -> {RUNNING, SLEEPING, WAITING}]
        /\ call' \in [Slots -> {0, SYS_READ, SYS_WRITE, SYS_SEEK}]
        /\ id_ret' \in [Slots -> Clients \cup {0}]
        /\ sys' \in [Tasks -> Param]
    BY <1>7, <2>2, HandoverType
  <2> QED BY <1>7, <2>1, <2>2, <2>3 DEF TypeOK
<1>8. ASSUME NEW fd \in 0 .. MAX_DRIVERS, NEW n \in 0 .. MaxXfer + 1, NEW bad \in Faults \cup {0},
             SysRead(fd, n, bad)
      PROVE  TypeOK'
  <2>1. CASE Refused(SYS_READ, TransferCheck(fd, n, bad))
    BY <1>6, <2>1
  <2>2. CASE ~ Refused(SYS_READ, TransferCheck(fd, n, bad))
    <3>1. /\ Accepted(SYS_READ, TransferCheck(fd, n, bad))
          /\ Handover(fd, SYS_READ, Limit(fd, n))
          /\ CallCheck(fd) = Accept /\ BufferCheck(n, bad) = Accept
      BY <1>8, <2>2, TransferAccepted DEF SysRead, Accepted
    <3>2. Limit(fd, n) \in 0 .. MaxXfer /\ n \in 0 .. MaxXfer
      BY <3>1, AcceptedCall, LimitType
    <3>3. asked' \in [Tasks -> 0 .. MaxXfer] /\ mem' \in [Tasks -> Data]
      <4>1. asked' = [asked EXCEPT ![t_indice] = n] /\ mem' = mem
        BY <1>8, <2>2 DEF SysRead
      <4> QED BY <4>1, <3>2 DEF TypeOK
    <3>4. buf_ret' \in [Slots -> Clients \cup {0}]
      BY <1>8, <2>2, <3>1 DEF SysRead, TypeOK, Accepted, OnCpu
    <3> QED BY <1>7, <3>1, <3>2, <3>3, <3>4
  <2> QED BY <2>1, <2>2
<1>9. ASSUME NEW fd \in 0 .. MAX_DRIVERS, NEW n \in 0 .. MaxXfer + 1, NEW bad \in Faults \cup {0},
             SysWrite(fd, n, bad)
      PROVE  TypeOK'
  <2>1. CASE Refused(SYS_WRITE, TransferCheck(fd, n, bad))
    BY <1>6, <2>1
  <2>2. CASE ~ Refused(SYS_WRITE, TransferCheck(fd, n, bad))
    <3>1. /\ Accepted(SYS_WRITE, TransferCheck(fd, n, bad))
          /\ Handover(fd, SYS_WRITE, Limit(fd, n))
          /\ CallCheck(fd) = Accept /\ BufferCheck(n, bad) = Accept
      BY <1>9, <2>2, TransferAccepted DEF SysWrite, Accepted
    <3>2. Limit(fd, n) \in 0 .. MaxXfer /\ n \in 0 .. MaxXfer /\ t_indice \in Tasks
      BY <3>1, AcceptedCall, LimitType DEF Accepted, OnCpu
    <3>3. asked' \in [Tasks -> 0 .. MaxXfer] /\ mem' \in [Tasks -> Data]
      <4>1. /\ mem' = IF Limit(fd, n) = 0 THEN mem
                      ELSE [mem EXCEPT ![id_drv[fd]] = mem[t_indice]]
            /\ asked' = [asked EXCEPT ![t_indice] = n]
        BY <1>9, <2>2 DEF SysWrite
      <4>2. mem[t_indice] \in Data
        BY <3>2 DEF TypeOK
      <4> QED BY <4>1, <4>2, <3>2 DEF TypeOK
    <3>4. buf_ret' \in [Slots -> Clients \cup {0}]
      BY <1>9, <2>2 DEF SysWrite, TypeOK
    <3> QED BY <1>7, <3>1, <3>2, <3>3, <3>4
  <2> QED BY <2>1, <2>2
<1>10. ASSUME NEW fd \in 0 .. MAX_DRIVERS, SysSeek(fd) PROVE TypeOK'
  <2>1. CASE Refused(SYS_SEEK, CallCheck(fd))
    BY <1>6, <2>1
  <2>2. CASE ~ Refused(SYS_SEEK, CallCheck(fd))
    <3>1. /\ Accepted(SYS_SEEK, CallCheck(fd)) /\ CallCheck(fd) = Accept
          /\ Handover(fd, SYS_SEEK, sys[id_drv[fd]].count)
          /\ UNCHANGED <<asked, mem, buf_ret>>
      BY <1>10, <2>2 DEF SysSeek, Accepted
    <3>2. sys[id_drv[fd]].count \in 0 .. MaxXfer
      BY <3>1, AcceptedCall DEF TypeOK, Param
    <3>3. /\ asked' \in [Tasks -> 0 .. MaxXfer] /\ mem' \in [Tasks -> Data]
          /\ buf_ret' \in [Slots -> Clients \cup {0}]
      BY <3>1 DEF TypeOK
    <3> QED BY <1>7, <3>1, <3>2, <3>3
  <2> QED BY <2>1, <2>2
<1>11. ASSUME NEW n \in 0 .. MaxXfer + 1, NEW bad \in Faults \cup {0}, SysReg(n, bad) PROVE TypeOK'
  <2>1. t_indice \in Drivers /\ t_indice \in Tasks
    BY <1>11 DEF SysReg, OnCpu
  <2>2. CASE RegisterCheck(n, bad) # Accept
    <3>1. RegisterCheck(n, bad) \in Int
      BY DEF RegisterCheck, Accept
    <3>2. eax' \in [0 .. LastTask -> Int]
      BY <1>11, <2>1, <2>2, <3>1 DEF SysReg, TypeOK
    <3> QED BY <1>11, <2>2, <3>2 DEF SysReg, Return, TypeOK, drv
  <2>3. CASE RegisterCheck(n, bad) = Accept
    <3>1. \E s \in DevSlots : id_drv[s] = 0
      BY <2>3 DEF RegisterCheck, Accept
    <3>2. FreeSlot \in DevSlots /\ FreeSlot \in Slots /\ FreeSlot \in Int
      BY <3>1, FreeSlotIsFree DEF DevSlots, FirstDev, Slots
    <3>3. n \in 0 .. MaxXfer
      BY <2>3 DEF RegisterCheck, Accept
    <3>4. DevName[t_indice] \in Names
      BY <2>1
    <3>5. /\ arch' = [arch EXCEPT ![FreeSlot] = DevName[t_indice]]
          /\ id_drv' = [id_drv EXCEPT ![FreeSlot] = t_indice]
          /\ size' = [size EXCEPT ![FreeSlot] = n]
          /\ id_ret' = [id_ret EXCEPT ![FreeSlot] = 0]
          /\ status' = [status EXCEPT ![t_indice] = WAITING]
          /\ eax' = [eax EXCEPT ![t_indice] = FreeSlot]
          /\ UNCHANGED <<call, buf_ret, asked, mem, sys, t_indice>> /\ cpu' = "control"
      BY <1>11, <2>3 DEF SysReg, Return
    <3>6. eax' \in [0 .. LastTask -> Int]
      BY <3>2, <3>5 DEF TypeOK
    <3>7. status' \in [0 .. LastTask -> {RUNNING, SLEEPING, WAITING}]
      BY <3>5 DEF TypeOK
    <3> QED BY <2>1, <3>3, <3>4, <3>5, <3>6, <3>7 DEF TypeOK
  <2> QED BY <2>2, <2>3
<1>12. ASSUME NEW bad \in Faults \cup {0}, SysRetRefused(bad) PROVE TypeOK'
  <2>1. eax' \in [0 .. LastTask -> Int]
    BY <1>12 DEF SysRetRefused, TypeOK, SYS_RET
  <2> QED BY <1>12, <2>1 DEF SysRetRefused, Return, TypeOK, drv
<1>13. ASSUME NEW d \in Drivers, SysRetAnswers(d) PROVE TypeOK'
  <2>1. SlotOf(d) \in Slots /\ id_drv[SlotOf(d)] = d /\ d \in Tasks
    BY <1>13, SlotOfIsItsEntry DEF SysRetAnswers
  <2>2. sys[d] \in Param /\ mem[d] \in Data
    BY <2>1 DEF TypeOK
  <2>3. sys[d].ret \in Int /\ SYS_RET \in Int
    <3>1. sys[d].ret \in Rets \cup {0}
      BY <2>2 DEF Param
    <3>2. SYS_RET \in Int
      BY DEF SYS_RET
    <3>3. Rets \cup {0} \subseteq Int
      BY DataAssumption
    <3> QED BY <3>1, <3>2, <3>3
  <2> DEFINE c == id_ret[SlotOf(d)]
             w == buf_ret[SlotOf(d)]
  <2>4. /\ eax' = [eax EXCEPT ![d] = SYS_RET, ![c] = sys[d].ret]
        /\ mem' = mem \/ mem' = [mem EXCEPT ![w] = mem[d]]
        /\ status' = [status EXCEPT ![c] = RUNNING, ![d] = WAITING]
        /\ asked' = asked \/ asked' = [asked EXCEPT ![c] = 0]
        /\ UNCHANGED <<sys, drv, t_indice>> /\ cpu' = "control"
    BY <1>13 DEF SysRetAnswers, Answer, Return
  <2> HIDE DEF c, w
  <2>5. eax' \in [0 .. LastTask -> Int]
    BY <2>3, <2>4 DEF TypeOK
  <2>6. status' \in [0 .. LastTask -> {RUNNING, SLEEPING, WAITING}]
    BY <2>4 DEF TypeOK
  <2>7. mem' \in [Tasks -> Data]
    <3>1. mem \in [Tasks -> Data]
      BY DEF TypeOK
    <3> QED BY <2>2, <2>4, <3>1
  <2>8. asked' \in [Tasks -> 0 .. MaxXfer]
    <3>1. asked \in [Tasks -> 0 .. MaxXfer] /\ 0 \in 0 .. MaxXfer
      BY DEF TypeOK
    <3> QED BY <2>4, <3>1
  <2> QED BY <2>4, <2>5, <2>6, <2>7, <2>8 DEF TypeOK, drv
<1>14. CASE SysWait
  <2>1. eax' \in [0 .. LastTask -> Int] /\ status' \in [0 .. LastTask -> {RUNNING, SLEEPING, WAITING}]
    BY <1>14 DEF SysWait, TypeOK, SYS_WAIT
  <2> QED BY <1>14, <2>1 DEF SysWait, Return, TypeOK, drv
<1>15. CASE SysUnknown
  <2>1. eax' \in [0 .. LastTask -> Int]
    <3>1. eax' = [eax EXCEPT ![t_indice] = 0] /\ eax \in [0 .. LastTask -> Int] /\ 0 \in Int
      BY <1>15 DEF SysUnknown, TypeOK
    <3> QED BY <3>1
  <2>2. cpu' = "control" /\ UNCHANGED <<t_indice, status, asked, mem, sys, drv>>
    BY <1>15 DEF SysUnknown, Return
  <2> QED BY <2>1, <2>2 DEF TypeOK, drv
<1>16. CASE UNCHANGED vars
  BY <1>16 DEF vars, TypeOK
<1> QED
  BY <1>1, <1>2, <1>3, <1>4, <1>5, <1>8, <1>9, <1>10, <1>11, <1>12, <1>13, <1>14, <1>15, <1>16
  DEF Next

\* Type correctness: no system call indexes r_tareas or r_drv out of bounds or
\* stores a value outside its field's range.
THEOREM TypeCorrect == Spec => []TypeOK
BY TypeInit, TypeStep, PTL DEF Spec

-----------------------------------------------------------------------------
(* The inductive invariant of a flat system.                               *)

LEMMA InvInit == Init => IInv
<1> SUFFICES ASSUME Init PROVE IInv
  OBVIOUS
<1>1. TypeOK
  BY TypeInit
<1>2. \A s \in Slots : id_drv[s] = 0
  BY DEF Init
<1>3. \A s \in DevSlots : ~ Open(s)
  BY <1>2, Constants DEF Open
<1>4. \A t \in Tasks : status[t] = RUNNING
  BY Constants DEF Init
<1>5. KernelTasksAsleep /\ ProcessorRuns
  BY Constants DEF Init, KernelTasksAsleep, ProcessorRuns
<1>6. OneDebtPerCaller /\ CallsAgree
  <2>1. \A s \in DevSlots : ~ Busy(s)
    BY <1>3 DEF Busy
  <2>2. \A c \in Clients : status[c] # WAITING
    BY <1>4, Constants DEF WAITING, RUNNING
  <2> QED BY <2>1, <2>2 DEF OneDebtPerCaller, CallsAgree
<1>7. OneEntryPerDriver /\ UnregisteredRuns /\ TasksNeverSleeping
  BY <1>2, <1>3, <1>4, Constants DEF OneEntryPerDriver, UnregisteredRuns, TasksNeverSleeping
<1> QED BY <1>1, <1>5, <1>6, <1>7 DEF IInv

\* A step that changes neither a status nor r_drv preserves the invariant.
LEMMA QuietStep ==
    ASSUME IInv, TypeOK', UNCHANGED <<status, drv>>,
           \A d \in Drivers : sys'[d].call = sys[d].call,
           cpu' = "user" => (t_indice' \in Tasks /\ status[t_indice'] = RUNNING)
    PROVE  IInv'
<1>1. UNCHANGED <<status, id_drv, id_ret, call, buf_ret>>
  BY DEF drv
<1>2. CallsAgree'
  <2> SUFFICES ASSUME NEW s \in DevSlots, Busy(s)'
               PROVE  /\ call'[s] = sys'[id_drv'[s]].call
                      /\ call'[s] = SYS_READ => buf_ret'[s] = id_ret'[s]
    BY DEF CallsAgree
  <2>1. Busy(s) /\ id_drv[s] \in Drivers
    BY <1>1, Constants DEF Busy, Open, IInv, TypeOK
  <2> QED BY <1>1, <2>1 DEF IInv, CallsAgree
<1>3. KernelTasksAsleep' /\ OneEntryPerDriver' /\ TasksNeverSleeping'
  BY <1>1 DEF IInv, KernelTasksAsleep, OneEntryPerDriver, TasksNeverSleeping, Open
<1>4. OneDebtPerCaller'
  BY <1>1 DEF IInv, OneDebtPerCaller, Owes, Busy, Open
<1>5. UnregisteredRuns'
  BY <1>1 DEF IInv, UnregisteredRuns, Registered
<1>6. ProcessorRuns'
  BY <1>1 DEF ProcessorRuns
<1> QED BY <1>2, <1>3, <1>4, <1>5, <1>6 DEF IInv

\* An accepted call: client c sleeps, the idle driver d of entry fd wakes and
\* owes c, and owes nobody else; every other debt is as it was.
LEMMA HandoverStep ==
    ASSUME Flat, IInv, TypeOK', NEW fd \in Slots, NEW which, NEW n, OnCpu(Clients), cpu' = "control",
           id_drv[fd] \in Drivers, status[id_drv[fd]] = WAITING,
           Handover(fd, which, n),
           \/ which = SYS_READ /\ buf_ret' = [buf_ret EXCEPT ![fd] = t_indice]
           \/ which # SYS_READ /\ UNCHANGED buf_ret
    PROVE  IInv'
<1> DEFINE c == t_indice
           d == id_drv[fd]
<1>1. /\ c \in Clients /\ c \in Tasks /\ c \notin Drivers /\ status[c] = RUNNING
      /\ d \in Drivers /\ d \in Tasks /\ d \notin Clients /\ c # d /\ d # 0
  BY Constants DEF Flat, IInv, ProcessorRuns, OnCpu
<1>2. fd \in DevSlots
  BY <1>1, DataAssumption DEF IInv, OneEntryPerDriver, Slots, DevSlots, FirstDev
<1>3. /\ status' = [status EXCEPT ![c] = WAITING, ![d] = RUNNING]
      /\ id_ret' = [id_ret EXCEPT ![fd] = c]
      /\ call' = [call EXCEPT ![fd] = which]
      /\ sys' = [sys EXCEPT ![d] = [call |-> which, count |-> n, ret |-> sys[d].ret]]
      /\ UNCHANGED id_drv
  BY DEF Handover
<1> HIDE DEF c, d
<1>4. /\ status'[c] = WAITING /\ status'[d] = RUNNING
      /\ \A t \in 0 .. LastTask : (t # c /\ t # d) => status'[t] = status[t]
  BY <1>1, <1>3, Constants DEF IInv, TypeOK
<1>5. \A s \in DevSlots : (Open(s) /\ s # fd) =>
          (id_drv[s] # d /\ id_drv[s] # c /\ id_drv[s] \in Drivers /\ id_drv[s] \in 0 .. LastTask)
  <2> SUFFICES ASSUME NEW s \in DevSlots, Open(s), s # fd
               PROVE  id_drv[s] # d /\ id_drv[s] # c /\ id_drv[s] \in Drivers /\ id_drv[s] \in 0 .. LastTask
    OBVIOUS
  <2>1. id_drv[s] \in Drivers
    BY Constants DEF IInv, TypeOK, Open
  <2>2. id_drv[s] # d
    BY <1>2 DEF IInv, OneEntryPerDriver, d
  <2> QED BY <2>1, <2>2, <1>1, Constants
<1>6. \A s \in DevSlots : s # fd => (Busy(s)' <=> Busy(s)) /\ id_ret'[s] = id_ret[s] /\ call'[s] = call[s]
  BY <1>3, <1>4, <1>5, Constants DEF Busy, Open, IInv, TypeOK
<1>7. /\ ~Busy(fd) /\ Busy(fd)' /\ id_ret'[fd] = c /\ call'[fd] = which
      /\ sys'[d].call = which /\ \A e \in Drivers : e # d => sys'[e].call = sys[e].call
  BY <1>1, <1>2, <1>3, <1>4, Constants DEF Busy, Open, IInv, TypeOK, d, RUNNING, WAITING
<1>8. KernelTasksAsleep' /\ TasksNeverSleeping'
  BY <1>1, <1>4, Constants DEF IInv, KernelTasksAsleep, TasksNeverSleeping
<1>9. OneEntryPerDriver' /\ UnregisteredRuns'
  <2>1. OneEntryPerDriver'
    BY <1>3 DEF IInv, OneEntryPerDriver, Open
  <2>2. ASSUME NEW e \in Drivers, ~Registered(e)' PROVE status'[e] = RUNNING
    <3>1. status[e] = RUNNING /\ e # d /\ e # c
      BY <2>2, <1>1, <1>2, <1>3 DEF IInv, UnregisteredRuns, Registered, d
    <3> QED BY <3>1, <1>4, Constants
  <2> QED BY <2>1, <2>2 DEF UnregisteredRuns
<1>10. OneDebtPerCaller'
  <2>1. \A s \in DevSlots : s # fd => (Busy(s) => id_ret[s] # c)
    BY <1>1 DEF IInv, OneDebtPerCaller, RUNNING, WAITING
  <2>2. ASSUME NEW s \in DevSlots, Busy(s)'
        PROVE  id_ret'[s] \in Clients /\ status'[id_ret'[s]] = WAITING
    <3>1. CASE s = fd
      BY <3>1, <1>1, <1>4, <1>7
    <3>2. CASE s # fd
      <4>1. Busy(s) /\ id_ret'[s] = id_ret[s]
        BY <2>2, <3>2, <1>6
      <4>2. id_ret[s] \in Clients /\ status[id_ret[s]] = WAITING
        BY <4>1 DEF IInv, OneDebtPerCaller
      <4> QED BY <4>1, <4>2, <2>1, <3>2, <1>1, <1>4, Constants
    <3> QED BY <3>1, <3>2
  <2>3. ASSUME NEW e \in Clients, status'[e] = WAITING
        PROVE  \E s \in DevSlots : Owes(s, e)' /\ \A r \in DevSlots : Owes(r, e)' => r = s
    <3>1. CASE e = c
      BY <3>1, <1>2, <1>6, <1>7, <2>1 DEF Owes
    <3>2. CASE e # c
      <4>1. status[e] = WAITING
        BY <2>3, <3>2, <1>1, <1>4, Constants
      <4>2. PICK s \in DevSlots : Owes(s, e) /\ \A r \in DevSlots : Owes(r, e) => r = s
        BY <4>1 DEF IInv, OneDebtPerCaller
      <4>3. s # fd
        BY <4>2, <1>7 DEF Owes
      <4> QED BY <4>2, <4>3, <3>2, <1>6, <1>7 DEF Owes
    <3> QED BY <3>1, <3>2
  <2> QED BY <2>2, <2>3 DEF OneDebtPerCaller
<1>11. CallsAgree'
  <2> SUFFICES ASSUME NEW s \in DevSlots, Busy(s)'
               PROVE  /\ call'[s] = sys'[id_drv'[s]].call
                      /\ call'[s] = SYS_READ => buf_ret'[s] = id_ret'[s]
    BY DEF CallsAgree
  <2>1. CASE s = fd
    <3>1. which = SYS_READ => buf_ret'[fd] = c
      BY DEF IInv, TypeOK, c
    <3> QED BY <2>1, <3>1, <1>3, <1>7 DEF d
  <2>2. CASE s # fd
    <3>1. Busy(s) /\ id_drv[s] \in Drivers /\ id_drv[s] # d
      BY <2>2, <1>5, <1>6 DEF Busy
    <3>2. buf_ret'[s] = buf_ret[s]
      BY <2>2, Constants DEF IInv, TypeOK
    <3> QED BY <2>2, <3>1, <3>2, <1>3, <1>6, <1>7 DEF IInv, CallsAgree
  <2> QED BY <2>1, <2>2
<1>12. ProcessorRuns'
  BY DEF ProcessorRuns
<1> QED BY <1>8, <1>9, <1>10, <1>11, <1>12 DEF IInv

\* An answer: the caller of entry s runs, the driver sleeps, the debt is gone.
LEMMA AnswerStep ==
    ASSUME Flat, IInv, TypeOK', NEW d \in Drivers, SysRetAnswers(d)
    PROVE  IInv'
<1>0. PICK f \in DevSlots : f = SlotOf(d)
  BY SlotOfIsItsEntry DEF SysRetAnswers
<1> DEFINE c == id_ret[f]
<1>1. /\ f \in DevSlots /\ f \in Slots /\ id_drv[f] = d /\ d \in Tasks /\ d # 0
      /\ d = t_indice /\ status[d] = RUNNING /\ Busy(f)
  BY <1>0, SlotOfIsItsEntry, Constants DEF SysRetAnswers, OnCpu, IInv, ProcessorRuns, Busy, Open
<1>2. c \in Clients /\ c \in Tasks /\ c # d /\ c \notin Drivers /\ status[c] = WAITING
  BY <1>1, Constants DEF Flat, IInv, OneDebtPerCaller
<1>3. /\ status' = [status EXCEPT ![c] = RUNNING, ![d] = WAITING]
      /\ UNCHANGED <<sys, id_drv, id_ret, call, buf_ret>> /\ cpu' = "control"
  BY <1>0 DEF SysRetAnswers, Answer, Return, drv
<1> HIDE DEF c
<1>4. /\ status'[c] = RUNNING /\ status'[d] = WAITING
      /\ \A t \in 0 .. LastTask : (t # c /\ t # d) => status'[t] = status[t]
  BY <1>1, <1>2, <1>3, Constants DEF IInv, TypeOK
<1>5. \A s \in DevSlots : (Open(s) /\ s # f) =>
          id_drv[s] # d /\ id_drv[s] # c /\ id_drv[s] \in 0 .. LastTask
  <2> SUFFICES ASSUME NEW s \in DevSlots, Open(s), s # f
               PROVE  id_drv[s] # d /\ id_drv[s] # c /\ id_drv[s] \in 0 .. LastTask
    OBVIOUS
  <2>1. id_drv[s] \in Drivers
    BY Constants DEF IInv, TypeOK, Open
  <2>2. id_drv[s] # d
    BY <1>1 DEF IInv, OneEntryPerDriver
  <2> QED BY <2>1, <2>2, <1>2, Constants
<1>6. \A s \in DevSlots : s # f => (Busy(s)' <=> Busy(s))
  BY <1>3, <1>4, <1>5 DEF Busy, Open
<1>7. ~Busy(f)'
  BY <1>1, <1>3, <1>4 DEF Busy, RUNNING, WAITING
<1>8. KernelTasksAsleep' /\ TasksNeverSleeping'
  BY <1>1, <1>2, <1>4, Constants DEF IInv, KernelTasksAsleep, TasksNeverSleeping
<1>9. OneEntryPerDriver'
  BY <1>3 DEF IInv, OneEntryPerDriver, Open
<1>10. UnregisteredRuns'
  <2> SUFFICES ASSUME NEW e \in Drivers, ~Registered(e)' PROVE status'[e] = RUNNING
    BY DEF UnregisteredRuns
  <2>1. status[e] = RUNNING /\ e # d /\ e # c
    BY <1>1, <1>2, <1>3 DEF IInv, UnregisteredRuns, Registered
  <2> QED BY <2>1, <1>4, Constants
<1>11. OneDebtPerCaller'
  <2>1. ASSUME NEW s \in DevSlots, Busy(s)'
        PROVE  id_ret'[s] \in Clients /\ status'[id_ret'[s]] = WAITING
    <3>1. s # f /\ Busy(s)
      BY <2>1, <1>6, <1>7
    <3>2. id_ret[s] \in Clients /\ status[id_ret[s]] = WAITING
      BY <3>1 DEF IInv, OneDebtPerCaller
    <3>3. id_ret[s] # c
      <4>1. \E r \in DevSlots : \A q \in DevSlots : Owes(q, c) => q = r
        BY <1>2 DEF IInv, OneDebtPerCaller
      <4> QED BY <4>1, <3>1, <1>1 DEF Owes, c
    <3>4. id_ret[s] # d
      BY <3>2 DEF Flat
    <3> QED BY <3>2, <3>3, <3>4, <1>3, <1>4, Constants
  <2>2. ASSUME NEW e \in Clients, status'[e] = WAITING
        PROVE  \E s \in DevSlots : Owes(s, e)' /\ \A r \in DevSlots : Owes(r, e)' => r = s
    <3>1. e # c /\ e # d
      BY <2>2, <1>4 DEF Flat, RUNNING, WAITING
    <3>2. status[e] = WAITING
      BY <2>2, <3>1, <1>4, Constants
    <3>3. PICK s \in DevSlots : Owes(s, e) /\ \A r \in DevSlots : Owes(r, e) => r = s
      BY <3>2 DEF IInv, OneDebtPerCaller
    <3>4. s # f
      BY <3>1, <3>3 DEF Owes, c
    <3> QED BY <3>3, <3>4, <1>3, <1>6, <1>7 DEF Owes
  <2> QED BY <2>1, <2>2 DEF OneDebtPerCaller
<1>12. CallsAgree'
  BY <1>3, <1>6, <1>7 DEF IInv, CallsAgree
<1>13. ProcessorRuns'
  BY <1>3 DEF ProcessorRuns
<1> QED BY <1>8, <1>9, <1>10, <1>11, <1>12, <1>13 DEF IInv

\* An accepted registration: a driver that had no entry takes a free one and
\* sleeps, so it owes nothing.
LEMMA RegisterStep ==
    ASSUME Flat, IInv, TypeOK', NEW n, NEW bad, SysReg(n, bad), RegisterCheck(n, bad) = Accept
    PROVE  IInv'
<1> DEFINE d == t_indice
<1>1. ~Registered(d) /\ \E s \in DevSlots : id_drv[s] = 0
  BY DEF RegisterCheck, Accept
<1>0. PICK f \in DevSlots : f = FreeSlot
  BY <1>1, FreeSlotIsFree
<1>2. f \in DevSlots /\ id_drv[f] = 0 /\ f \in Slots /\ f >= FirstDev /\ f # 0
  BY <1>0, <1>1, FreeSlotIsFree, Constants, DataAssumption DEF DevSlots, FirstDev, Slots
<1>3. d \in Drivers /\ d \in Tasks /\ d \notin Clients /\ d # 0
  BY Constants DEF SysReg, OnCpu, Flat
<1>4. /\ status' = [status EXCEPT ![d] = WAITING]
      /\ id_drv' = [id_drv EXCEPT ![f] = d]
      /\ id_ret' = [id_ret EXCEPT ![f] = 0]
      /\ UNCHANGED <<sys, call, buf_ret>> /\ cpu' = "control"
  BY <1>0 DEF SysReg, Return, Accept
<1> HIDE DEF d
<1>5. /\ status'[d] = WAITING
      /\ \A t \in 0 .. LastTask : t # d => status'[t] = status[t]
  BY <1>3, <1>4, Constants DEF IInv, TypeOK
<1>6. /\ id_drv'[f] = d
      /\ \A s \in Slots : s # f => id_drv'[s] = id_drv[s] /\ id_ret'[s] = id_ret[s]
  BY <1>2, <1>4 DEF IInv, TypeOK
<1>7. \A s \in DevSlots : id_drv[s] # d
  BY <1>1 DEF Registered
<1>8. ~Busy(f)'
  BY <1>5, <1>6 DEF Busy, RUNNING, WAITING
<1>9. \A s \in DevSlots : s # f => (Busy(s)' <=> Busy(s)) /\ id_ret'[s] = id_ret[s]
  <2> SUFFICES ASSUME NEW s \in DevSlots, s # f
               PROVE  (Busy(s)' <=> Busy(s)) /\ id_ret'[s] = id_ret[s]
    OBVIOUS
  <2>1. id_drv[s] \in Drivers \cup {0}
    BY Constants DEF IInv, TypeOK
  <2>2. id_drv[s] \in 0 .. LastTask
    BY <2>1, Constants, TaskAssumption
  <2> QED BY <2>1, <2>2, <1>5, <1>6, <1>7, Constants DEF Busy, Open
<1>10. KernelTasksAsleep' /\ TasksNeverSleeping'
  BY <1>3, <1>5, Constants DEF IInv, KernelTasksAsleep, TasksNeverSleeping
<1>11. OneEntryPerDriver'
  <2>1. ASSUME NEW s \in Slots, s < FirstDev PROVE id_drv'[s] = 0
    BY <2>1, <1>2, <1>6, Constants DEF IInv, OneEntryPerDriver, FirstDev
  <2>2. ASSUME NEW s \in DevSlots, NEW r \in DevSlots, Open(s)', id_drv'[s] = id_drv'[r]
        PROVE  s = r
    <3>1. CASE s = f \/ r = f
      BY <2>2, <3>1, <1>6, <1>7, Constants
    <3>2. CASE s # f /\ r # f
      BY <2>2, <3>2, <1>6, Constants DEF IInv, OneEntryPerDriver, Open
    <3> QED BY <3>1, <3>2
  <2> QED BY <2>1, <2>2 DEF OneEntryPerDriver
<1>12. UnregisteredRuns'
  <2> SUFFICES ASSUME NEW e \in Drivers, ~Registered(e)' PROVE status'[e] = RUNNING
    BY DEF UnregisteredRuns
  <2>1. e # d
    BY <1>2, <1>6 DEF Registered
  <2>2. ASSUME NEW s \in DevSlots PROVE id_drv[s] # e
    <3>1. id_drv'[s] # e
      BY DEF Registered
    <3>2. e # 0
      BY Constants
    <3> QED BY <3>1, <3>2, <1>2, <1>6, Constants
  <2> QED BY <2>1, <2>2, <1>5, Constants DEF IInv, UnregisteredRuns, Registered
<1>13. OneDebtPerCaller'
  <2>1. ASSUME NEW s \in DevSlots, Busy(s)'
        PROVE  id_ret'[s] \in Clients /\ status'[id_ret'[s]] = WAITING
    <3>1. s # f /\ Busy(s) /\ id_ret'[s] = id_ret[s]
      BY <2>1, <1>8, <1>9
    <3>2. id_ret[s] \in Clients /\ status[id_ret[s]] = WAITING
      BY <3>1 DEF IInv, OneDebtPerCaller
    <3> QED BY <3>1, <3>2, <1>3, <1>5, Constants
  <2>2. ASSUME NEW e \in Clients, status'[e] = WAITING
        PROVE  \E s \in DevSlots : Owes(s, e)' /\ \A r \in DevSlots : Owes(r, e)' => r = s
    <3>1. status[e] = WAITING
      BY <2>2, <1>3, <1>5, Constants
    <3>2. PICK s \in DevSlots : Owes(s, e) /\ \A r \in DevSlots : Owes(r, e) => r = s
      BY <3>1 DEF IInv, OneDebtPerCaller
    <3>3. s # f
      BY <3>2, <1>2 DEF Owes, Busy, Open
    <3> QED BY <3>2, <3>3, <1>8, <1>9 DEF Owes
  <2> QED BY <2>1, <2>2 DEF OneDebtPerCaller
<1>14. CallsAgree'
  <2> SUFFICES ASSUME NEW s \in DevSlots, Busy(s)'
               PROVE  /\ call'[s] = sys'[id_drv'[s]].call
                      /\ call'[s] = SYS_READ => buf_ret'[s] = id_ret'[s]
    BY DEF CallsAgree
  <2>1. s # f /\ Busy(s) /\ id_ret'[s] = id_ret[s] /\ id_drv'[s] = id_drv[s]
    BY <1>6, <1>8, <1>9, Constants
  <2> QED BY <2>1, <1>4 DEF IInv, CallsAgree
<1>15. ProcessorRuns'
  BY <1>4 DEF ProcessorRuns
<1> QED BY <1>10, <1>11, <1>12, <1>13, <1>14, <1>15 DEF IInv

\* SYS_WAIT: the task that sleeps is neither client nor driver.
LEMMA WaitStep ==
    ASSUME Flat, IInv, TypeOK', SysWait
    PROVE  IInv'
<1> DEFINE w == t_indice
<1>1. w \in Tasks /\ w \notin Clients /\ w \notin Drivers
  BY Constants DEF SysWait, OnCpu, Flat
<1>2. /\ status' = [status EXCEPT ![w] = WAITING]
      /\ UNCHANGED <<sys, id_drv, id_ret, call, buf_ret>> /\ cpu' = "control"
  BY DEF SysWait, Return, drv
<1> HIDE DEF w
<1>3. status'[w] = WAITING /\ \A t \in 0 .. LastTask : t # w => status'[t] = status[t]
  BY <1>1, <1>2, Constants DEF IInv, TypeOK
<1>4. \A s \in DevSlots : Busy(s)' <=> Busy(s)
  <2> SUFFICES ASSUME NEW s \in DevSlots PROVE Busy(s)' <=> Busy(s)
    OBVIOUS
  <2>1. id_drv[s] \in Drivers \cup {0}
    BY Constants DEF IInv, TypeOK
  <2>2. id_drv[s] = 0 \/ (id_drv[s] # w /\ id_drv[s] \in 0 .. LastTask)
    BY <2>1, <1>1, Constants
  <2> QED BY <2>2, <1>2, <1>3 DEF Busy, Open
<1>5. \A c \in Clients : status'[c] = status[c]
  BY <1>1, <1>3, Constants
<1>6. KernelTasksAsleep' /\ TasksNeverSleeping' /\ ProcessorRuns'
  BY <1>1, <1>2, <1>3, Constants
  DEF IInv, KernelTasksAsleep, TasksNeverSleeping, ProcessorRuns
<1>7. OneEntryPerDriver'
  BY <1>2 DEF IInv, OneEntryPerDriver, Open
<1>8. UnregisteredRuns'
  BY <1>1, <1>2, <1>3, Constants DEF IInv, UnregisteredRuns, Registered
<1>9. OneDebtPerCaller'
  BY <1>2, <1>4, <1>5 DEF IInv, OneDebtPerCaller, Owes
<1>10. CallsAgree'
  BY <1>2, <1>4 DEF IInv, CallsAgree
<1> QED BY <1>6, <1>7, <1>8, <1>9, <1>10 DEF IInv

LEMMA InvStep == ASSUME Flat PROVE IInv /\ [Next]_vars => IInv'
<1> SUFFICES ASSUME IInv, [Next]_vars PROVE IInv'
  OBVIOUS
<1>1. TypeOK /\ TypeOK'
  BY TypeStep DEF IInv
<1>2. CASE Scan
  <2>1. cpu' = "user" => (t_indice' \in Tasks /\ status[t_indice'] = RUNNING)
    <3> SUFFICES ASSUME cpu' = "user" PROVE t_indice' \in Tasks /\ status[t_indice'] = RUNNING
      OBVIOUS
    <3>1. status[t_indice'] \in {RUNNING, STARTING} /\ t_indice' \in 0 .. LastTask
      BY <1>1, <1>2 DEF Scan, TypeOK
    <3>4. status[t_indice'] \in {RUNNING, SLEEPING, WAITING}
      BY <1>1, <3>1 DEF TypeOK
    <3>2. status[t_indice'] # SLEEPING /\ status[t_indice'] = RUNNING
      BY <3>4, <3>1 DEF RUNNING, STARTING, SLEEPING, WAITING
    <3>3. t_indice' \notin KernelTasks
      BY <3>2 DEF IInv, KernelTasksAsleep
    <3> QED BY <3>1, <3>2, <3>3, TaskAssumption DEF Tasks, KernelTasks
  <2> QED BY <1>1, <1>2, <2>1, QuietStep DEF Scan
<1>3. CASE Timer
  BY <1>1, <1>3, QuietStep DEF Timer
<1>4. ASSUME NEW v \in Data, Compute(v) PROVE IInv'
  BY <1>1, <1>4, QuietStep DEF Compute, sched, OnCpu, IInv, ProcessorRuns
<1>5. ASSUME NEW n \in 0 .. MaxXfer, NEW r \in Rets, Serve(n, r) PROVE IInv'
  <2>1. sys' = [sys EXCEPT ![t_indice] = [call |-> sys[t_indice].call, count |-> n, ret |-> r]]
    BY <1>5 DEF Serve
  <2>2. \A d \in Drivers : sys'[d].call = sys[d].call
    BY <1>1, <2>1, Constants DEF TypeOK
  <2>3. UNCHANGED <<status, drv>> /\ UNCHANGED <<cpu, t_indice>>
    BY <1>5 DEF Serve, sched
  <2> QED BY <1>1, <2>2, <2>3, QuietStep DEF IInv, ProcessorRuns
<1>6. ASSUME NEW name \in Names, NEW bad \in Faults \cup {0}, SysOpen(name, bad) PROVE IInv'
  BY <1>1, <1>6, QuietStep DEF SysOpen, Return
<1>7. ASSUME NEW which, NEW check, Refused(which, check) PROVE IInv'
  BY <1>1, <1>7, QuietStep DEF Refused, Return
<1>8. ASSUME NEW fd \in 0 .. MAX_DRIVERS, NEW n \in 0 .. MaxXfer + 1, NEW bad \in Faults \cup {0},
             SysRead(fd, n, bad)
      PROVE  IInv'
  <2>1. CASE Refused(SYS_READ, TransferCheck(fd, n, bad))
    BY <1>7, <2>1
  <2>2. CASE ~ Refused(SYS_READ, TransferCheck(fd, n, bad))
    <3>1. /\ OnCpu(Clients) /\ cpu' = "control" /\ CallCheck(fd) = Accept
          /\ Handover(fd, SYS_READ, Limit(fd, n))
          /\ buf_ret' = [buf_ret EXCEPT ![fd] = t_indice]
      BY <1>8, <2>2, TransferAccepted DEF SysRead, Accepted, Return
    <3> QED BY <1>1, <3>1, AcceptedCall, HandoverStep
  <2> QED BY <2>1, <2>2
<1>9. ASSUME NEW fd \in 0 .. MAX_DRIVERS, NEW n \in 0 .. MaxXfer + 1, NEW bad \in Faults \cup {0},
             SysWrite(fd, n, bad)
      PROVE  IInv'
  <2>1. CASE Refused(SYS_WRITE, TransferCheck(fd, n, bad))
    BY <1>7, <2>1
  <2>2. CASE ~ Refused(SYS_WRITE, TransferCheck(fd, n, bad))
    <3>1. /\ OnCpu(Clients) /\ cpu' = "control" /\ CallCheck(fd) = Accept
          /\ Handover(fd, SYS_WRITE, Limit(fd, n)) /\ UNCHANGED buf_ret
      BY <1>9, <2>2, TransferAccepted DEF SysWrite, Accepted, Return
    <3>2. SYS_WRITE # SYS_READ
      BY DEF SYS_WRITE, SYS_READ
    <3> QED BY <1>1, <3>1, <3>2, AcceptedCall, HandoverStep
  <2> QED BY <2>1, <2>2
<1>10. ASSUME NEW fd \in 0 .. MAX_DRIVERS, SysSeek(fd) PROVE IInv'
  <2>1. CASE Refused(SYS_SEEK, CallCheck(fd))
    BY <1>7, <2>1
  <2>2. CASE ~ Refused(SYS_SEEK, CallCheck(fd))
    <3>1. /\ OnCpu(Clients) /\ cpu' = "control" /\ CallCheck(fd) = Accept
          /\ Handover(fd, SYS_SEEK, sys[id_drv[fd]].count) /\ UNCHANGED buf_ret
      BY <1>10, <2>2 DEF SysSeek, Accepted, Return
    <3>2. SYS_SEEK # SYS_READ
      BY DEF SYS_SEEK, SYS_READ
    <3> QED BY <1>1, <3>1, <3>2, AcceptedCall, HandoverStep
  <2> QED BY <2>1, <2>2
<1>11. ASSUME NEW n \in 0 .. MaxXfer + 1, NEW bad \in Faults \cup {0}, SysReg(n, bad) PROVE IInv'
  <2>1. CASE RegisterCheck(n, bad) = Accept
    BY <1>1, <1>11, <2>1, RegisterStep
  <2>2. CASE RegisterCheck(n, bad) # Accept
    BY <1>1, <1>11, <2>2, QuietStep DEF SysReg, Return
  <2> QED BY <2>1, <2>2
<1>12. ASSUME NEW bad \in Faults \cup {0}, SysRetRefused(bad) PROVE IInv'
  BY <1>1, <1>12, QuietStep DEF SysRetRefused, Return
<1>13. ASSUME NEW d \in Drivers, SysRetAnswers(d) PROVE IInv'
  BY <1>1, <1>13, AnswerStep
<1>14. CASE SysWait
  BY <1>1, <1>14, WaitStep
<1>15. CASE SysUnknown
  BY <1>1, <1>15, QuietStep DEF SysUnknown, Return
<1>16. CASE UNCHANGED vars
  <2>1. UNCHANGED <<status, drv, sys, cpu, t_indice>>
    BY <1>16 DEF vars, drv
  <2> QED BY <1>1, <2>1, QuietStep DEF IInv, ProcessorRuns
<1> QED
  BY <1>2, <1>3, <1>4, <1>5, <1>6, <1>8, <1>9, <1>10, <1>11, <1>12, <1>13, <1>14, <1>15, <1>16
  DEF Next

LEMMA Invariance == ASSUME Flat PROVE Spec => []IInv
BY InvInit, InvStep, PTL DEF Spec

\* No caller is lost: in a flat system a client asleep in a call is owed an
\* answer by exactly one driver, and that driver is awake.
THEOREM NoCallerLost == ASSUME Flat PROVE Spec => []OneDebtPerCaller
<1>1. IInv => OneDebtPerCaller
  BY DEF IInv
<1> QED BY <1>1, Invariance, PTL

\* No answer ever wakes one of the kernel's own tasks.
THEOREM KernelStaysAsleep == ASSUME Flat PROVE Spec => []KernelTasksAsleep
<1>1. IInv => KernelTasksAsleep
  BY DEF IInv
<1> QED BY <1>1, Invariance, PTL

\* A client is awake, or asleep and then its driver is awake.
LEMMA SomebodyRuns == ASSUME IInv PROVE SomeRunnable
<1> SUFFICES ASSUME NEW c \in Clients PROVE \E t \in Tasks : status[t] = RUNNING
  BY DEF SomeRunnable
<1>1. CASE status[c] = RUNNING
  BY <1>1, Constants
<1>2. CASE status[c] = WAITING
  <2>1. PICK s \in DevSlots : Owes(s, c)
    BY <1>2 DEF IInv, OneDebtPerCaller
  <2>2. id_drv[s] \in Drivers /\ status[id_drv[s]] = RUNNING
    BY <2>1, Constants DEF Owes, Busy, Open, IInv, TypeOK
  <2> QED BY <2>2, Constants
<1> QED BY <1>1, <1>2, Constants DEF IInv, TasksNeverSleeping

\* task_control always finds a task to run, so its loop with interrupts
\* disabled ends.
THEOREM ScanEnds == ASSUME Flat PROVE Spec => []SomeRunnable
BY SomebodyRuns, Invariance, PTL


-----------------------------------------------------------------------------
(* Names                                                                   *)

\* sys_reg claims the lowest free entry, so the open entries are the first ones,
\* and an entry that is free has no name yet.
OpenFirst ==
    /\ \A s \in DevSlots : id_drv[s] = 0 => arch[s] = NoName
    /\ \A r, s \in DevSlots : r < s /\ id_drv[s] # 0 => id_drv[r] # 0

\* FreeSlot is the lowest free entry.
LEMMA FreeSlotIsFirst ==
    ASSUME \E s \in DevSlots : id_drv[s] = 0
    PROVE  /\ FreeSlot \in DevSlots /\ id_drv[FreeSlot] = 0
           /\ \A r \in DevSlots : r < FreeSlot => id_drv[r] # 0
<1> DEFINE T == {s \in DevSlots : id_drv[s] = 0}
<1>1. T \in SUBSET Nat /\ T # {}
  BY DataAssumption DEF DevSlots, FirstDev
<1>2. PICK x \in T : \A y \in T : x <= y
  <2> HIDE DEF T
  <2> QED BY <1>1, LeastNat
<1>3. FreeSlot \in T /\ \A y \in T : FreeSlot <= y
  BY <1>2 DEF FreeSlot
<1>4. \A r \in DevSlots : r \in Nat
  BY Constants
<1> QED BY <1>3, <1>4

\* The tables of names change in accepted registrations only.
LEMMA NamesStay ==
    ASSUME [Next]_vars
    PROVE  \/ UNCHANGED <<id_drv, arch>>
           \/ \E n \in 0 .. MaxXfer + 1, bad \in Faults \cup {0} :
                  SysReg(n, bad) /\ RegisterCheck(n, bad) = Accept
<1>1. ASSUME NEW fd, NEW which, NEW n, Handover(fd, which, n) PROVE UNCHANGED <<id_drv, arch>>
  BY <1>1 DEF Handover
<1>2. ASSUME NEW fd, NEW n, NEW bad, SysRead(fd, n, bad) \/ SysWrite(fd, n, bad)
      PROVE  UNCHANGED <<id_drv, arch>>
  BY <1>1, <1>2 DEF SysRead, SysWrite, Refused, drv
<1>3. ASSUME NEW fd, SysSeek(fd) PROVE UNCHANGED <<id_drv, arch>>
  BY <1>1, <1>3 DEF SysSeek, Refused, drv
<1>4. ASSUME NEW n, NEW bad, SysReg(n, bad), RegisterCheck(n, bad) # Accept
      PROVE  UNCHANGED <<id_drv, arch>>
  BY <1>4 DEF SysReg, drv
<1> QED
  BY <1>2, <1>3, <1>4 DEF Next, vars, drv, Scan, Timer, Compute, Serve, SysOpen, SysRetRefused,
     SysRetAnswers, SysWait, SysUnknown

\* What an accepted registration does to the tables of names.
LEMMA RegisterNames ==
    ASSUME TypeOK, NEW n, NEW bad, SysReg(n, bad), RegisterCheck(n, bad) = Accept
    PROVE  /\ FreeSlot \in DevSlots /\ FreeSlot \in Slots /\ id_drv[FreeSlot] = 0
           /\ \A r \in DevSlots : r < FreeSlot => id_drv[r] # 0
           /\ t_indice \in Drivers /\ t_indice # 0
           /\ id_drv' = [id_drv EXCEPT ![FreeSlot] = t_indice]
           /\ arch' = [arch EXCEPT ![FreeSlot] = DevName[t_indice]]
<1>1. \E s \in DevSlots : id_drv[s] = 0
  BY DEF RegisterCheck, Accept
<1>2. t_indice \in Drivers /\ t_indice # 0
  BY Constants DEF SysReg, OnCpu
<1> QED BY <1>1, <1>2, FreeSlotIsFirst, Constants DEF SysReg

\* OpenFirst is inductive.
LEMMA OpenFirstStep == TypeOK /\ OpenFirst /\ [Next]_vars => OpenFirst'
<1> SUFFICES ASSUME TypeOK, OpenFirst, [Next]_vars PROVE OpenFirst'
  OBVIOUS
<1>1. CASE UNCHANGED <<id_drv, arch>>
  BY <1>1 DEF OpenFirst
<1>2. ASSUME NEW n, NEW bad, SysReg(n, bad), RegisterCheck(n, bad) = Accept PROVE OpenFirst'
  <2> DEFINE f == FreeSlot
  <2>1. /\ f \in DevSlots /\ f \in Slots /\ id_drv[f] = 0 /\ t_indice # 0
        /\ \A r \in DevSlots : r < f => id_drv[r] # 0
        /\ id_drv' = [id_drv EXCEPT ![f] = t_indice]
        /\ arch' = [arch EXCEPT ![f] = DevName[t_indice]]
    BY <1>2, RegisterNames
  <2> HIDE DEF f
  <2>2. /\ \A s \in DevSlots : s # f => id_drv'[s] = id_drv[s] /\ arch'[s] = arch[s]
        /\ id_drv'[f] # 0
    BY <2>1, Constants DEF TypeOK
  <2>3. ASSUME NEW s \in DevSlots, id_drv'[s] = 0 PROVE arch'[s] = NoName
    BY <2>2, <2>3 DEF OpenFirst
  <2>4. ASSUME NEW r \in DevSlots, NEW s \in DevSlots, r < s, id_drv'[s] # 0 PROVE id_drv'[r] # 0
    <3>1. CASE r = f
      BY <3>1, <2>2
    <3>2. CASE r # f /\ s = f
      BY <3>2, <2>1, <2>2, <2>4
    <3>3. CASE r # f /\ s # f
      BY <3>3, <2>2, <2>4 DEF OpenFirst
    <3> QED BY <3>1, <3>2, <3>3
  <2> QED BY <2>3, <2>4 DEF OpenFirst
<1> QED BY <1>1, <1>2, NamesStay

\* A name that resolves goes on to resolve to the same entry.
LEMMA LookupStep ==
    ASSUME TypeOK, OpenFirst, [Next]_vars, NEW name \in Names, Lookup(name) \in Slots
    PROVE  Lookup(name)' = Lookup(name)
<1>1. CASE UNCHANGED <<id_drv, arch>>
  BY <1>1 DEF Lookup
<1>2. ASSUME NEW n, NEW bad, SysReg(n, bad), RegisterCheck(n, bad) = Accept
      PROVE  Lookup(name)' = Lookup(name)
  <2> DEFINE f == FreeSlot
             s == Lookup(name)
  <2>1. /\ f \in DevSlots /\ f \in Slots /\ id_drv[f] = 0
        /\ arch' = [arch EXCEPT ![f] = DevName[t_indice]]
    BY <1>2, RegisterNames
  <2>2. /\ s \in DevSlots /\ arch[s] = name
        /\ \A r \in DevSlots : arch[r] = name => s <= r
    <3>1. s # -7
      BY Constants
    <3> QED BY <3>1, LookupFirst
  <2> HIDE DEF f, s
  <2>3. id_drv[s] # 0
    BY <2>2, DataAssumption DEF OpenFirst
  <2>4. s < f
    <3>1. s # f /\ ~(f < s)
      BY <2>1, <2>2, <2>3 DEF OpenFirst
    <3> QED BY <2>1, <2>2, <3>1, Constants
  <2>5. \A r \in DevSlots : r # f => arch'[r] = arch[r]
    BY <2>1, Constants DEF TypeOK
  <2>6. s \in DevSlots /\ arch'[s] = name /\ \A r \in DevSlots : arch'[r] = name => s <= r
    BY <2>1, <2>2, <2>4, <2>5, Constants
  <2>7. \A x \in DevSlots : (arch'[x] = name /\ \A r \in DevSlots : arch'[r] = name => x <= r) => x = s
    BY <2>6, Constants
  <2>8. Lookup(name)' = CHOOSE x \in DevSlots : arch'[x] = name /\ \A r \in DevSlots : arch'[r] = name => x <= r
    BY <2>6 DEF Lookup
  <2>9. Lookup(name)' = s
    BY <2>6, <2>7, <2>8
  <2> QED BY <2>9 DEF s
<1> QED BY <1>1, <1>2, NamesStay

\* Once sys_open has found a device the name keeps its descriptor, however many
\* drivers register it.
THEOREM NamesKept == Spec => NamesKeepResolving
<1>1. Init => OpenFirst
  BY Constants DEF Init, OpenFirst
<1>2. TypeOK /\ OpenFirst /\ [Next]_vars =>
          [\A name \in Names : Lookup(name) \in Slots => Lookup(name)' = Lookup(name)]_vars
  BY LookupStep
<1> QED
  BY <1>1, <1>2, OpenFirstStep, TypeCorrect, PTL DEF Spec, NamesKeepResolving

-----------------------------------------------------------------------------
(* Answers                                                                 *)

\* An accepted call touches the caller and the driver it wakes.
LEMMA HandoverTouches ==
    ASSUME Flat, TypeOK, NEW fd \in 0 .. MAX_DRIVERS, NEW which, NEW n, NEW check,
           Accepted(which, check), CallCheck(fd) = Accept, Handover(fd, which, n),
           NEW c \in Clients, c # t_indice
    PROVE  eax'[c] = eax[c] /\ status'[c] = status[c] /\ c # id_drv[fd] /\ id_drv[fd] \in Tasks
<1>1. id_drv[fd] \in Drivers
  BY AcceptedCall
<1>2. c # id_drv[fd] /\ c \in 0 .. LastTask /\ id_drv[fd] \in Tasks
  BY <1>1, Constants DEF Flat
<1> QED BY <1>2 DEF Accepted, CallNumberStays, Handover, TypeOK

\* What SYS_RET of driver d does, in terms of the debt it pays.
LEMMA AnswerTouches ==
    ASSUME Flat, IInv, NEW d \in Drivers, SysRetAnswers(d)
    PROVE  \E s \in DevSlots :
             /\ id_drv[s] = d /\ d = t_indice /\ Busy(s) /\ ~Busy(s)'
             /\ id_ret[s] \in Clients /\ id_ret[s] \in Tasks /\ id_ret[s] # d
             /\ status[id_ret[s]] = WAITING
             /\ status' = [status EXCEPT ![id_ret[s]] = RUNNING, ![d] = WAITING]
             /\ eax' = [eax EXCEPT ![d] = SYS_RET, ![id_ret[s]] = sys[d].ret]
             /\ \/ mem' = mem
                \/ sys[d].call = SYS_READ /\ mem' = [mem EXCEPT ![id_ret[s]] = mem[d]]
<1>1. PICK s \in DevSlots : s = SlotOf(d)
  BY SlotOfIsItsEntry DEF SysRetAnswers
<1>2. /\ id_drv[s] = d /\ d = t_indice /\ status[d] = RUNNING /\ Busy(s) /\ d \in Tasks
  BY <1>1, SlotOfIsItsEntry, Constants DEF SysRetAnswers, OnCpu, IInv, ProcessorRuns, Busy, Open
<1>3. id_ret[s] \in Clients /\ id_ret[s] \in Tasks /\ id_ret[s] # d /\ status[id_ret[s]] = WAITING
  BY <1>2, Constants DEF Flat, IInv, OneDebtPerCaller
<1>4. call[s] = sys[d].call /\ (call[s] = SYS_READ => buf_ret[s] = id_ret[s])
  BY <1>2 DEF IInv, CallsAgree
<1>5. /\ status' = [status EXCEPT ![id_ret[s]] = RUNNING, ![d] = WAITING]
      /\ eax' = [eax EXCEPT ![d] = SYS_RET, ![id_ret[s]] = sys[d].ret]
      /\ mem' = mem \/ (call[s] = SYS_READ /\ mem' = [mem EXCEPT ![buf_ret[s]] = mem[d]])
      /\ UNCHANGED id_drv
  BY <1>1 DEF SysRetAnswers, Answer, drv
<1>6. ~Busy(s)'
  <2>1. status'[d] = WAITING
    BY <1>2, <1>5, Constants DEF IInv, TypeOK
  <2> QED BY <1>2, <1>5, <2>1 DEF Busy, RUNNING, WAITING
<1> QED BY <1>2, <1>3, <1>4, <1>5, <1>6

\* What a client owns while another task runs.
LEMMA ReplyStep ==
    ASSUME Flat, IInv, [Next]_vars, NEW c \in Clients, ~OnCpu({c})
    PROVE  \/ UNCHANGED <<eax[c], mem[c], status[c]>>
           \/ \E s \in DevSlots :
                 /\ Owes(s, c) /\ OnCpu({id_drv[s]})
                 /\ status'[c] = RUNNING /\ ~Busy(s)'
                 /\ eax'[c] = sys[id_drv[s]].ret
                 /\ \/ mem'[c] = mem[c]
                    \/ sys[id_drv[s]].call = SYS_READ /\ mem'[c] = mem[id_drv[s]]
<1> USE Constants
<1> DEFINE Kept == UNCHANGED <<eax[c], mem[c], status[c]>>
<1>0. TypeOK /\ c \in Tasks /\ c \in 0 .. LastTask
  BY DEF IInv
<1>1. cpu = "user" => c # t_indice
  BY DEF OnCpu
<1>2. ASSUME NEW which, NEW check, Refused(which, check) PROVE Kept
  BY <1>0, <1>1, <1>2 DEF Refused, CallNumberStays, OnCpu, TypeOK
<1>3. ASSUME NEW fd \in 0 .. MAX_DRIVERS, NEW n \in 0 .. MaxXfer + 1, NEW bad, SysRead(fd, n, bad) PROVE Kept
  <2>1. CASE Refused(SYS_READ, TransferCheck(fd, n, bad))
    BY <1>2, <2>1
  <2>2. CASE ~Refused(SYS_READ, TransferCheck(fd, n, bad))
    <3>1. /\ Accepted(SYS_READ, TransferCheck(fd, n, bad)) /\ CallCheck(fd) = Accept
          /\ Handover(fd, SYS_READ, Limit(fd, n)) /\ UNCHANGED mem
      BY <1>3, <2>2, TransferAccepted DEF SysRead, Accepted
    <3>2. c # t_indice
      BY <1>1, <3>1 DEF Accepted, OnCpu
    <3> QED BY <1>0, <3>1, <3>2, HandoverTouches
  <2> QED BY <2>1, <2>2
<1>4. ASSUME NEW fd \in 0 .. MAX_DRIVERS, NEW n \in 0 .. MaxXfer + 1, NEW bad, SysWrite(fd, n, bad) PROVE Kept
  <2>1. CASE Refused(SYS_WRITE, TransferCheck(fd, n, bad))
    BY <1>2, <2>1
  <2>2. CASE ~Refused(SYS_WRITE, TransferCheck(fd, n, bad))
    <3>1. /\ Accepted(SYS_WRITE, TransferCheck(fd, n, bad)) /\ CallCheck(fd) = Accept
          /\ Handover(fd, SYS_WRITE, Limit(fd, n))
          /\ mem' = mem \/ mem' = [mem EXCEPT ![id_drv[fd]] = mem[t_indice]]
      BY <1>4, <2>2, TransferAccepted DEF SysWrite, Accepted
    <3>2. c # t_indice
      BY <1>1, <3>1 DEF Accepted, OnCpu
    <3>3. eax'[c] = eax[c] /\ status'[c] = status[c] /\ c # id_drv[fd]
      BY <1>0, <3>1, <3>2, HandoverTouches
    <3>4. mem'[c] = mem[c]
      BY <1>0, <3>1, <3>3 DEF TypeOK
    <3> QED BY <3>3, <3>4
  <2> QED BY <2>1, <2>2
<1>5. ASSUME NEW fd \in 0 .. MAX_DRIVERS, SysSeek(fd) PROVE Kept
  <2>1. CASE Refused(SYS_SEEK, CallCheck(fd))
    BY <1>2, <2>1
  <2>2. CASE ~Refused(SYS_SEEK, CallCheck(fd))
    <3>1. /\ Accepted(SYS_SEEK, CallCheck(fd)) /\ CallCheck(fd) = Accept
          /\ Handover(fd, SYS_SEEK, sys[id_drv[fd]].count) /\ UNCHANGED mem
      BY <1>5, <2>2 DEF SysSeek, Accepted
    <3>2. c # t_indice
      BY <1>1, <3>1 DEF Accepted, OnCpu
    <3> QED BY <1>0, <3>1, <3>2, HandoverTouches
  <2> QED BY <2>1, <2>2
<1>6. ASSUME NEW n, NEW bad, SysReg(n, bad) PROVE Kept
  BY <1>0, <1>1, <1>6 DEF SysReg, OnCpu, TypeOK
<1>7. ASSUME NEW d \in Drivers, SysRetAnswers(d)
      PROVE  Kept \/ \E s \in DevSlots :
                 /\ Owes(s, c) /\ OnCpu({id_drv[s]})
                 /\ status'[c] = RUNNING /\ ~Busy(s)'
                 /\ eax'[c] = sys[id_drv[s]].ret
                 /\ \/ mem'[c] = mem[c]
                    \/ sys[id_drv[s]].call = SYS_READ /\ mem'[c] = mem[id_drv[s]]
  <2>1. PICK s \in DevSlots :
             /\ id_drv[s] = d /\ d = t_indice /\ Busy(s) /\ ~Busy(s)'
             /\ id_ret[s] \in Clients /\ id_ret[s] \in Tasks /\ id_ret[s] # d
             /\ status[id_ret[s]] = WAITING
             /\ status' = [status EXCEPT ![id_ret[s]] = RUNNING, ![d] = WAITING]
             /\ eax' = [eax EXCEPT ![d] = SYS_RET, ![id_ret[s]] = sys[d].ret]
             /\ \/ mem' = mem
                \/ sys[d].call = SYS_READ /\ mem' = [mem EXCEPT ![id_ret[s]] = mem[d]]
    BY <1>7, AnswerTouches
  <2>2. c # d
    BY DEF Flat
  <2>3. CASE c # id_ret[s]
    BY <1>0, <2>1, <2>2, <2>3 DEF TypeOK
  <2>4. CASE c = id_ret[s]
    <3>1. status'[c] = RUNNING /\ eax'[c] = sys[d].ret
      BY <1>0, <2>1, <2>2, <2>4 DEF TypeOK
    <3>2. mem'[c] = mem[c] \/ (sys[d].call = SYS_READ /\ mem'[c] = mem[d])
      BY <1>0, <2>1, <2>4 DEF TypeOK
    <3>3. Owes(s, c) /\ OnCpu({id_drv[s]})
      BY <1>7, <2>1, <2>4 DEF Owes, SysRetAnswers, OnCpu
    <3> QED BY <2>1, <3>1, <3>2, <3>3
  <2> QED BY <2>3, <2>4
<1>8. CASE SysWait \/ SysUnknown \/ (\E v \in Data : Compute(v))
           \/ (\E name \in Names, bad \in Faults \cup {0} : SysOpen(name, bad))
           \/ \E bad \in Faults \cup {0} : SysRetRefused(bad)
  BY <1>0, <1>1, <1>8 DEF SysWait, SysUnknown, Compute, SysOpen, SysRetRefused, OnCpu, TypeOK
<1>9. CASE Scan \/ Timer \/ (\E n \in 0 .. MaxXfer, r \in Rets : Serve(n, r)) \/ UNCHANGED vars
  BY <1>9 DEF Scan, Timer, Serve, vars
<1> QED
  BY <1>3, <1>4, <1>5, <1>6, <1>7, <1>8, <1>9 DEF Next

\* What a blocked client owns is changed by the answer to its call only.
THEOREM OnlyRepliesTouch == ASSUME Flat PROVE Spec => OnlyTheReplyTouches
<1>1. IInv /\ [Next]_vars =>
        [\A c \in Clients :
         \/ OnCpu({c})
         \/ UNCHANGED <<eax[c], mem[c], status[c]>>
         \/ \E s \in DevSlots :
                /\ Owes(s, c) /\ OnCpu({id_drv[s]})
                /\ status'[c] = RUNNING /\ ~Busy(s)'
                /\ eax'[c] = sys[id_drv[s]].ret
                /\ \/ mem'[c] = mem[c]
                   \/ sys[id_drv[s]].call = SYS_READ /\ mem'[c] = mem[id_drv[s]]]_vars
  BY ReplyStep
<1> QED
  BY <1>1, Invariance, PTL DEF Spec, OnlyTheReplyTouches

-----------------------------------------------------------------------------
(* How much an answer copies                                               *)

\* A driver that serves a read reports at most what its caller asked for.
Fitting(s) ==
    Busy(s) /\ sys[id_drv[s]].call = SYS_READ => sys[id_drv[s]].count <= asked[id_ret[s]]

Fits == \A s \in DevSlots : Fitting(s)

\* An entry that goes on with its call: the driver may have lowered its count.
Continues(s) ==
    /\ Busy(s) /\ id_drv'[s] = id_drv[s] /\ id_ret'[s] = id_ret[s]
    /\ sys'[id_drv[s]].call = sys[id_drv[s]].call
    /\ sys'[id_drv[s]].count <= sys[id_drv[s]].count
    /\ asked'[id_ret[s]] = asked[id_ret[s]]

LEMMA FittingKept ==
    ASSUME IInv, TypeOK', NEW s \in DevSlots, Fitting(s), Busy(s)' => Continues(s)
    PROVE  Fitting(s)'
<1> SUFFICES ASSUME Busy(s)', sys'[id_drv'[s]].call = SYS_READ
             PROVE  sys'[id_drv'[s]].count <= asked'[id_ret'[s]]
  BY DEF Fitting
<1> DEFINE d == id_drv[s]
           c == id_ret[s]
<1>1. Busy(s) /\ id_drv'[s] = d /\ id_ret'[s] = c
  BY DEF Continues
<1>2. d \in Drivers /\ d \in Tasks /\ c \in Clients /\ c \in Tasks
  BY <1>1, Constants DEF IInv, TypeOK, Busy, Open, OneDebtPerCaller
<1>3. sys'[d].call = sys[d].call /\ sys'[d].count <= sys[d].count /\ asked'[c] = asked[c]
  BY DEF Continues
<1>4. sys[d].count <= asked[c]
  BY <1>1, <1>3 DEF Fitting
<1>5. sys'[d].count \in Int /\ sys[d].count \in Int /\ asked[c] \in Int
  <2>1. sys[d] \in Param /\ sys'[d] \in Param /\ asked[c] \in 0 .. MaxXfer
    BY <1>2 DEF IInv, TypeOK
  <2> QED BY <2>1 DEF Param
<1> HIDE DEF d, c
<1>6. sys'[d].count <= asked'[c]
  BY <1>3, <1>4, <1>5
<1> QED BY <1>1, <1>6 DEF d, c

\* Steps that leave the statuses and the table of drivers alone.
LEMMA FittingQuiet ==
    ASSUME IInv, TypeOK', Fits, UNCHANGED <<status, drv, sys, asked>>
    PROVE  Fits'
<1> SUFFICES ASSUME NEW s \in DevSlots PROVE Fitting(s)'
  BY DEF Fits
<1>1. Fitting(s)
  BY DEF Fits
<1>2. UNCHANGED <<status, id_drv, id_ret, sys, asked>>
  BY DEF drv
<1> QED BY <1>1, <1>2 DEF Fitting, Busy, Open

\* A call limits its own transfer and leaves those that are under way alone.
LEMMA FittingCall ==
    ASSUME Flat, IInv, TypeOK', Fits, NEW fd \in 0 .. MAX_DRIVERS, OnCpu(Clients),
           CallCheck(fd) = Accept, NEW which, NEW n, NEW m, Handover(fd, which, n),
           asked' = asked \/ asked' = [asked EXCEPT ![t_indice] = m],
           which = SYS_READ => (n <= m /\ asked' = [asked EXCEPT ![t_indice] = m])
    PROVE  Fits'
<1> DEFINE c == t_indice
           d == id_drv[fd]
<1>1. /\ c \in Clients /\ c \in Tasks /\ c \notin Drivers /\ status[c] = RUNNING
      /\ fd \in Slots /\ d \in Drivers /\ d \in Tasks /\ c # d /\ d # 0 /\ status[d] = WAITING
  BY AcceptedCall, Constants DEF Flat, IInv, ProcessorRuns, OnCpu
<1>2. fd \in DevSlots
  BY <1>1, DataAssumption DEF IInv, OneEntryPerDriver, Slots, DevSlots, FirstDev
<1>3. /\ status' = [status EXCEPT ![c] = WAITING, ![d] = RUNNING]
      /\ id_ret' = [id_ret EXCEPT ![fd] = c]
      /\ sys' = [sys EXCEPT ![d] = [call |-> which, count |-> n, ret |-> sys[d].ret]]
      /\ UNCHANGED id_drv
  BY DEF Handover
<1>0. /\ asked' = asked \/ asked' = [asked EXCEPT ![c] = m]
      /\ which = SYS_READ => (n <= m /\ asked' = [asked EXCEPT ![c] = m])
  OBVIOUS
<1> HIDE DEF c, d
<1> SUFFICES ASSUME NEW s \in DevSlots PROVE Fitting(s)'
  BY DEF Fits
<1>4. Fitting(s)
  BY DEF Fits
<1>5. CASE s # fd
  <2> SUFFICES ASSUME Busy(s)' PROVE Continues(s)
    BY <1>4, FittingKept
  <2>1. id_drv[s] \in Drivers /\ id_drv[s] # d /\ id_drv[s] # c /\ id_drv[s] \in Tasks
    <3>1. id_drv[s] \in Drivers
      BY <1>3, Constants DEF IInv, TypeOK, Busy, Open
    <3>2. id_drv[s] # d
      BY <1>1, <1>2, <1>5 DEF IInv, OneEntryPerDriver, Open, d
    <3> QED BY <3>1, <3>2, <1>1, Constants
  <2>2. Busy(s) /\ id_drv'[s] = id_drv[s] /\ id_ret'[s] = id_ret[s] /\ sys'[id_drv[s]] = sys[id_drv[s]]
    BY <1>1, <1>2, <1>3, <1>5, <2>1, Constants DEF IInv, TypeOK, Busy, Open
  <2>3. id_ret[s] \in Clients /\ status[id_ret[s]] = WAITING
    BY <2>2 DEF IInv, OneDebtPerCaller
  <2>4. id_ret[s] # c /\ id_ret[s] \in Tasks
    <3>1. status[id_ret[s]] # status[c]
      BY <2>3, <1>1 DEF RUNNING, WAITING
    <3> QED BY <3>1, <2>3, Constants
  <2>5. asked'[id_ret[s]] = asked[id_ret[s]]
    BY <1>0, <2>4 DEF IInv, TypeOK
  <2>6. sys[id_drv[s]].count <= sys[id_drv[s]].count
    <3>1. sys[id_drv[s]].count \in Int
      BY <2>1 DEF IInv, TypeOK, Param
    <3> QED BY <3>1
  <2> QED BY <2>2, <2>5, <2>6 DEF Continues
<1>6. CASE s = fd
  <2>1. id_drv'[fd] = d /\ id_ret'[fd] = c
    BY <1>1, <1>3 DEF IInv, TypeOK, d
  <2>2. sys'[d].call = which /\ sys'[d].count = n
    BY <1>1, <1>3 DEF IInv, TypeOK
  <2>3. which = SYS_READ => asked'[c] = m /\ n <= m
    BY <1>0, <1>1 DEF IInv, TypeOK
  <2> QED BY <1>6, <2>1, <2>2, <2>3 DEF Fitting
<1> QED BY <1>5, <1>6

\* An answer ends one transfer.
LEMMA FittingAnswer ==
    ASSUME Flat, IInv, TypeOK', Fits, NEW e \in Drivers, SysRetAnswers(e)
    PROVE  Fits'
<1>0. PICK f \in DevSlots : f = SlotOf(e)
  BY SlotOfIsItsEntry DEF SysRetAnswers
<1> DEFINE c == id_ret[f]
<1>1. id_drv[f] = e /\ e \in Tasks /\ Busy(f)
  BY <1>0, SlotOfIsItsEntry, Constants DEF SysRetAnswers, OnCpu, IInv, ProcessorRuns, Busy, Open
<1>2. c \in Clients /\ c \in Tasks /\ c # e /\ c \notin Drivers /\ status[c] = WAITING
  BY <1>1, Constants DEF Flat, IInv, OneDebtPerCaller
<1>3. /\ status' = [status EXCEPT ![c] = RUNNING, ![e] = WAITING]
      /\ asked' = [asked EXCEPT ![c] = 0]
      /\ UNCHANGED <<sys, id_drv, id_ret>>
  BY <1>0, <1>2 DEF SysRetAnswers, Answer, drv
<1>7. Owes(f, c)
  BY <1>1 DEF Owes
<1> HIDE DEF c
<1> SUFFICES ASSUME NEW s \in DevSlots, Busy(s)' PROVE Continues(s)
  BY FittingKept DEF Fits
<1>4. s # f /\ id_drv[s] # e
  <2>1. status'[e] = WAITING
    BY <1>1, <1>2, <1>3, Constants DEF IInv, TypeOK
  <2>2. id_drv'[s] # e
    BY <2>1 DEF Busy, RUNNING, WAITING
  <2> QED BY <2>2, <1>1, <1>3
<1>5. id_drv[s] \in Drivers /\ id_drv[s] # c /\ id_drv[s] \in Tasks
  <2>1. id_drv[s] \in Drivers
    BY <1>3, Constants DEF IInv, TypeOK, Busy, Open
  <2> QED BY <2>1, <1>2, Constants
<1>6. Busy(s)
  BY <1>3, <1>4, <1>5, Constants DEF IInv, TypeOK, Busy, Open
<1>8. id_ret[s] # c /\ id_ret[s] \in Tasks
  <2>1. \E r \in DevSlots : \A q \in DevSlots : Owes(q, c) => q = r
    BY <1>2 DEF IInv, OneDebtPerCaller
  <2>2. id_ret[s] # c
    BY <2>1, <1>4, <1>6, <1>7 DEF Owes
  <2> QED BY <2>2, <1>6, Constants DEF IInv, OneDebtPerCaller
<1>9. asked'[id_ret[s]] = asked[id_ret[s]]
  BY <1>3, <1>8 DEF IInv, TypeOK
<1>10. sys[id_drv[s]].count <= sys[id_drv[s]].count
  <2>1. sys[id_drv[s]].count \in Int
    BY <1>5 DEF IInv, TypeOK, Param
  <2> QED BY <2>1
<1> QED BY <1>3, <1>6, <1>9, <1>10 DEF Continues

\* A driver that registers, or a task that waits, sleeps.
LEMMA FittingSleep ==
    ASSUME IInv, TypeOK', Fits, UNCHANGED <<sys, asked>>, NEW t \in Tasks,
           status' = [status EXCEPT ![t] = WAITING],
           \A s \in DevSlots : id_drv'[s] = t \/ (id_drv'[s] = id_drv[s] /\ id_ret'[s] = id_ret[s])
    PROVE  Fits'
<1>1. t \in 0 .. LastTask
  BY Constants
<1>2. status'[t] = WAITING /\ \A u \in 0 .. LastTask : u # t => status'[u] = status[u]
  BY <1>1 DEF IInv, TypeOK
<1> SUFFICES ASSUME NEW s \in DevSlots, Busy(s)' PROVE Continues(s)
  BY FittingKept DEF Fits
<1>3. id_drv'[s] # t
  BY <1>2 DEF Busy, RUNNING, WAITING
<1>4. id_drv'[s] = id_drv[s] /\ id_ret'[s] = id_ret[s]
  BY <1>3
<1>5. id_drv[s] \in Drivers /\ id_drv[s] \in Tasks /\ id_drv[s] \in 0 .. LastTask
  BY <1>4, Constants DEF IInv, TypeOK, Busy, Open
<1>6. Busy(s)
  BY <1>2, <1>3, <1>4, <1>5 DEF Busy, Open
<1>7. sys[id_drv[s]].count \in Int
  BY <1>5 DEF IInv, TypeOK, Param
<1> QED BY <1>4, <1>6, <1>7 DEF Continues

\* A driver that serves a call reports no more than it was asked for.
LEMMA FittingServe ==
    ASSUME HonestCount, IInv, TypeOK', Fits, NEW n \in 0 .. MaxXfer, NEW r, Serve(n, r)
    PROVE  Fits'
<1> DEFINE t == t_indice
<1>1. t \in Drivers /\ t \in Tasks /\ n <= sys[t].count
  BY Constants DEF Serve, OnCpu
<1>2. /\ sys' = [sys EXCEPT ![t] = [call |-> sys[t].call, count |-> n, ret |-> r]]
      /\ UNCHANGED <<status, asked, id_drv, id_ret>>
  BY DEF Serve, drv
<1> HIDE DEF t
<1> SUFFICES ASSUME NEW s \in DevSlots, Busy(s)' PROVE Continues(s)
  BY FittingKept DEF Fits
<1>3. Busy(s)
  BY <1>2 DEF Busy, Open
<1>4. id_drv[s] \in Tasks
  BY <1>3, Constants DEF IInv, TypeOK, Busy, Open
<1>5. sys[id_drv[s]].count \in Int
  BY <1>4 DEF IInv, TypeOK, Param
<1>6. /\ sys'[id_drv[s]].call = sys[id_drv[s]].call
      /\ sys'[id_drv[s]].count <= sys[id_drv[s]].count
  <2>1. CASE id_drv[s] = t
    BY <1>1, <1>2, <2>1 DEF IInv, TypeOK
  <2>2. CASE id_drv[s] # t
    BY <1>2, <1>4, <1>5, <2>2 DEF IInv, TypeOK
  <2> QED BY <2>1, <2>2
<1> QED BY <1>2, <1>3, <1>6 DEF Continues

LEMMA FitsStep ==
    ASSUME Flat, HonestCount, IInv, Fits, [Next]_vars
    PROVE  Fits'
<1>0. TypeOK /\ TypeOK'
  BY TypeStep DEF IInv
<1>1. CASE UNCHANGED <<status, drv, sys, asked>>
  BY <1>0, <1>1, FittingQuiet
<1>2. ASSUME NEW n \in 0 .. MaxXfer, NEW r \in Rets, Serve(n, r) PROVE Fits'
  BY <1>0, <1>2, FittingServe
<1>3. ASSUME NEW which, NEW check, Refused(which, check) PROVE Fits'
  BY <1>1, <1>3 DEF Refused
<1>4. ASSUME NEW fd \in 0 .. MAX_DRIVERS, NEW n \in 0 .. MaxXfer + 1, NEW bad, SysRead(fd, n, bad) PROVE Fits'
  <2>1. CASE Refused(SYS_READ, TransferCheck(fd, n, bad))
    BY <1>3, <2>1
  <2>2. CASE ~Refused(SYS_READ, TransferCheck(fd, n, bad))
    <3>1. /\ OnCpu(Clients) /\ CallCheck(fd) = Accept /\ BufferCheck(n, bad) = Accept
          /\ Handover(fd, SYS_READ, Limit(fd, n)) /\ asked' = [asked EXCEPT ![t_indice] = n]
      BY <1>4, <2>2, TransferAccepted DEF SysRead, Accepted
    <3>2. Limit(fd, n) <= n
      BY <1>0, <3>1, AcceptedCall, LimitType
    <3> QED BY <1>0, <3>1, <3>2, FittingCall
  <2> QED BY <2>1, <2>2
<1>5. ASSUME NEW fd \in 0 .. MAX_DRIVERS, NEW n \in 0 .. MaxXfer + 1, NEW bad, SysWrite(fd, n, bad) PROVE Fits'
  <2>1. CASE Refused(SYS_WRITE, TransferCheck(fd, n, bad))
    BY <1>3, <2>1
  <2>2. CASE ~Refused(SYS_WRITE, TransferCheck(fd, n, bad))
    <3>1. /\ OnCpu(Clients) /\ CallCheck(fd) = Accept
          /\ Handover(fd, SYS_WRITE, Limit(fd, n)) /\ asked' = [asked EXCEPT ![t_indice] = n]
      BY <1>5, <2>2, TransferAccepted DEF SysWrite, Accepted
    <3>2. SYS_WRITE # SYS_READ
      BY DEF SYS_WRITE, SYS_READ
    <3> QED BY <1>0, <3>1, <3>2, FittingCall
  <2> QED BY <2>1, <2>2
<1>6. ASSUME NEW fd \in 0 .. MAX_DRIVERS, SysSeek(fd) PROVE Fits'
  <2>1. CASE Refused(SYS_SEEK, CallCheck(fd))
    BY <1>3, <2>1
  <2>2. CASE ~Refused(SYS_SEEK, CallCheck(fd))
    <3>1. /\ OnCpu(Clients) /\ CallCheck(fd) = Accept
          /\ Handover(fd, SYS_SEEK, sys[id_drv[fd]].count) /\ asked' = asked
      BY <1>6, <2>2 DEF SysSeek, Accepted
    <3>2. SYS_SEEK # SYS_READ
      BY DEF SYS_SEEK, SYS_READ
    <3> QED BY <1>0, <3>1, <3>2, FittingCall
  <2> QED BY <2>1, <2>2
<1>7. ASSUME NEW n, NEW bad, SysReg(n, bad) PROVE Fits'
  <2>1. CASE RegisterCheck(n, bad) # Accept
    BY <1>1, <1>7, <2>1 DEF SysReg
  <2>2. CASE RegisterCheck(n, bad) = Accept
    <3>1. \E s \in DevSlots : id_drv[s] = 0
      BY <2>2 DEF RegisterCheck, Accept
    <3>2. PICK f \in DevSlots : f = FreeSlot
      BY <3>1, FreeSlotIsFree
    <3>3. /\ status' = [status EXCEPT ![t_indice] = WAITING] /\ UNCHANGED <<sys, asked>>
          /\ id_drv' = [id_drv EXCEPT ![f] = t_indice] /\ id_ret' = [id_ret EXCEPT ![f] = 0]
          /\ t_indice \in Tasks
      BY <1>7, <2>2, <3>2, Constants DEF SysReg, OnCpu
    <3>4. \A s \in DevSlots : id_drv'[s] = t_indice \/ (id_drv'[s] = id_drv[s] /\ id_ret'[s] = id_ret[s])
      BY <1>0, <3>3, Constants DEF TypeOK
    <3> QED BY <1>0, <3>3, <3>4, FittingSleep
  <2> QED BY <2>1, <2>2
<1>8. ASSUME NEW e \in Drivers, SysRetAnswers(e) PROVE Fits'
  BY <1>0, <1>8, FittingAnswer
<1>9. CASE SysWait
  <2>1. /\ status' = [status EXCEPT ![t_indice] = WAITING] /\ t_indice \in Tasks
        /\ UNCHANGED <<sys, asked, id_drv, id_ret>>
    BY <1>9, Constants DEF SysWait, OnCpu, drv
  <2> QED BY <1>0, <2>1, FittingSleep
<1>10. CASE Scan \/ Timer \/ SysUnknown \/ (\E v \in Data : Compute(v))
           \/ (\E name \in Names, bad \in Faults \cup {0} : SysOpen(name, bad))
           \/ (\E bad \in Faults \cup {0} : SysRetRefused(bad)) \/ UNCHANGED vars
  BY <1>1, <1>10 DEF Scan, Timer, SysUnknown, Compute, SysOpen, SysRetRefused, vars, drv
<1> QED
  BY <1>2, <1>4, <1>5, <1>6, <1>7, <1>8, <1>9, <1>10 DEF Next

\* An answer to a read copies no more bytes than the caller asked for and had
\* checked, if drivers report at most what they were asked for (sys_read, sys_ret).
THEOREM AnswersFit == ASSUME Flat, HonestCount PROVE Spec => CopyFits
<1>1. Init => Fits
  <2> SUFFICES ASSUME Init, NEW s \in DevSlots PROVE ~Busy(s)
    BY DEF Fits, Fitting
  <2> QED BY Constants DEF Init, Busy, Open
<1>2. IInv /\ Fits /\ [Next]_vars => Fits'
  BY FitsStep
<1>3. IInv /\ Fits /\ [Next]_vars =>
        [\A d \in Drivers : \A c \in Clients :
         (/\ OnCpu({d}) /\ status[d] = RUNNING /\ status'[d] = WAITING
          /\ status[c] = WAITING /\ status'[c] = RUNNING
          /\ sys[d].call = SYS_READ)
             => sys[d].count <= asked[c]]_vars
  <2> SUFFICES ASSUME IInv, Fits, [Next]_vars, NEW d \in Drivers, NEW c \in Clients,
                      OnCpu({d}), status[c] = WAITING, status'[c] = RUNNING, sys[d].call = SYS_READ
               PROVE  sys[d].count <= asked[c]
    OBVIOUS
  <2>1. ~OnCpu({c}) /\ status'[c] # status[c]
    BY DEF OnCpu, Flat, RUNNING, WAITING
  <2>2. PICK s \in DevSlots : Owes(s, c) /\ OnCpu({id_drv[s]})
    BY <2>1, ReplyStep
  <2>3. id_drv[s] = d
    BY <2>2 DEF OnCpu
  <2> QED BY <2>2, <2>3 DEF Fits, Fitting, Owes
<1> QED
  BY <1>1, <1>2, <1>3, Invariance, PTL DEF Spec, CopyFits

-----------------------------------------------------------------------------
(* The scheduler                                                           *)

\* The tasks the scheduler takes for ready.
Able == {t \in 0 .. LastTask : status[t] \in {RUNNING, STARTING}}

SomeUserAble == Able \in (SUBSET Tasks) \ {{}}

\* They are user tasks, and some client or driver is always among them.
LEMMA AbleTasks ==
    ASSUME Flat, IInv, Clients # {}
    PROVE  SomeUserAble
<1>0. PICK c \in Clients : c \notin Sleepers
  BY DEF Flat
<1>1. \A t \in KernelTasks : t \notin Able
  BY DEF IInv, KernelTasksAsleep, Able, RUNNING, STARTING, SLEEPING
<1>2. Able \subseteq Tasks
  BY <1>1, TaskAssumption DEF Able, Tasks, KernelTasks
<1>3. \E t \in Tasks : status[t] \in {RUNNING, STARTING}
  BY <1>0, SomebodyRuns DEF SomeRunnable
<1>4. Able # {}
  BY <1>3, Constants DEF Able
<1> QED BY <1>2, <1>4 DEF SomeUserAble

\* Every step but the search's that gives up the processor or changes a status
\* returns to task_control.
LEMMA CallsReturn ==
    ASSUME [Next]_vars, ~Scan
    PROVE  \/ UNCHANGED <<cpu, t_indice, status>>
           \/ cpu = "user" /\ cpu' = "control" /\ UNCHANGED t_indice
<1>1. ASSUME NEW fd, NEW n, NEW bad, SysRead(fd, n, bad) \/ SysWrite(fd, n, bad) \/ SysSeek(fd)
      PROVE  cpu = "user" /\ cpu' = "control" /\ UNCHANGED t_indice
  BY <1>1 DEF SysRead, SysWrite, SysSeek, Refused, Accepted, Return, OnCpu
<1>2. CASE \/ \E v \in Data : Compute(v)
           \/ \E n \in 0 .. MaxXfer, r \in Rets : Serve(n, r)
           \/ UNCHANGED vars
  BY <1>2 DEF Compute, Serve, sched, vars
<1>3. ASSUME NEW n, NEW bad, SysReg(n, bad)
      PROVE  cpu = "user" /\ cpu' = "control" /\ UNCHANGED t_indice
  BY <1>3 DEF SysReg, Return, OnCpu
<1> QED
  BY <1>1, <1>2, <1>3 DEF Next, Timer, SysOpen, SysRetRefused, SysRetAnswers, SysWait, SysUnknown, Return, OnCpu

\* Every step of the calls is a step of the scheduler or none.
LEMMA SchedulingStep ==
    ASSUME IInv, IInv', SomeUserAble', [Next]_vars
    PROVE  [S!SNext]_(S!svars)
<1>1. CASE Scan
  <2>1. t_indice' = S!After(t_indice)
    <3>1. t_indice \in 0 .. LastTask
      BY DEF IInv, TypeOK
    <3> QED BY <1>1, <3>1, TaskAssumption DEF Scan, NextIndex, S!After
  <2>2. Able' = Able /\ (t_indice' \in Able <=> status[t_indice'] \in {RUNNING, STARTING})
    <3>1. t_indice' \in 0 .. LastTask
      BY DEF IInv, TypeOK
    <3> QED BY <1>1, <3>1 DEF Scan, Able
  <2> QED BY <1>1, <2>1, <2>2 DEF Scan, Able, S!SNext, S!Offer
<1>2. CASE ~Scan
  <2>1. CASE UNCHANGED <<cpu, t_indice, status>>
    BY <2>1 DEF S!svars
  <2>2. CASE cpu = "user" /\ cpu' = "control" /\ UNCHANGED t_indice
    BY <2>2 DEF SomeUserAble, Able, S!SNext, S!Call
  <2> QED BY <1>2, <2>1, <2>2, CallsReturn
<1> QED BY <1>1, <1>2

\* The device calls implement the scheduler that the switching of task segments
\* implements too, provided there is a client.
THEOREM CallsSchedule == ASSUME Flat, Clients # {} PROVE Spec => ImplementsScheduler
<1>1. Init => S!SInit
  <2> SUFFICES ASSUME Init PROVE S!SInit
    OBVIOUS
  <2>1. Able = Tasks
    BY Constants, TaskAssumption DEF Init, Able, Tasks, KernelTasks, RUNNING, STARTING, SLEEPING
  <2> QED BY <2>1 DEF Init, Able, S!SInit
<1>2. IInv => SomeUserAble
  BY AbleTasks
<1>3. IInv /\ IInv' /\ SomeUserAble' /\ [Next]_vars => [S!SNext]_(S!svars)
  BY SchedulingStep
<1> QED BY <1>1, <1>2, <1>3, Invariance, PTL DEF Spec, ImplementsScheduler, S!SSpec

-----------------------------------------------------------------------------
(* The rendezvous                                                          *)

\* The state of the rendezvous, as IpcRefinement maps it.
RUp      == {d \in Drivers : Registered(d)}
RServing == [d \in Drivers |-> Serving(d)]
ROp      == [d \in Drivers |-> sys[d].call]
RStore   == [t \in Clients \cup Drivers |-> mem[t]]
RResult  == [c \in Clients |-> eax[c]]

\* Whom a driver serves: found in its entry, while it is awake.
ServingIs ==
    \A d \in Drivers :
        /\ ~Registered(d) => Serving(d) = 0
        /\ \A s \in DevSlots : id_drv[s] = d => Serving(d) = IF status[d] = RUNNING THEN id_ret[s] ELSE 0

LEMMA ServingFound == IInv => ServingIs
<1> SUFFICES ASSUME IInv, NEW d \in Drivers
             PROVE  /\ ~Registered(d) => Serving(d) = 0
                    /\ \A s \in DevSlots : id_drv[s] = d =>
                           Serving(d) = IF status[d] = RUNNING THEN id_ret[s] ELSE 0
  BY DEF ServingIs
<1>1. ASSUME NEW s \in DevSlots, id_drv[s] = d
      PROVE  Serving(d) = IF status[d] = RUNNING THEN id_ret[s] ELSE 0
  <2>1. Registered(d) /\ d # 0
    BY <1>1, Constants DEF Registered
  <2>2. SlotOf(d) = s
    BY <1>1, <2>1, SlotOfIsItsEntry DEF IInv, OneEntryPerDriver, Open
  <2> QED BY <2>1, <2>2 DEF Serving
<1> QED BY <1>1 DEF Serving

\* Whom a driver serves is a client asleep, or nobody; a driver with a device that
\* serves nobody is asleep.
LEMMA ServingWho ==
    ASSUME Flat, IInv, ServingIs, NEW d \in Drivers
    PROVE  /\ Serving(d) = 0 \/ (Serving(d) \in Clients /\ status[Serving(d)] = WAITING)
           /\ Registered(d) /\ status[d] = RUNNING => Serving(d) # 0
           /\ status[d] # RUNNING => Serving(d) = 0
<1>1. CASE ~Registered(d)
  BY <1>1 DEF ServingIs
<1>2. CASE Registered(d)
  <2>1. PICK s \in DevSlots : id_drv[s] = d
    BY <1>2 DEF Registered
  <2>2. Serving(d) = IF status[d] = RUNNING THEN id_ret[s] ELSE 0
    BY <2>1 DEF ServingIs
  <2>3. status[d] = RUNNING => id_ret[s] \in Clients /\ status[id_ret[s]] = WAITING
    BY <2>1, Constants DEF IInv, OneDebtPerCaller, Busy, Open
  <2> QED BY <2>2, <2>3, Constants
<1> QED BY <1>1, <1>2

\* The task on the processor runs in the rendezvous too.
LEMMA OnCpuRuns ==
    ASSUME Flat, IInv, ServingIs, OnCpu(Clients \cup Drivers)
    PROVE  R!Runs(t_indice) /\ t_indice \in Clients \cup Drivers
<1>1. status[t_indice] = RUNNING /\ t_indice \in Clients \cup Drivers /\ t_indice \in Tasks
  BY DEF OnCpu, IInv, ProcessorRuns
<1>2. \A d \in Drivers : Serving(d) # t_indice
  BY <1>1, ServingWho, Constants DEF RUNNING, WAITING
<1>3. t_indice \in Drivers /\ Registered(t_indice) => Serving(t_indice) # 0
  BY <1>1, ServingWho
<1> QED BY <1>1, <1>2, <1>3 DEF R!Runs, R!Blocked

\* The rendezvous does not see what happens to neither an entry nor a driver.
LEMMA SameServing ==
    ASSUME ServingIs, ServingIs', UNCHANGED <<id_drv, id_ret>>,
           \A d \in Drivers : status'[d] = status[d]
    PROVE  RUp' = RUp /\ RServing' = RServing
<1>1. \A d \in Drivers : Registered(d)' <=> Registered(d)
  BY DEF Registered
<1>2. ASSUME NEW d \in Drivers PROVE Serving(d)' = Serving(d)
  <2>1. CASE ~Registered(d)
    BY <1>1, <2>1 DEF ServingIs
  <2>2. CASE Registered(d)
    <3>1. PICK s \in DevSlots : id_drv[s] = d
      BY <2>2 DEF Registered
    <3> QED BY <3>1 DEF ServingIs
  <2> QED BY <2>1, <2>2
<1> QED BY <1>1, <1>2 DEF RUp, RServing

\* A result of the kernel's own: a refused call, a descriptor, an unknown call.
LEMMA LocalStep ==
    ASSUME Flat, IInv, ServingIs, ServingIs', OnCpu(Clients), NEW r \in Result,
           UNCHANGED <<status, mem, sys, id_drv, id_ret>>,
           eax' = [eax EXCEPT ![t_indice] = r]
    PROVE  R!RNext
<1>1. R!Runs(t_indice) /\ t_indice \in Clients
  BY OnCpuRuns DEF OnCpu
<1>2. RUp' = RUp /\ RServing' = RServing
  BY SameServing
<1>3. RResult' = [RResult EXCEPT ![t_indice] = r]
  BY <1>1, Constants DEF RResult, IInv, TypeOK
<1>4. R!Local(t_indice, r)
  BY <1>1, <1>2, <1>3 DEF R!Local, RUp, RServing, RResult
<1> QED BY <1>1, <1>4 DEF R!RNext

\* What is neither on record nor a client's or a driver's own.
LEMMA StutterStep ==
    ASSUME ServingIs, ServingIs', UNCHANGED <<id_drv, id_ret>>,
           \A d \in Drivers : status'[d] = status[d] /\ sys'[d].call = sys[d].call,
           \A t \in Clients \cup Drivers : mem'[t] = mem[t],
           \A c \in Clients : eax'[c] = eax[c]
    PROVE  UNCHANGED R!rvars
<1>1. RUp' = RUp /\ RServing' = RServing
  BY SameServing
<1>2. ROp' = ROp /\ RStore' = RStore /\ RResult' = RResult
  BY DEF ROp, RStore, RResult
<1> QED BY <1>1, <1>2 DEF R!rvars, RUp, RServing, ROp, RStore, RResult

\* A task that computes in its own buffer.
LEMMA WorkStep ==
    ASSUME Flat, IInv, ServingIs, ServingIs', NEW v \in Data, Compute(v)
    PROVE  R!RNext
<1>1. R!Runs(t_indice) /\ t_indice \in Clients \cup Drivers
  BY OnCpuRuns DEF Compute
<1>2. RUp' = RUp /\ RServing' = RServing
  BY SameServing DEF Compute, drv
<1>3. RStore' = [RStore EXCEPT ![t_indice] = v]
  BY <1>1, Constants DEF Compute, RStore, IInv, TypeOK
<1>4. ROp' = ROp /\ RResult' = RResult
  BY DEF Compute, ROp, RResult
<1>5. R!Work(t_indice, v)
  BY <1>1, <1>2, <1>3, <1>4 DEF R!Work, RUp, RServing, ROp, RStore, RResult
<1> QED BY <1>1, <1>5 DEF R!RNext

\* An accepted call is the call of the rendezvous.
LEMMA CallStep ==
    ASSUME Flat, IInv, ServingIs, ServingIs', NEW fd \in 0 .. MAX_DRIVERS, NEW n, NEW check,
           NEW which \in {SYS_READ, SYS_WRITE, SYS_SEEK},
           Accepted(which, check), CallCheck(fd) = Accept, Handover(fd, which, n),
           \/ mem' = mem
           \/ which = SYS_WRITE /\ mem' = [mem EXCEPT ![id_drv[fd]] = mem[t_indice]]
    PROVE  R!RNext
<1>c. PICK c \in Clients : c = t_indice
  BY DEF Accepted, OnCpu
<1>d. PICK d \in Drivers : d = id_drv[fd]
  BY AcceptedCall DEF IInv
<1>1. R!Runs(c) /\ c \in Clients /\ c \in Tasks /\ c \in 0 .. LastTask
  BY <1>c, OnCpuRuns, Constants DEF Accepted, OnCpu
<1>2. d \in Drivers /\ status[d] = WAITING /\ fd \in Slots /\ d \in Tasks /\ d \in 0 .. LastTask /\ d # 0
  BY <1>d, AcceptedCall, Constants DEF IInv
<1>3. fd \in DevSlots
  BY <1>2, <1>d, DataAssumption DEF IInv, OneEntryPerDriver, DevSlots, Slots, FirstDev
<1>4. d # c /\ \A e \in Drivers : e # c
  BY <1>1, <1>2 DEF Flat
<1>5. /\ status' = [status EXCEPT ![c] = WAITING, ![d] = RUNNING]
      /\ id_ret' = [id_ret EXCEPT ![fd] = c]
      /\ sys' = [sys EXCEPT ![d] = [call |-> which, count |-> n, ret |-> sys[d].ret]]
      /\ eax' = [eax EXCEPT ![c] = which]
      /\ id_drv' = id_drv
  BY <1>c, <1>d DEF Handover, Accepted, CallNumberStays
<1>6. \A s \in DevSlots : id_drv[s] = d => s = fd
  BY <1>2, <1>3, <1>d DEF IInv, OneEntryPerDriver, Open
<1>7. RUp' = RUp /\ d \in RUp
  BY <1>2, <1>3, <1>5, <1>d DEF RUp, Registered
<1>8. RServing' = [RServing EXCEPT ![d] = c] /\ RServing[d] = 0
  <2>1. Serving(d) = 0
    BY <1>2, ServingWho DEF RUNNING, WAITING
  <2>2. Serving(d)' = c
    <3>1. status'[d] = RUNNING /\ id_ret'[fd] = c /\ id_drv'[fd] = d
      BY <1>2, <1>4, <1>5, <1>d DEF IInv, TypeOK
    <3> QED BY <1>2, <1>3, <3>1 DEF ServingIs
  <2>3. ASSUME NEW e \in Drivers, e # d PROVE Serving(e)' = Serving(e)
    <3>1. CASE ~Registered(e)
      <4>1. ~Registered(e)'
        BY <1>5, <3>1 DEF Registered
      <4> QED BY <3>1, <4>1 DEF ServingIs
    <3>2. CASE Registered(e)
      <4>1. PICK s \in DevSlots : id_drv[s] = e
        BY <3>2 DEF Registered
      <4>2. s # fd /\ id_drv'[s] = e
        BY <1>5, <1>d, <2>3, <4>1
      <4>3. status'[e] = status[e] /\ id_ret'[s] = id_ret[s]
        BY <1>4, <1>5, <2>3, <4>1, <4>2, Constants DEF IInv, TypeOK
      <4> QED BY <4>1, <4>2, <4>3 DEF ServingIs
    <3> QED BY <3>1, <3>2
  <2> QED BY <1>2, <2>1, <2>2, <2>3 DEF RServing
<1>9. ROp' = [ROp EXCEPT ![d] = which]
  BY <1>2, <1>5, Constants DEF ROp, IInv, TypeOK
<1>10. RStore' = RStore \/ (which = SYS_WRITE /\ RStore' = [RStore EXCEPT ![d] = RStore[c]])
  BY <1>1, <1>2, <1>c, <1>d, Constants DEF RStore, IInv, TypeOK
<1>11. RResult' = [RResult EXCEPT ![c] = which]
  BY <1>1, <1>5, Constants DEF RResult, IInv, TypeOK
<1>12. R!Call(c, d, which)
  BY <1>1, <1>7, <1>8, <1>9, <1>10, <1>11 DEF R!Call, RUp, RServing, ROp, RStore, RResult
<1> QED BY <1>1, <1>2, <1>12 DEF R!RNext

\* An accepted registration is the registration of the rendezvous.
LEMMA RegisteredStep ==
    ASSUME Flat, IInv, ServingIs, ServingIs', NEW n, NEW bad, SysReg(n, bad)
    PROVE  R!RNext \/ UNCHANGED R!rvars
<1>0. t_indice \in Drivers /\ t_indice \in Tasks /\ t_indice \in 0 .. LastTask
  BY Constants DEF SysReg, OnCpu
<1>1. CASE RegisterCheck(n, bad) # Accept
  <2>1. \A c \in Clients : eax'[c] = eax[c]
    <3>1. eax' = [eax EXCEPT ![t_indice] = RegisterCheck(n, bad)]
      BY <1>1 DEF SysReg
    <3>2. eax \in [0 .. LastTask -> Int]
      BY DEF IInv, TypeOK
    <3>3. \A c \in Clients : c \in 0 .. LastTask /\ c # t_indice
      BY <1>0, Constants DEF Flat
    <3> QED BY <3>1, <3>2, <3>3
  <2> QED BY <1>1, <2>1, StutterStep DEF SysReg, drv
<1>2. CASE RegisterCheck(n, bad) = Accept
  <2>d. PICK d \in Drivers : d = t_indice
    BY <1>0
  <2>f. PICK f \in DevSlots : f = FreeSlot
    BY <1>2, RegisterNames DEF IInv
  <2>1. /\ f \in DevSlots /\ f \in Slots /\ id_drv[f] = 0 /\ d \in Drivers /\ d # 0
        /\ id_drv' = [id_drv EXCEPT ![f] = d]
    BY <1>2, <2>d, <2>f, RegisterNames DEF IInv
  <2>2. /\ id_ret' = [id_ret EXCEPT ![f] = 0]
        /\ status' = [status EXCEPT ![d] = WAITING]
        /\ eax' = [eax EXCEPT ![d] = f]
        /\ UNCHANGED <<mem, sys>>
    BY <1>2, <2>d, <2>f DEF SysReg
  <2>3. ~Registered(d)
    BY <1>2, <2>d DEF RegisterCheck, Accept
  <2>4. \A s \in DevSlots : s # f => id_drv'[s] = id_drv[s] /\ id_ret'[s] = id_ret[s]
    BY <2>1, <2>2, Constants DEF IInv, TypeOK
  <2>5. id_drv'[f] = d
    BY <2>1 DEF IInv, TypeOK
  <2>6. \A e \in Drivers : Registered(e)' <=> (Registered(e) \/ e = d)
    BY <2>1, <2>4, <2>5, Constants DEF Registered
  <2>7. RUp' = RUp \cup {d} /\ d \notin RUp
    BY <2>1, <2>3, <2>6 DEF RUp
  <2>8. RServing' = RServing
    <3>1. Serving(d)' = 0
      <4>1. status'[d] = WAITING
        BY <1>0, <2>2, <2>d DEF IInv, TypeOK
      <4> QED BY <2>1, <2>5, <4>1 DEF ServingIs, RUNNING, WAITING
    <3>2. Serving(d) = 0
      BY <2>1, <2>3 DEF ServingIs
    <3>3. ASSUME NEW e \in Drivers, e # d PROVE Serving(e)' = Serving(e)
      <4>1. CASE ~Registered(e)
        <5>1. ~Registered(e)'
          BY <2>6, <3>3, <4>1
        <5> QED BY <4>1, <5>1 DEF ServingIs
      <4>2. CASE Registered(e)
        <5>1. PICK s \in DevSlots : id_drv[s] = e
          BY <4>2 DEF Registered
        <5>2. s # f
          BY <2>1, <5>1, Constants
        <5>3. status'[e] = status[e]
          BY <2>2, <3>3, Constants DEF IInv, TypeOK
        <5> QED BY <2>4, <5>1, <5>2, <5>3 DEF ServingIs
      <4> QED BY <4>1, <4>2
    <3> QED BY <3>1, <3>2, <3>3 DEF RServing
  <2>9. ROp' = ROp /\ RStore' = RStore
    BY <2>2 DEF ROp, RStore
  <2>10. RResult' = RResult
    <3>1. \A c \in Clients : eax'[c] = eax[c]
      BY <1>0, <2>1, <2>2, <2>d, Constants DEF IInv, TypeOK, Flat
    <3> QED BY <3>1 DEF RResult
  <2>11. R!Register(d)
    BY <2>7, <2>8, <2>9, <2>10 DEF R!Register, RUp, RServing, ROp, RStore, RResult
  <2> QED BY <2>1, <2>11 DEF R!RNext
<1> QED BY <1>1, <1>2

\* SYS_RET of a driver is the reply of the rendezvous.
LEMMA RepliedStep ==
    ASSUME Flat, IInv, ServingIs, ServingIs', NEW d \in Drivers, SysRetAnswers(d)
    PROVE  R!RNext
<1>1. PICK s \in DevSlots :
             /\ id_drv[s] = d /\ d = t_indice /\ Busy(s) /\ ~Busy(s)'
             /\ id_ret[s] \in Clients /\ id_ret[s] \in Tasks /\ id_ret[s] # d
             /\ status[id_ret[s]] = WAITING
             /\ status' = [status EXCEPT ![id_ret[s]] = RUNNING, ![d] = WAITING]
             /\ eax' = [eax EXCEPT ![d] = SYS_RET, ![id_ret[s]] = sys[d].ret]
             /\ \/ mem' = mem
                \/ sys[d].call = SYS_READ /\ mem' = [mem EXCEPT ![id_ret[s]] = mem[d]]
  BY AnswerTouches
<1>c. PICK c \in Clients : c = id_ret[s]
  BY <1>1
<1>r. PICK r : r = sys[d].ret
  OBVIOUS
<1>2. /\ c \in Clients /\ c \in Tasks /\ c \in 0 .. LastTask /\ c # 0
      /\ d \in Tasks /\ d \in 0 .. LastTask /\ d \notin Clients /\ c \notin Drivers
  BY <1>1, <1>c, Constants DEF Flat
<1>3. UNCHANGED <<sys, id_drv, id_ret>>
  BY DEF SysRetAnswers, drv
<1>4. Serving(d) = c
  BY <1>1, <1>c DEF ServingIs, Busy
<1>5. RServing' = [RServing EXCEPT ![d] = 0] /\ RServing[d] = c
  <2>1. Serving(d)' = 0
    <3>1. status'[d] = WAITING
      BY <1>1, <1>2, <1>c DEF IInv, TypeOK
    <3>2. id_drv'[s] = d
      BY <1>1, <1>3
    <3> QED BY <3>1, <3>2 DEF ServingIs, RUNNING, WAITING
  <2>2. ASSUME NEW e \in Drivers, e # d PROVE Serving(e)' = Serving(e)
    <3>1. status'[e] = status[e]
      BY <1>1, <1>2, <1>c, <2>2, Constants DEF IInv, TypeOK
    <3>2. CASE ~Registered(e)
      <4>1. ~Registered(e)'
        BY <1>3, <3>2 DEF Registered
      <4> QED BY <3>2, <4>1 DEF ServingIs
    <3>3. CASE Registered(e)
      <4>1. PICK x \in DevSlots : id_drv[x] = e
        BY <3>3 DEF Registered
      <4> QED BY <1>3, <3>1, <4>1 DEF ServingIs
    <3> QED BY <3>2, <3>3
  <2> QED BY <1>4, <2>1, <2>2 DEF RServing
<1>6. RUp' = RUp /\ ROp' = ROp
  BY <1>3 DEF RUp, Registered, ROp
<1>7. r \in Result
  <2>1. sys[d] \in Param
    BY <1>2 DEF IInv, TypeOK
  <2> QED BY <1>r, <2>1 DEF Param, Result
<1>8. RResult' = [RResult EXCEPT ![c] = r]
  <2>1. \A x \in Clients : eax'[x] = IF x = c THEN r ELSE eax[x]
    BY <1>1, <1>2, <1>c, <1>r, Constants DEF IInv, TypeOK
  <2> QED BY <1>2, <2>1 DEF RResult
<1>9. RStore' = RStore \/ (ROp[d] = SYS_READ /\ RStore' = [RStore EXCEPT ![c] = RStore[d]])
  <2>1. CASE mem' = mem
    BY <2>1 DEF RStore
  <2>2. CASE sys[d].call = SYS_READ /\ mem' = [mem EXCEPT ![c] = mem[d]]
    BY <1>2, <2>2, Constants DEF RStore, ROp, IInv, TypeOK
  <2> QED BY <1>1, <1>c, <2>1, <2>2
<1>10. R!Reply(d, r)
  BY <1>2, <1>5, <1>6, <1>8, <1>9 DEF R!Reply, RUp, RServing, ROp, RStore, RResult
<1> QED BY <1>7, <1>10 DEF R!RNext

\* Every step of the calls is a step of the rendezvous or none.
LEMMA RendezvousStep ==
    ASSUME Flat, IInv, ServingIs, ServingIs', [Next]_vars
    PROVE  [R!RNext]_(R!rvars)
<1> DEFINE Good == R!RNext \/ UNCHANGED R!rvars
<1> SUFFICES Good
  OBVIOUS
<1>0. /\ SYS_READ \in Result /\ SYS_WRITE \in Result /\ SYS_SEEK \in Result /\ 0 \in Result
      /\ \A x \in -6 .. -1 : x \in Result
      /\ \A name \in Names : Lookup(name) \in Result
  <2>1. \A x \in DevSlots : x \in Result
    BY DataAssumption DEF DevSlots, FirstDev, Result
  <2>2. \A x \in -7 .. -1 : x \in Result
    BY DataAssumption DEF Result
  <2>3. ASSUME NEW name \in Names PROVE Lookup(name) \in Result
    <3>1. CASE Lookup(name) = -7
      BY <2>2, <3>1
    <3>2. CASE Lookup(name) # -7
      BY <2>1, <3>2, LookupFirst
    <3> QED BY <3>1, <3>2
  <2> QED BY <2>2, <2>3 DEF Result
<1>1. ASSUME NEW which \in {SYS_READ, SYS_WRITE, SYS_SEEK}, NEW check, Refused(which, check) PROVE Good
  BY <1>0, <1>1, LocalStep DEF Refused, CallNumberStays, drv
<1>2. ASSUME NEW fd \in 0 .. MAX_DRIVERS, NEW n, NEW bad, SysRead(fd, n, bad) PROVE Good
  <2>1. CASE Refused(SYS_READ, TransferCheck(fd, n, bad))
    BY <1>1, <2>1
  <2>2. CASE ~Refused(SYS_READ, TransferCheck(fd, n, bad))
    <3>1. /\ Accepted(SYS_READ, TransferCheck(fd, n, bad)) /\ CallCheck(fd) = Accept
          /\ Handover(fd, SYS_READ, Limit(fd, n)) /\ mem' = mem
      BY <1>2, <2>2, TransferAccepted DEF SysRead, Accepted
    <3> QED BY <3>1, CallStep
  <2> QED BY <2>1, <2>2
<1>3. ASSUME NEW fd \in 0 .. MAX_DRIVERS, NEW n, NEW bad, SysWrite(fd, n, bad) PROVE Good
  <2>1. CASE Refused(SYS_WRITE, TransferCheck(fd, n, bad))
    BY <1>1, <2>1
  <2>2. CASE ~Refused(SYS_WRITE, TransferCheck(fd, n, bad))
    <3>1. /\ Accepted(SYS_WRITE, TransferCheck(fd, n, bad)) /\ CallCheck(fd) = Accept
          /\ Handover(fd, SYS_WRITE, Limit(fd, n))
          /\ mem' = mem \/ mem' = [mem EXCEPT ![id_drv[fd]] = mem[t_indice]]
      BY <1>3, <2>2, TransferAccepted DEF SysWrite, Accepted
    <3> QED BY <3>1, CallStep
  <2> QED BY <2>1, <2>2
<1>4. ASSUME NEW fd \in 0 .. MAX_DRIVERS, SysSeek(fd) PROVE Good
  <2>1. CASE Refused(SYS_SEEK, CallCheck(fd))
    BY <1>1, <2>1
  <2>2. CASE ~Refused(SYS_SEEK, CallCheck(fd))
    <3>1. /\ Accepted(SYS_SEEK, CallCheck(fd)) /\ CallCheck(fd) = Accept
          /\ Handover(fd, SYS_SEEK, sys[id_drv[fd]].count) /\ mem' = mem
      BY <1>4, <2>2 DEF SysSeek, Accepted
    <3> QED BY <3>1, CallStep
  <2> QED BY <2>1, <2>2
<1>5. ASSUME NEW name \in Names, NEW bad, SysOpen(name, bad) PROVE Good
  <2> DEFINE r == IF bad \in -6 .. -1 THEN bad ELSE Lookup(name)
  <2>1. r \in Result
    BY <1>0
  <2>2. /\ OnCpu(Clients) /\ eax' = [eax EXCEPT ![t_indice] = r]
        /\ UNCHANGED <<status, mem, sys, id_drv, id_ret>>
    BY <1>5 DEF SysOpen, drv
  <2> HIDE DEF r
  <2> QED BY <2>1, <2>2, LocalStep
<1>6. CASE SysUnknown
  <2>1. CASE t_indice \in Clients
    BY <1>0, <1>6, <2>1, LocalStep DEF SysUnknown, OnCpu, drv
  <2>2. CASE t_indice \notin Clients
    <3>1. \A c \in Clients : eax'[c] = eax[c]
      BY <1>6, <2>2, Constants DEF SysUnknown, OnCpu, IInv, TypeOK
    <3> QED BY <1>6, <3>1, StutterStep DEF SysUnknown, drv
  <2> QED BY <2>1, <2>2
<1>7. CASE SysWait
  <2>1. t_indice \in Sleepers /\ t_indice \notin Clients /\ t_indice \notin Drivers
    BY <1>7 DEF SysWait, OnCpu, Flat
  <2>2. \A c \in Clients : eax'[c] = eax[c]
    BY <1>7, <2>1, Constants DEF SysWait, IInv, TypeOK
  <2>3. \A d \in Drivers : status'[d] = status[d]
    BY <1>7, <2>1, Constants DEF SysWait, IInv, TypeOK
  <2> QED BY <1>7, <2>2, <2>3, StutterStep DEF SysWait, drv
<1>8. ASSUME NEW bad, SysRetRefused(bad) PROVE Good
  <2>1. \A c \in Clients : eax'[c] = eax[c]
    BY <1>8, Constants DEF SysRetRefused, OnCpu, IInv, TypeOK, Flat
  <2> QED BY <1>8, <2>1, StutterStep DEF SysRetRefused, drv
<1>9. ASSUME NEW n \in 0 .. MaxXfer, NEW r \in Rets, Serve(n, r) PROVE Good
  <2>1. \A d \in Drivers : sys'[d].call = sys[d].call
    BY <1>9, Constants DEF Serve, OnCpu, IInv, TypeOK
  <2> QED BY <1>9, <2>1, StutterStep DEF Serve, drv
<1>10. CASE Scan \/ Timer \/ UNCHANGED vars
  BY <1>10, StutterStep DEF Scan, Timer, vars, drv
<1> QED
  BY <1>2, <1>3, <1>4, <1>5, <1>6, <1>7, <1>8, <1>9, <1>10, WorkStep, RegisteredStep, RepliedStep DEF Next

\* The device calls implement the rendezvous: a blocked client gets one reply, from
\* the driver it called, and nothing else of it changes meanwhile.
THEOREM CallsRendezvous == ASSUME Flat PROVE Spec => ImplementsRendezvous
<1>1. Init => R!RInit
  <2> SUFFICES ASSUME Init PROVE R!RInit
    OBVIOUS
  <2>1. \A d \in Drivers : ~Registered(d)
    BY Constants DEF Init, Registered
  <2>2. RUp = {} /\ RServing = [d \in Drivers |-> 0]
    BY <2>1 DEF RUp, RServing, Serving
  <2>3. ROp = [d \in Drivers |-> 0] /\ RResult = [c \in Clients |-> 0]
    BY Constants DEF Init, ROp, RResult
  <2>4. \E v \in Data : RStore = [t \in Clients \cup Drivers |-> v]
    BY Constants DEF Init, RStore
  <2> QED BY <2>2, <2>3, <2>4 DEF R!RInit, RUp, RServing, ROp, RResult, RStore
<1>2. IInv /\ ServingIs /\ ServingIs' /\ [Next]_vars => [R!RNext]_(R!rvars)
  BY RendezvousStep
<1> QED BY <1>1, <1>2, ServingFound, Invariance, PTL DEF Spec, ImplementsRendezvous, R!RSpec
=============================================================================
