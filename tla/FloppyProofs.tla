---------------------------- MODULE FloppyProofs ----------------------------
(***************************************************************************)
(* Proofs about Floppy, for any number of polls, any delays and any        *)
(* cylinders: as long as the controller needs fewer polls than the driver  *)
(* makes, whatever fd_out and fd_in leave unchecked does no harm.          *)
(***************************************************************************)
EXTENDS Floppy, SequenceTheorems, TLAPS

States == {"done", "out", "in", "seek", "version", "spin"}
Controller == [phase : {"idle", "command", "result"}, wait : Nat, left : 0 .. 2, cyl : Int]

FloppyTypes ==
    /\ hw \in Machine
    /\ fdc \in Controller /\ fdc.wait <= hw.delay
    /\ i \in 0 .. Tries /\ pc \in States
    /\ send \in Seq(Int) /\ sought \in Int
    /\ pc \in {"out", "seek"} => send # << >>

\* Without a controller nothing is taken for one.
AbsentIsFound ==
    ~Present => ret \in {-1, FD_CONT_NO_REC} /\ pc \notin {"seek", "version", "spin"} /\ sought = -1

\* What fd_ini finds out, and where it stands in a command.
KnowsMachine ==
    /\ ret \in {-1, Found}
    /\ pc \in {"version", "spin"} => hw.fdc \in {"765A", "765B"}
    /\ pc = "spin" => hw.is144

SeekUnderWay ==
    \/ /\ fdc.phase = "idle"
       /\ \E h \in Int : send = <<SEEK, h, sought>>
    \/ /\ fdc.phase = "command" /\ fdc.left = 2
       /\ \E h \in Int : send = <<h, sought>>
    \/ /\ fdc.phase = "command" /\ fdc.left = 1
       /\ send = <<sought>>

InStep ==
    /\ pc \in {"out", "in", "seek"} => fdc.wait < i
    /\ pc = "out" => send = <<VERSION>> /\ fdc.phase = "idle"
    /\ pc = "in" => fdc.phase = "result"
    /\ pc \in {"version", "spin", "done"} => fdc.phase = "idle"
    /\ pc = "seek" => SeekUnderWay
    /\ pc = "done" /\ sought # -1 => fdc.cyl = sought

FloppyInv ==
    /\ FloppyTypes /\ MotorOff /\ AbsentIsFound
    /\ Present /\ Timely => KnowsMachine /\ InStep
    /\ pc \notin {"done", "seek"} => sought = -1

-----------------------------------------------------------------------------
(* The controller                                                          *)

\* Setting fields of the controller, as fd_reset and a byte received do.
LEMMA SetFields ==
    ASSUME NEW f \in Controller, NEW w \in Nat, NEW b \in Int, NEW l \in 0 .. 2
    PROVE  /\ [f EXCEPT !.wait = w] \in Controller
           /\ [f EXCEPT !.left = l, !.wait = w] \in Controller
           /\ [f EXCEPT !.phase = "result", !.wait = w] \in Controller
           /\ [f EXCEPT !.phase = "command", !.left = l, !.wait = w] \in Controller
           /\ [f EXCEPT !.phase = "idle", !.wait = w, !.left = l] \in Controller
           /\ [f EXCEPT !.phase = "idle", !.left = l, !.wait = w, !.cyl = b] \in Controller
BY DEF Controller

\* The controller keeps its types, whether time passes or a byte arrives.
LEMMA WaitedType == ASSUME FloppyTypes PROVE Waited \in Controller /\ Waited.wait <= fdc.wait
<1>1. PICK n \in Nat : Waited = [fdc EXCEPT !.wait = n] /\ n <= fdc.wait
  <2>1. fdc.wait \in Nat
    BY DEF FloppyTypes, Controller
  <2>2. Waited = [fdc EXCEPT !.wait = IF fdc.wait = 0 THEN 0 ELSE fdc.wait - 1]
    BY DEF Waited
  <2> QED
    BY <2>1, <2>2
<1> QED
  BY <1>1 DEF FloppyTypes, Controller

\* A controller that waits comes one poll nearer to being ready.
LEMMA WaitedNearer ==
    ASSUME FloppyTypes
    PROVE  /\ Waited.phase = fdc.phase /\ Waited.left = fdc.left /\ Waited.cyl = fdc.cyl
           /\ fdc.wait > 0 => Waited.wait = fdc.wait - 1
           /\ fdc.wait = 0 => Waited.wait = 0
BY DEF FloppyTypes, Controller, Waited

LEMMA ReceivedType ==
    ASSUME FloppyTypes, NEW b \in Int, Received(b)
    PROVE  fdc' \in Controller /\ fdc'.wait <= hw.delay
<1>1. PICK w \in 0 .. hw.delay :
        \/ fdc' = Waited
        \/ fdc' = [fdc EXCEPT !.left = 1, !.wait = w]
        \/ fdc' = [fdc EXCEPT !.phase = "idle", !.left = 0, !.wait = w, !.cyl = b]
        \/ fdc' = [fdc EXCEPT !.phase = "result", !.wait = w]
        \/ fdc' = [fdc EXCEPT !.phase = "command", !.left = 2, !.wait = w]
        \/ fdc' = [fdc EXCEPT !.wait = w]
  <2>1. hw.delay \in Nat
    BY FloppyAssumption DEF FloppyTypes, Machine
  <2>2. 0 \in 0 .. hw.delay
    BY <2>1
  <2> QED
    BY <2>2 DEF Received, Accepted
<1>2. hw.delay \in Nat
  BY FloppyAssumption DEF FloppyTypes, Machine
<1> QED
  <2>1. w \in Nat /\ w <= hw.delay /\ fdc \in Controller
    BY <1>2 DEF FloppyTypes
  <2>2. fdc' = Waited => fdc' \in Controller /\ fdc'.wait <= hw.delay
    BY WaitedType, <1>2 DEF FloppyTypes, Controller
  <2>3. ASSUME fdc' # Waited PROVE fdc' \in Controller
    <3>1. 0 \in 0 .. 2 /\ 1 \in 0 .. 2 /\ 2 \in 0 .. 2
      OBVIOUS
    <3>2. /\ [fdc EXCEPT !.wait = w] \in Controller
          /\ [fdc EXCEPT !.left = 1, !.wait = w] \in Controller
          /\ [fdc EXCEPT !.phase = "result", !.wait = w] \in Controller
          /\ [fdc EXCEPT !.phase = "command", !.left = 2, !.wait = w] \in Controller
          /\ [fdc EXCEPT !.phase = "idle", !.left = 0, !.wait = w, !.cyl = b] \in Controller
      BY <2>1, <3>1, SetFields, Zenon
    <3> QED
      BY <1>1, <2>3, <3>2, Zenon
  <2>4. ASSUME fdc' # Waited PROVE fdc'.wait = w
    BY <1>1, <2>1, <2>4 DEF Controller
  <2> QED
    BY <2>1, <2>2, <2>3, <2>4

\* Between commands and within one, a controller that is there shows it is ready.
LEMMA OutStatus ==
    ASSUME FloppyTypes, Present, fdc.phase \in {"idle", "command"}
    PROVE  Status \cap {RQM, DIO} = IF fdc.wait = 0 THEN {RQM} ELSE {}
<1>1. hw.fdc # "reads00" /\ hw.fdc # "readsFF"
  BY DEF Present
<1>2. Status = (IF fdc.wait = 0 THEN {RQM} ELSE {}) \cup {} \cup (IF fdc.phase \in {"command", "result"} THEN {CB} ELSE {})
  BY <1>1 DEF Status, Ready
<1> QED
  BY <1>2 DEF RQM, DIO, CB

\* With a result to be read it does so too, and is never mistaken for none.
LEMMA InStatus ==
    ASSUME FloppyTypes, Present, fdc.phase = "result"
    PROVE  Status # {} /\ (Status = {RQM, DIO, CB} <=> fdc.wait = 0)
<1>1. hw.fdc # "reads00" /\ hw.fdc # "readsFF"
  BY DEF Present
<1>2. Status = (IF fdc.wait = 0 THEN {RQM} ELSE {}) \cup {DIO} \cup {CB}
  BY <1>1 DEF Status, Ready
<1> QED
  BY <1>2 DEF RQM, DIO, CB

-----------------------------------------------------------------------------
(* The driver                                                              *)

\* Nothing has happened yet.
LEMMA FloppyInit == Init => FloppyInv
<1> SUFFICES ASSUME Init PROVE FloppyInv
  OBVIOUS
<1>1. FloppyTypes
  <2>1. hw \in Machine /\ hw.delay \in Nat
    BY FloppyAssumption DEF Init, Machine
  <2>2. fdc \in Controller /\ fdc.wait <= hw.delay
    BY <2>1 DEF Init, Controller
  <2>3. i \in 0 .. Tries /\ pc \in States /\ sought \in Int
    BY FloppyAssumption DEF Init, States
  <2>4. send \in Seq(Int) /\ pc \notin {"out", "seek"}
    BY DEF Init
  <2> QED
    BY <2>1, <2>2, <2>3, <2>4 DEF FloppyTypes
<1>2. MotorOff /\ AbsentIsFound /\ KnowsMachine /\ InStep /\ sought = -1
  BY DEF Init, MotorOff, MOTOR, AbsentIsFound, KnowsMachine, InStep
<1> QED
  BY <1>1, <1>2 DEF FloppyInv

\* fd_ini resets whatever there is and starts to ask for the version.
LEMMA IniStep == ASSUME FloppyInv, fd_ini PROVE FloppyInv'
<1>0. hw.delay \in Nat /\ UNCHANGED hw /\ Present' = Present /\ Timely' = Timely /\ Found' = Found
  BY FloppyAssumption DEF FloppyInv, FloppyTypes, Machine, fd_ini, Present, Timely, Found
<1>1. FloppyTypes'
  <2>1. hw' \in Machine /\ i' \in 0 .. Tries /\ pc' \in States /\ sought' \in Int
    BY <1>0, FloppyAssumption DEF FloppyInv, FloppyTypes, fd_ini, States
  <2>2. send' \in Seq(Int) /\ send' # << >>
    BY DEF fd_ini, VERSION
  <2>3. fdc' \in Controller /\ fdc'.wait <= hw'.delay
    <3>1. PICK w \in 0 .. hw.delay : fdc' = [fdc EXCEPT !.phase = "idle", !.wait = w, !.left = 0]
      BY DEF fd_ini
    <3>2. fdc \in Controller /\ w \in Nat
      BY <1>0 DEF FloppyInv, FloppyTypes
    <3>3. fdc' \in Controller
      <4>1. [fdc EXCEPT !.phase = "idle", !.wait = w, !.left = 0] \in Controller
        <5>1. 0 \in 0 .. 2 /\ 0 \in Int
          OBVIOUS
        <5> QED
          BY <3>2, <5>1, SetFields, Zenon
      <4> QED
        BY <3>1, <4>1
    <3>4. fdc'.wait = w
      BY <3>1, <3>2 DEF Controller
    <3> QED
      BY <1>0, <3>3, <3>4
  <2> QED
    BY <2>1, <2>2, <2>3 DEF FloppyTypes
<1>2. MotorOff' /\ sought' = -1
  BY DEF fd_ini, MotorOff, RESET_INT, MOTOR
<1>3. AbsentIsFound'
  BY <1>0 DEF FloppyInv, fd_ini, AbsentIsFound
<1>4. ASSUME Present, Timely PROVE KnowsMachine' /\ InStep'
  <2>1. fdc'.phase = "idle" /\ fdc'.wait \in 0 .. hw.delay /\ i' = Tries /\ pc' = "out" /\ send' = <<VERSION>>
    BY DEF fd_ini, FloppyInv, FloppyTypes, Controller
  <2>2. KnowsMachine'
    BY <1>0, <1>4, <2>1 DEF fd_ini, FloppyInv, KnowsMachine
  <2>3. fdc'.wait < i'
    BY <1>0, <1>4, <2>1, FloppyAssumption DEF Timely
  <2> QED
    BY <2>1, <2>2, <2>3 DEF InStep
<1> QED
  BY <1>0, <1>1, <1>2, <1>3, <1>4 DEF FloppyInv

\* fd_seek starts only after fd_ini has found a controller.
LEMMA SeekStep ==
    ASSUME FloppyInv, NEW h \in Heads, NEW c \in Cylinders, fd_seek(h, c)
    PROVE  FloppyInv'
<1> DEFINE head == (4 * h) % 256
<1>0. /\ h \in Int /\ c \in Int /\ head \in Int /\ hw.delay \in Nat
      /\ Present' = Present /\ Timely' = Timely /\ Found' = Found
      /\ UNCHANGED <<hw, fdc, out3f2, fd_estado, ret>> /\ pc = "done" /\ ret = FD_INI
  <2>1. h \in Int /\ c \in Int /\ head \in Int
    BY FloppyAssumption DEF Byte
  <2>2. hw.delay \in Nat
    BY FloppyAssumption DEF FloppyInv, FloppyTypes, Machine
  <2>3. UNCHANGED <<hw, fdc, out3f2, fd_estado, ret>> /\ pc = "done" /\ ret = FD_INI
    BY DEF fd_seek
  <2>4. Present' = Present /\ Timely' = Timely /\ Found' = Found
    BY <2>3 DEF Present, Timely, Found
  <2> QED
    BY <2>1, <2>2, <2>3, <2>4
<1>1. CASE UNCHANGED <<pc, i, send, sought>>
  BY <1>0, <1>1 DEF FloppyInv, FloppyTypes, MotorOff, AbsentIsFound, KnowsMachine, InStep, SeekUnderWay
<1>2. CASE send' = <<SEEK, head, c>> /\ i' = Tries /\ pc' = "seek" /\ sought' = c
  <2>1. Present
    BY <1>0 DEF FloppyInv, AbsentIsFound, FD_INI, FD_CONT_NO_REC
  <2>2. FloppyTypes'
    BY <1>0, <1>2, FloppyAssumption DEF FloppyInv, FloppyTypes, States, SEEK
  <2>3. MotorOff' /\ AbsentIsFound'
    BY <1>0, <1>2, <2>1 DEF FloppyInv, MotorOff, AbsentIsFound
  <2>4. ASSUME Timely PROVE KnowsMachine' /\ InStep'
    <3>1. fdc.phase = "idle" /\ fdc.wait < Tries
      BY <1>0, <2>1, <2>4, FloppyAssumption DEF FloppyInv, InStep, FloppyTypes, Timely, Controller
    <3>2. SeekUnderWay'
      BY <1>0, <1>2, <3>1 DEF SeekUnderWay, SEEK
    <3> QED
      BY <1>0, <1>2, <2>1, <2>4, <3>1, <3>2 DEF FloppyInv, KnowsMachine, InStep
  <2> QED
    BY <1>0, <1>2, <2>2, <2>3, <2>4 DEF FloppyInv
<1> QED
  BY <1>1, <1>2 DEF fd_seek

\* What does not depend on a step of the driver.
LEMMA SameMachine ==
    ASSUME FloppyInv, UNCHANGED hw
    PROVE  Present' = Present /\ Timely' = Timely /\ Found' = Found /\ hw.delay \in Nat /\ hw.delay' = hw.delay
BY FloppyAssumption DEF FloppyInv, FloppyTypes, Machine, Present, Timely, Found

\* The byte goes on its way and the next is polled for.
LEMMA SentType ==
    ASSUME FloppyTypes, pc \in {"out", "seek"}, Sent
    PROVE  /\ send' \in Seq(Int) /\ i' = Tries /\ pc' \in States
           /\ pc' \in {"out", "seek"} => send' # << >>
           /\ Head(send) \in Int
<1>1. send \in Seq(Int) /\ send # << >>
  BY DEF FloppyTypes
<1>2. Len(send) \in Nat /\ Len(send) >= 1 /\ Head(send) \in Int /\ Tail(send) \in Seq(Int)
      /\ Len(Tail(send)) = Len(send) - 1
  BY <1>1
<1>3. pc' \in {"out", "seek"} => Len(send) > 1
  BY DEF Sent
<1>4. send' = Tail(send) /\ i' = Tries /\ pc' \in {pc, "in", "done"}
  BY DEF Sent
<1>5. pc' \in {"out", "seek"} => send' # << >>
  <2> SUFFICES ASSUME pc' \in {"out", "seek"}, send' = << >> PROVE FALSE
    OBVIOUS
  <2>1. Tail(send) = << >>
    BY <1>4
  <2>2. Len(Tail(send)) = 0
    BY <2>1, EmptySeq
  <2>3. Len(send) > 1
    BY <1>3
  <2>4. Len(Tail(send)) > 0
    BY <1>2, <2>3
  <2>5. \A k : ~(k = 0 /\ k > 0)
    OBVIOUS
  <2> QED
    BY <2>2, <2>4, <2>5, Zenon
<1> QED
  BY <1>2, <1>4, <1>5 DEF States

\* A poll that leaves the byte for the next one.
LEMMA OutWaits ==
    ASSUME FloppyInv, pc \in {"out", "seek"}, i > 1, i' = i - 1, fdc' = Waited,
           Status \cap {RQM, DIO} # {RQM},
           UNCHANGED <<hw, out3f2, fd_estado, ret, sought, send, pc>>
    PROVE  FloppyInv'
<1>0. Present' = Present /\ Timely' = Timely /\ Found' = Found /\ FloppyTypes
  BY SameMachine DEF FloppyInv
<1>1. FloppyTypes'
  <2>1. fdc' \in Controller /\ fdc'.wait <= fdc.wait /\ fdc.wait \in Nat /\ fdc'.wait \in Nat
    BY <1>0, WaitedType DEF FloppyTypes, Controller
  <2>2. hw.delay \in Nat /\ i' \in 0 .. Tries
    BY <1>0, SameMachine, FloppyAssumption DEF FloppyTypes
  <2>3. fdc.wait <= hw.delay
    BY <1>0 DEF FloppyTypes
  <2>4. fdc'.wait <= hw'.delay
    BY <2>1, <2>2, <2>3
  <2> QED
    BY <1>0, <2>1, <2>2, <2>4 DEF FloppyTypes
<1>2. MotorOff' /\ AbsentIsFound' /\ (pc' \notin {"done", "seek"} => sought' = -1)
  BY <1>0 DEF FloppyInv, MotorOff, AbsentIsFound
<1>3. ASSUME Present, Timely PROVE KnowsMachine' /\ InStep'
  <2>1. InStep /\ KnowsMachine
    BY <1>3 DEF FloppyInv
  <2>2. fdc.phase \in {"idle", "command"}
    BY <2>1 DEF InStep, SeekUnderWay
  <2>3. fdc.wait # 0
    BY <1>0, <1>3, <2>2, OutStatus
  <2>4. fdc'.phase = fdc.phase /\ fdc'.left = fdc.left /\ fdc'.cyl = fdc.cyl /\ fdc'.wait < i'
    <3>1. fdc.wait \in Nat /\ i \in Nat /\ fdc.wait < i
      BY <1>0, <2>1, FloppyAssumption DEF FloppyTypes, Controller, InStep
    <3> QED
      BY <1>0, <2>3, <3>1, WaitedNearer
  <2>5. SeekUnderWay => SeekUnderWay'
    BY <2>4 DEF SeekUnderWay
  <2>6. InStep'
    BY <2>1, <2>4, <2>5 DEF InStep
  <2> QED
    BY <1>0, <2>1, <2>6 DEF KnowsMachine
<1> QED
  BY <1>0, <1>1, <1>2, <1>3 DEF FloppyInv

\* A poll after which the byte is sent, or given up.
LEMMA OutSends ==
    ASSUME FloppyInv, pc \in {"out", "seek"}, Sent,
           \/ Received(Head(send))
           \/ fdc' = Waited,
           Status \cap {RQM, DIO} = {RQM} => Received(Head(send)),
           Status \cap {RQM, DIO} # {RQM} => i = 1,
           UNCHANGED <<hw, out3f2, fd_estado, ret, sought>>
    PROVE  FloppyInv'
<1>0. Present' = Present /\ Timely' = Timely /\ Found' = Found /\ FloppyTypes /\ hw.delay \in Nat
  BY SameMachine DEF FloppyInv
<1>1. FloppyTypes'
  <2>1. fdc' \in Controller /\ fdc'.wait <= hw'.delay
    <3>1. CASE Received(Head(send))
      BY <1>0, <3>1, SentType, ReceivedType
    <3>2. CASE fdc' = Waited
      <4>1. fdc' \in Controller /\ fdc'.wait <= fdc.wait /\ fdc.wait \in Nat /\ fdc'.wait \in Nat
        BY <1>0, <3>2, WaitedType DEF FloppyTypes, Controller
      <4>2. fdc.wait <= hw.delay
        BY <1>0 DEF FloppyTypes
      <4> QED
        BY <1>0, <4>1, <4>2
    <3> QED
      BY <3>1, <3>2
  <2>2. send' \in Seq(Int) /\ i' \in 0 .. Tries /\ pc' \in States /\ (pc' \in {"out", "seek"} => send' # << >>)
    BY <1>0, SentType, FloppyAssumption
  <2> QED
    BY <1>0, <2>1, <2>2 DEF FloppyTypes
<1>2. MotorOff' /\ AbsentIsFound' /\ (pc' \notin {"done", "seek"} => sought' = -1)
  <2>1. pc' = pc \/ (pc = "out" /\ pc' = "in") \/ (pc = "seek" /\ pc' = "done")
    BY DEF Sent
  <2> QED
    BY <1>0, <2>1 DEF FloppyInv, MotorOff, AbsentIsFound
<1>3. ASSUME Present, Timely PROVE KnowsMachine' /\ InStep'
  <2>1. InStep /\ KnowsMachine
    BY <1>3 DEF FloppyInv
  <2>2. fdc.phase \in {"idle", "command"}
    BY <2>1 DEF InStep, SeekUnderWay
  <2>3. fdc.wait = 0 /\ Ready
    <3>1. fdc.wait \in Nat /\ fdc.wait < i
      BY <1>0, <2>1 DEF FloppyTypes, Controller, InStep
    <3>2. fdc.wait = 0
      BY <1>0, <1>3, <2>2, <3>1, OutStatus DEF RQM
    <3> QED
      BY <1>3, <3>2 DEF Ready
  <2>4. Received(Head(send)) /\ fdc.phase # "result"
    BY <1>0, <1>3, <2>2, <2>3, OutStatus
  <2>5. fdc'.wait < i'
    <3>1. fdc'.wait \in Nat /\ fdc'.wait <= hw.delay /\ i' = Tries
      BY <1>0, <1>1, SentType DEF FloppyTypes, Controller
    <3> QED
      BY <1>0, <1>3, <3>1, FloppyAssumption DEF Timely
  <2>6. CASE pc = "out"
    <3>1. send = <<VERSION>> /\ fdc.phase = "idle" /\ fdc \in Controller
      BY <1>0, <2>1, <2>6 DEF InStep, FloppyTypes
    <3>2. Head(send) = VERSION /\ Len(send) = 1
      BY <3>1
    <3>3. pc' = "in"
      BY <2>6, <3>2 DEF Sent
    <3>4w. PICK w \in 0 .. hw.delay : Accepted(Head(send), w)
      BY <2>3, <2>4, <3>1, <3>2 DEF Received
    <3>4. fdc' = [fdc EXCEPT !.phase = "result", !.wait = w]
      BY <3>4w, <3>1, <3>2 DEF Accepted, VERSION, SEEK
    <3>5. fdc'.phase = "result"
      BY <3>1, <3>4 DEF Controller
    <3> QED
      BY <1>0, <2>1, <2>5, <3>3, <3>5 DEF InStep, KnowsMachine
  <2>7. CASE pc = "seek"
    <3>0. SeekUnderWay /\ fdc \in Controller /\ sought \in Int
      BY <1>0, <2>1, <2>7 DEF InStep, FloppyTypes
    <3>1. CASE fdc.phase = "idle" /\ \E h \in Int : send = <<SEEK, h, sought>>
      <4>1. PICK h \in Int : send = <<SEEK, h, sought>>
        BY <3>1
      <4>2. Head(send) = SEEK /\ Len(send) = 3 /\ Tail(send) = <<h, sought>>
        BY <3>0, <4>1
      <4>3w. PICK w \in 0 .. hw.delay : Accepted(Head(send), w)
        BY <2>3, <2>4, <3>1, <4>2 DEF Received
      <4>3. fdc' = [fdc EXCEPT !.phase = "command", !.left = 2, !.wait = w]
        BY <4>3w, <3>1, <4>2 DEF Accepted, VERSION, SEEK
      <4>4. fdc'.phase = "command" /\ fdc'.left = 2
        BY <3>0, <4>3 DEF Controller
      <4>5. pc' = "seek" /\ send' = <<h, sought'>>
        BY <2>7, <4>2 DEF Sent
      <4> QED
        BY <1>0, <2>1, <2>5, <4>4, <4>5 DEF InStep, KnowsMachine, SeekUnderWay
    <3>2. CASE fdc.phase = "command" /\ fdc.left = 2 /\ \E h \in Int : send = <<h, sought>>
      <4>1. PICK h \in Int : send = <<h, sought>>
        BY <3>2
      <4>2. Len(send) = 2 /\ Tail(send) = <<sought>>
        BY <3>0, <4>1
      <4>3w. PICK w \in 0 .. hw.delay : Accepted(Head(send), w)
        BY <2>3, <2>4, <3>2 DEF Received
      <4>3. fdc' = [fdc EXCEPT !.left = 1, !.wait = w]
        BY <4>3w, <3>2 DEF Accepted, VERSION, SEEK
      <4>4. fdc'.phase = "command" /\ fdc'.left = 1
        BY <3>0, <3>2, <4>3 DEF Controller
      <4>5. pc' = "seek" /\ send' = <<sought'>>
        BY <2>7, <4>2 DEF Sent
      <4> QED
        BY <1>0, <2>1, <2>5, <4>4, <4>5 DEF InStep, KnowsMachine, SeekUnderWay
    <3>3. CASE fdc.phase = "command" /\ fdc.left = 1 /\ send = <<sought>>
      <4>1. Len(send) = 1 /\ Head(send) = sought
        BY <3>0, <3>3
      <4>2w. PICK w \in 0 .. hw.delay : Accepted(Head(send), w)
        BY <2>3, <2>4, <3>3, <4>1 DEF Received
      <4>2. fdc' = [fdc EXCEPT !.phase = "idle", !.left = 0, !.wait = w, !.cyl = sought]
        BY <4>2w, <3>3, <4>1 DEF Accepted, VERSION, SEEK
      <4>3. fdc'.phase = "idle" /\ fdc'.cyl = sought
        BY <3>0, <4>2 DEF Controller
      <4>4. pc' = "done"
        BY <2>7, <4>1 DEF Sent
      <4> QED
        BY <1>0, <2>1, <4>3, <4>4 DEF InStep, KnowsMachine
    <3> QED
      BY <3>0, <3>1, <3>2, <3>3 DEF SeekUnderWay
  <2> QED
    BY <2>6, <2>7
<1> QED
  BY <1>0, <1>1, <1>2, <1>3 DEF FloppyInv

\* One poll of fd_out.
LEMMA OutStep == ASSUME FloppyInv, fd_out PROVE FloppyInv'
<1>1. CASE Status \cap {RQM, DIO} = {RQM} /\ Sent /\ Received(Head(send))
  BY <1>1, OutSends DEF fd_out
<1>2. CASE Status \cap {RQM, DIO} # {RQM} /\ i > 1 /\ i' = i - 1 /\ fdc' = Waited /\ UNCHANGED <<send, pc>>
  BY <1>2, OutWaits DEF fd_out
<1>3. CASE Status \cap {RQM, DIO} \notin {{RQM}, {}} /\ i = 1 /\ Sent /\ Received(Head(send))
  BY <1>3, OutSends DEF fd_out
<1>4. CASE Status \cap {RQM, DIO} = {} /\ i = 1 /\ Sent /\ fdc' = Waited
  BY <1>4, OutSends DEF fd_out, RQM
<1> QED
  BY <1>1, <1>2, <1>3, <1>4 DEF fd_out

\* One poll of fd_in: without a controller it reads no version, and a controller
\* that is there in time is read only when it has its answer ready.
LEMMA InPollStep == ASSUME FloppyInv, fd_in PROVE FloppyInv'
<1>0. Present' = Present /\ Timely' = Timely /\ Found' = Found /\ FloppyTypes /\ hw.delay \in Nat
      /\ pc = "in" /\ UNCHANGED <<hw, out3f2, fd_estado, send, sought>>
  BY SameMachine DEF FloppyInv, fd_in
<1> DEFINE Read == \E v \in Data : Version(v)
           Taken == fdc' = IF Ready /\ fdc.phase = "result" THEN [fdc EXCEPT !.phase = "idle"] ELSE Waited
<1>1. /\ pc' \in {"in", "version", "done"} /\ i' \in {i, i - 1} /\ (i' = i - 1 => i > 1)
      /\ Taken \/ fdc' = Waited
      /\ ret' = ret \/ (ret' = FD_CONT_NO_REC /\ pc' = "done")
  <2>1. i \in Int
    BY <1>0, FloppyAssumption DEF FloppyTypes
  <2>2. CASE i' = i - 1 /\ i > 1 /\ fdc' = Waited /\ UNCHANGED <<pc, ret>>
    BY <1>0, <2>2
  <2>3. CASE i' = i /\ (Taken \/ fdc' = Waited) /\ (Read \/ Version(0))
    <3>1. i' # i - 1
      BY <2>1, <2>3
    <3>2. pc' \in {"version", "done"} /\ (ret' = ret \/ (ret' = FD_CONT_NO_REC /\ pc' = "done"))
      BY <2>3 DEF Version
    <3> QED
      BY <2>3, <3>1, <3>2
  <2> QED
    BY <2>2, <2>3 DEF fd_in
<1>2. FloppyTypes'
  <2>1. fdc.wait \in Nat /\ fdc.wait <= hw.delay /\ fdc \in Controller
    BY <1>0 DEF FloppyTypes, Controller
  <2>2. CASE fdc' = Waited
    <3>1. fdc' \in Controller /\ fdc'.wait \in Nat /\ fdc'.wait <= fdc.wait
      BY <1>0, <2>2, WaitedType DEF Controller
    <3>2. fdc'.wait <= hw'.delay
      BY <1>0, <2>1, <3>1
    <3>3. i' \in 0 .. Tries
      BY <1>0, <1>1, FloppyAssumption DEF FloppyTypes
    <3> QED
      BY <1>0, <1>1, <3>1, <3>2, <3>3 DEF FloppyTypes, States
  <2>3. CASE fdc' = [fdc EXCEPT !.phase = "idle"]
    <3>1. fdc' \in Controller /\ fdc'.wait = fdc.wait
      BY <2>1, <2>3 DEF Controller
    <3>2. fdc'.wait <= hw'.delay
      BY <1>0, <2>1, <3>1
    <3>3. i' \in 0 .. Tries
      BY <1>0, <1>1, FloppyAssumption DEF FloppyTypes
    <3> QED
      BY <1>0, <1>1, <3>1, <3>2, <3>3 DEF FloppyTypes, States
  <2> QED
    BY <1>1, <2>2, <2>3
<1>3. MotorOff' /\ sought' = -1
  BY <1>0, <1>1 DEF FloppyInv, MotorOff
<1>4. AbsentIsFound'
  <2>1. SUFFICES ASSUME ~Present PROVE ret' \in {-1, FD_CONT_NO_REC} /\ pc' # "version"
    BY <1>0, <1>1, <1>3 DEF AbsentIsFound
  <2>2. (~Ready /\ Data \subseteq {0, 255}) \/ hw.fdc = "reads00"
    BY <1>0, <2>1 DEF FloppyTypes, Machine, Present, Ready, Data
  <2>3. CASE hw.fdc = "reads00"
    <3>1. Status = {}
      BY <2>3 DEF Status
    <3>2. pc' # "version"
      BY <1>0, <3>1 DEF fd_in, Version, RQM
    <3> QED
      BY <1>1, <2>1, <3>2 DEF FloppyInv, AbsentIsFound
  <2>4. CASE Data \subseteq {0, 255}
    <3>1. pc' # "version"
      BY <1>0, <2>4 DEF fd_in, Version
    <3> QED
      BY <1>1, <2>1, <3>1 DEF FloppyInv, AbsentIsFound
  <2> QED
    BY <2>2, <2>3, <2>4
<1>5. ASSUME Present, Timely PROVE KnowsMachine' /\ InStep'
  <2>1. InStep /\ KnowsMachine /\ fdc.phase = "result" /\ fdc.wait < i /\ fdc.wait \in Nat /\ i \in Nat
    BY <1>0, <1>5, FloppyAssumption DEF FloppyInv, InStep, FloppyTypes, Controller
  <2>2. Status # {} /\ (Status = {RQM, DIO, CB} <=> fdc.wait = 0)
    BY <1>0, <1>5, <2>1, InStatus
  <2>3. CASE fdc.wait = 0
    <3>1. Ready /\ Status = {RQM, DIO, CB}
      BY <1>5, <2>2, <2>3 DEF Ready
    <3>2. Read /\ fdc' = [fdc EXCEPT !.phase = "idle"]
      BY <2>1, <2>2, <3>1 DEF fd_in
    <3>3. Data = {Answer}
      BY <1>5, <2>1, <3>1 DEF Data, Present
    <3>4. Version(Answer)
      BY <3>2, <3>3
    <3>5. hw.fdc \in {"765A", "765B"} => pc' = "version" /\ ret' = ret
      BY <3>4 DEF Version, Answer
    <3>6. hw.fdc \notin {"765A", "765B"} => pc' = "done" /\ ret' = Found
      BY <3>4 DEF Version, Answer, Found
    <3>7. fdc'.phase = "idle"
      BY <1>0, <3>2 DEF FloppyTypes, Controller
    <3>8. pc' = "done" => hw.fdc \notin {"765A", "765B"}
      BY <3>5
    <3> QED
      BY <1>0, <1>3, <2>1, <3>5, <3>6, <3>7 DEF KnowsMachine, InStep
  <2>4. CASE fdc.wait # 0
    <3>1. Status # {RQM, DIO, CB} /\ i > 1
      BY <2>1, <2>2, <2>4
    <3>2. i' = i - 1 /\ fdc' = Waited /\ UNCHANGED <<pc, ret>>
      BY <2>2, <3>1 DEF fd_in
    <3>3. fdc'.phase = "result" /\ fdc'.wait < i'
      BY <1>0, <2>1, <2>4, <3>2, WaitedNearer
    <3> QED
      BY <1>0, <2>1, <3>2, <3>3 DEF KnowsMachine, InStep
  <2> QED
    BY <2>3, <2>4
<1> QED
  BY <1>0, <1>2, <1>3, <1>4, <1>5 DEF FloppyInv

\* The motor starts only when the drive is right, and stops again.
LEMMA MotorStep == ASSUME FloppyInv, fd_motorStart \/ fd_motorStop PROVE FloppyInv'
<1>0. Present' = Present /\ Timely' = Timely /\ Found' = Found /\ FloppyTypes
      /\ pc \in {"version", "spin"} /\ UNCHANGED <<hw, fdc, i, send, sought>> /\ pc' \in {"spin", "done"}
  BY SameMachine DEF FloppyInv, fd_motorStart, fd_motorStop
<1>1. FloppyTypes'
  BY <1>0 DEF FloppyTypes, States
<1>2. MotorOff'
  <2>1. CASE fd_motorStart
    BY <2>1 DEF FloppyInv, MotorOff, fd_motorStart
  <2>2. CASE fd_motorStop
    BY <2>2 DEF MotorOff, fd_motorStop
  <2> QED
    BY <2>1, <2>2
<1>3. Present /\ sought = -1
  BY <1>0 DEF FloppyInv, AbsentIsFound
<1>4. ASSUME Timely PROVE KnowsMachine' /\ InStep'
  <2>1. KnowsMachine /\ InStep
    BY <1>3, <1>4 DEF FloppyInv
  <2>2. InStep'
    BY <1>0, <1>3, <2>1 DEF InStep
  <2>3. hw.fdc \in {"765A", "765B"}
    BY <1>0, <2>1 DEF KnowsMachine
  <2>4. ret' \in {-1, Found}
    <3>1. CASE fd_motorStart
      BY <2>1, <2>3, <3>1 DEF KnowsMachine, fd_motorStart, Found
    <3>2. CASE fd_motorStop
      BY <2>1, <2>3, <3>2 DEF KnowsMachine, fd_motorStop, Found
    <3> QED
      BY <3>1, <3>2
  <2>5. pc' = "spin" => hw.is144
    BY DEF fd_motorStart, fd_motorStop
  <2> QED
    BY <1>0, <2>2, <2>3, <2>4, <2>5 DEF KnowsMachine
<1> QED
  BY <1>0, <1>1, <1>2, <1>3, <1>4 DEF FloppyInv, AbsentIsFound

\* FloppyInv is inductive.
LEMMA FloppyNext == FloppyInv /\ [Next]_vars => FloppyInv'
<1> SUFFICES ASSUME FloppyInv, [Next]_vars PROVE FloppyInv'
  OBVIOUS
<1>1. CASE UNCHANGED vars
  BY <1>1 DEF vars, FloppyInv, FloppyTypes, MotorOff, AbsentIsFound, KnowsMachine, InStep, SeekUnderWay,
              Present, Timely, Found
<1>2. CASE Next
  BY <1>2, IniStep, SeekStep, OutStep, InPollStep, MotorStep DEF Next, Driver
<1> QED
  BY <1>1, <1>2

\* FloppyInv holds in every reachable state.
THEOREM FloppyInvariant == Spec => []FloppyInv
<1> QED
  BY FloppyInit, FloppyNext, PTL DEF Spec

\* After every return of fd_ini the motor is off, and fd_estado is what the output
\* register holds (fd_motor, fd_reset).
THEOREM MotorIsOff == Spec => []MotorOff
<1>1. FloppyInv => MotorOff
  BY DEF FloppyInv
<1> QED
  BY <1>1, FloppyInvariant, PTL

\* fd_ini returns what the machine has, however many polls fd_out and fd_in make,
\* if the controller needs fewer, and also if there is none.
THEOREM MachineFound == Spec => []FindsController
<1>1. FloppyInv => FindsController
  BY DEF FloppyInv, AbsentIsFound, KnowsMachine, FindsController, Found, Present
<1> QED
  BY <1>1, FloppyInvariant, PTL

\* After fd_seek a controller that was ready in time stands on the cylinder and waits
\* for a new command.
THEOREM SeekArrives == Spec => []SeeksWhereAsked
<1>1. FloppyInv => SeeksWhereAsked
  BY DEF FloppyInv, AbsentIsFound, InStep, SeeksWhereAsked
<1> QED
  BY <1>1, FloppyInvariant, PTL
=============================================================================
