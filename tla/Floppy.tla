------------------------------- MODULE Floppy -------------------------------
(***************************************************************************)
(* The floppy driver (fd/fd.c) and, as far as the driver sees it, the      *)
(* controller: a status register that is polled a bounded number of times  *)
(* before every byte, and a data register.  Nobody interrupts the driver;  *)
(* what is hard is that the controller takes its time, or is not there.    *)
(*                                                                         *)
(* Registers are sets of the bits that are set.  One step is one poll.     *)
(***************************************************************************)
EXTENDS Integers, Sequences

CONSTANTS
    Tries,      \* polls before fd_out and fd_in give up (1000000)
    Delays,     \* polls a controller may need until it is ready
    Cylinders,
    Heads       \* values of fd_seek's first parameter, an unsigned char

Byte == 0 .. 255
ASSUME FloppyAssumption ==
    /\ Tries \in Nat \ {0} /\ Delays \subseteq Nat /\ Cylinders \subseteq Byte /\ Heads \subseteq Byte

\* Bits of the main status register: ready, towards the processor, busy.
RQM == 128
DIO == 64
CB  == 16
\* Bits of the output register 0x3f2: not reset, interrupts, the motor.
RESET_INT == {2, 3}   \* 0x0c
MOTOR == 4            \* 0x10

FD_INI == 0
FD_CONT_NO_REC == 1
FD_CAP_NO_DETEC == 2

VERSION == 16   \* the command 0x10
SEEK == 15      \* the command 0x0f

\* The machine: its controller answers 0x80 (765A), 0x90 (765B) or something
\* else, or there is none and its ports read 0x00 or 0xff; how slow it is; and
\* whether the drive has 1.44 Mb.
Machine == [fdc : {"765A", "765B", "other", "reads00", "readsFF"}, delay : Delays, is144 : BOOLEAN]

VARIABLES
    hw,         \* the machine
    fdc,        \* the controller: [phase, wait, left, cyl]
    out3f2,     \* the output register
    fd_estado,  \* the driver's copy of it
    pc,         \* "done"; fd_ini: "out", "in", "version", "spin"; fd_seek: "seek"
    i,          \* polls left
    send,       \* bytes that fd_out has still to send, the first being polled for
    ret,        \* what fd_ini returned last, -1: never called
    sought      \* the cylinder of the last fd_seek that returned 0, -1: none

vars == <<hw, fdc, out3f2, fd_estado, pc, i, send, ret, sought>>

Init ==
    /\ hw \in Machine
    /\ fdc = [phase |-> "idle", wait |-> 0, left |-> 0, cyl |-> 0]
    /\ out3f2 = {} /\ fd_estado = {}
    /\ pc = "done" /\ i = 0 /\ send = << >> /\ ret = -1 /\ sought = -1

-----------------------------------------------------------------------------
(* The controller                                                          *)

Present == hw.fdc \in {"765A", "765B", "other"}
Ready == Present /\ fdc.wait = 0

\* Within a command and a result the controller is busy, and between two bytes and
\* after a reset not ready for a while.
Status ==
    CASE hw.fdc = "reads00" -> {}
      [] hw.fdc = "readsFF" -> {RQM, DIO, CB}
      [] OTHER -> (IF Ready THEN {RQM} ELSE {})
                  \cup (IF fdc.phase = "result" THEN {DIO} ELSE {})
                  \cup (IF fdc.phase \in {"command", "result"} THEN {CB} ELSE {})

Waited == [fdc EXCEPT !.wait = IF @ = 0 THEN 0 ELSE @ - 1]

\* A byte for a controller that is ready: one of a command, or the first of one.
Accepted(b, w) ==
    \/ fdc.phase = "command" /\ fdc.left = 2 /\ fdc' = [fdc EXCEPT !.left = 1, !.wait = w]
    \/ /\ fdc.phase = "command" /\ fdc.left = 1
       /\ fdc' = [fdc EXCEPT !.phase = "idle", !.left = 0, !.wait = w, !.cyl = b]
    \/ fdc.phase = "idle" /\ b = VERSION /\ fdc' = [fdc EXCEPT !.phase = "result", !.wait = w]
    \/ fdc.phase = "idle" /\ b = SEEK /\ fdc' = [fdc EXCEPT !.phase = "command", !.left = 2, !.wait = w]
    \/ fdc.phase = "idle" /\ b \notin {VERSION, SEEK} /\ fdc' = [fdc EXCEPT !.wait = w]

\* Written when it is not ready for a byte, the data register ignores it.
Received(b) ==
    IF Ready /\ fdc.phase # "result" THEN \E w \in 0 .. hw.delay : Accepted(b, w)
    ELSE fdc' = Waited

Answer == CASE hw.fdc = "765A" -> 128 [] hw.fdc = "765B" -> 144 [] OTHER -> 0

\* What the data register reads: the answer once it is ready, all ones without a
\* controller, and before that anything.
Data == IF hw.fdc = "readsFF" THEN {255}
        ELSE IF Ready /\ fdc.phase = "result" THEN {Answer} ELSE {0, 128, 144}

-----------------------------------------------------------------------------
(* The driver                                                              *)

\* fd_reset and the delay after it, of which the controller may need all or more.
\* fd_ini goes on to ask for the version.
fd_ini ==
    /\ pc = "done"
    /\ out3f2' = RESET_INT /\ fd_estado' = RESET_INT
    /\ \E w \in 0 .. hw.delay : fdc' = [fdc EXCEPT !.phase = "idle", !.wait = w, !.left = 0]
    /\ send' = <<VERSION>> /\ i' = Tries /\ pc' = "out"
    /\ sought' = -1
    /\ UNCHANGED <<hw, ret>>

\* The head is shifted first and compared then: a head passes if what is left of
\* it in eight bits is 0.  fd_seek has no caller; one would have called fd_ini.
fd_seek(cabeza, cilindro) ==
    /\ pc = "done" /\ ret = FD_INI
    /\ IF (4 * cabeza) % 256 > 1 THEN UNCHANGED <<pc, i, send, sought>>
       ELSE /\ send' = <<SEEK, (4 * cabeza) % 256, cilindro>>
            /\ i' = Tries /\ pc' = "seek" /\ sought' = cilindro
    /\ UNCHANGED <<hw, fdc, out3f2, fd_estado, ret>>

\* What follows when fd_out is through with a byte, sent or not.
Sent ==
    /\ send' = Tail(send)
    /\ i' = Tries
    /\ pc' = IF Len(send) > 1 THEN pc ELSE IF pc = "out" THEN "in" ELSE "done"

\* Mutant: the last poll's answer does not count.
fd_outImpatient ==
    /\ pc \in {"out", "seek"}
    /\ LET c == Status \cap {RQM, DIO} IN
       IF i = 1 THEN Sent /\ fdc' = Waited
       ELSE IF c = {RQM} THEN Sent /\ Received(Head(send))
       ELSE i' = i - 1 /\ fdc' = Waited /\ UNCHANGED <<send, pc>>
    /\ UNCHANGED <<hw, out3f2, fd_estado, ret, sought>>

\* Mutant: only polls that read nothing are counted.
fd_outForever ==
    /\ pc \in {"out", "seek"}
    /\ LET c == Status \cap {RQM, DIO} IN
       \/ c = {RQM} /\ Sent /\ Received(Head(send))
       \/ c # {RQM} /\ (c = {} => i > 1) /\ i' = (IF c = {} THEN i - 1 ELSE i)
                    /\ fdc' = Waited /\ UNCHANGED <<send, pc>>
       \/ c = {} /\ i = 1 /\ Sent /\ fdc' = Waited
    /\ UNCHANGED <<hw, out3f2, fd_estado, ret, sought>>

\* One poll of fd_out.  After the last one only a status of 0 keeps the byte back.
fd_out ==
    /\ pc \in {"out", "seek"}
    /\ LET c == Status \cap {RQM, DIO} IN
       \/ c = {RQM} /\ Sent /\ Received(Head(send))
       \/ c # {RQM} /\ i > 1 /\ i' = i - 1 /\ fdc' = Waited /\ UNCHANGED <<send, pc>>
       \/ c \notin {{RQM}, {}} /\ i = 1 /\ Sent /\ Received(Head(send))
       \/ c = {} /\ i = 1 /\ Sent /\ fdc' = Waited
    /\ UNCHANGED <<hw, out3f2, fd_estado, ret, sought>>

\* The version that fd_ini makes of what fd_in returned.
Version(v) ==
    IF v \in {128, 144} THEN pc' = "version" /\ UNCHANGED ret
    ELSE pc' = "done" /\ ret' = FD_CONT_NO_REC

\* Mutant: any of the three bits is enough.
fd_inEarly ==
    /\ pc = "in"
    /\ \/ /\ Status # {}
          /\ \E v \in Data : Version(v)
          /\ fdc' = IF Ready /\ fdc.phase = "result" THEN [fdc EXCEPT !.phase = "idle"] ELSE Waited
          /\ UNCHANGED i
       \/ Status = {} /\ i > 1 /\ i' = i - 1 /\ fdc' = Waited /\ UNCHANGED <<pc, ret>>
       \/ Status = {} /\ i = 1 /\ Version(0) /\ fdc' = Waited /\ UNCHANGED i
    /\ UNCHANGED <<hw, out3f2, fd_estado, send, sought>>

\* One poll of fd_in.  After the last one only a status of 0 keeps it from reading.
fd_in ==
    /\ pc = "in"
    /\ LET c == Status IN
       \/ /\ c = {RQM, DIO, CB} \/ (c # {} /\ i = 1)
          /\ \E v \in Data : Version(v)
          /\ fdc' = IF Ready /\ fdc.phase = "result" THEN [fdc EXCEPT !.phase = "idle"] ELSE Waited
          /\ UNCHANGED i
       \/ c # {RQM, DIO, CB} /\ i > 1 /\ i' = i - 1 /\ fdc' = Waited /\ UNCHANGED <<pc, ret>>
       \/ c = {} /\ i = 1 /\ Version(0) /\ fdc' = Waited /\ UNCHANGED i
    /\ UNCHANGED <<hw, out3f2, fd_estado, send, sought>>

\* The type of the drive from the machine's configuration, and the motor.
fd_motorStart ==
    /\ pc = "version"
    /\ IF hw.is144
       THEN /\ fd_estado' = fd_estado \cup {MOTOR} /\ out3f2' = fd_estado'
            /\ pc' = "spin" /\ UNCHANGED ret
       ELSE pc' = "done" /\ ret' = FD_CAP_NO_DETEC /\ UNCHANGED <<fd_estado, out3f2>>
    /\ UNCHANGED <<hw, fdc, i, send, sought>>

\* Mutant: the copy keeps the motor's bit.
fd_motorStopCopy ==
    /\ pc = "spin"
    /\ out3f2' = fd_estado \ {MOTOR}
    /\ pc' = "done" /\ ret' = FD_INI
    /\ UNCHANGED <<hw, fdc, fd_estado, i, send, sought>>

fd_motorStop ==
    /\ pc = "spin"
    /\ fd_estado' = fd_estado \ {MOTOR} /\ out3f2' = fd_estado'
    /\ pc' = "done" /\ ret' = FD_INI
    /\ UNCHANGED <<hw, fdc, i, send, sought>>

Driver == fd_out \/ fd_in \/ fd_motorStart \/ fd_motorStop

Next == fd_ini \/ (\E h \in Heads, c \in Cylinders : fd_seek(h, c)) \/ Driver

\* The driver's loops run on; nobody has to call it.
Spec == Init /\ [][Next]_vars /\ WF_vars(Driver)

-----------------------------------------------------------------------------
(* Properties                                                              *)

\* A controller that is ready before the driver gives up.
Timely == hw.delay < Tries

\* What fd_ini should say of the machine.
Found == IF hw.fdc \notin {"765A", "765B"} THEN FD_CONT_NO_REC
         ELSE IF hw.is144 THEN FD_INI ELSE FD_CAP_NO_DETEC

\* fd_ini tells the machines apart although fd_out and fd_in do not look at what
\* made them stop: without a controller the bytes written and read after the last
\* poll do not pass for one.  (A controller that is slower than a million polls
\* may be taken for any.)
FindsController == pc = "done" /\ ret # -1 /\ (Present => Timely) => ret = Found

\* Commands reach the controller whole, also after a seek or an answer that is
\* still going on: it stands on the cylinder the last accepted fd_seek wanted, and it
\* does not wait for the rest of a command.  (The head is another matter: fd_seek
\* sends 64, 128 and 192 as 0.)
SeeksWhereAsked ==
    pc = "done" /\ sought # -1 /\ Timely => fdc.cyl = sought /\ fdc.phase = "idle"

\* On every way out of fd_ini the motor is off, and the copy from which the next
\* call makes the output register is what was written last.
MotorOff ==
    /\ out3f2 = fd_estado
    /\ pc # "spin" => MOTOR \notin out3f2

\* Polling is bounded: whatever the ports read, calls return.
CallsEnd == pc # "done" ~> pc = "done"
=============================================================================
