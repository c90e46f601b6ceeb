---------------------------- MODULE SpeedProofs ----------------------------
(***************************************************************************)
(* Proofs about INT 0x41, for any set of tasks and of vectors and for maps *)
(* of any size: the interrupts (IntInv is inductive; OwnSpace is inductive *)
(* on top of it if the registered functions keep edx), the arithmetic of   *)
(* the port maps, the ports (PortInv) and the composition of the two.      *)
(***************************************************************************)
EXTENDS Speed, NatLemmas, TLAPS

\* The initial state satisfies the invariant: nothing is registered or told.
LEMMA IntInit == Init => IntInv
<1> SUFFICES ASSUME Init PROVE IntInv
  OBVIOUS
<1> USE InterruptAssumption DEF Init, Nobody, Kernel, Keyboard, Lines, Wild
<1>1. TypeOK
  BY DEF TypeOK, Owner
<1>2. ToldOwners /\ ClockStaysOn
  BY DEF ToldOwners, ClockStaysOn
<1>3. KeyboardEntry /\ BootIsQuiet /\ LostUnowned /\ t_int = {}
  BY DEF KeyboardEntry, BootIsQuiet, LostUnowned
<1> QED
  BY <1>1, <1>2, <1>3 DEF IntInv

\* SYS_RINT keeps the invariant: it takes a vector only from nobody.
LEMMA RintStep ==
    ASSUME IntInv, NEW v \in Vectors, sys_rint(v)
    PROVE  IntInv'
<1> USE InterruptAssumption DEF Nobody, Kernel, Keyboard, Lines, Wild
<1> DEFINE mine == [tarea |-> task, func |-> task, cr3 |-> task]
<1>1. v \in 0 .. 255 /\ task \in Users /\ mine \in Owner /\ step = "run" /\ step' = "run"
  BY DEF IntInv, TypeOK, Owner, sys_rint, Running
<1>2. CASE r_int[v].tarea = Nobody
  <2>1. /\ r_int' = [r_int EXCEPT ![v] = mine]
        /\ eax' = [eax EXCEPT ![task][v] = 0]
        /\ t_int' = {} /\ mask' \in {{}, mask}
        /\ UNCHANGED <<step, task, cr3, aux_cr3, handling, func>>
    BY <1>2 DEF sys_rint, Cleared, IntInv
  <2>2. TypeOK'
    BY <1>1, <2>1 DEF IntInv, TypeOK
  <2>3. ToldOwners'
    <3>1. \A t \in Users, w \in Vectors : (eax[t][w] = 0)' => (r_int[w].tarea = t)'
      <4> SUFFICES ASSUME NEW t \in Users, NEW w \in Vectors, eax'[t][w] = 0
                   PROVE  r_int'[w].tarea = t
        OBVIOUS
      <4>1. w \in 0 .. 255 /\ r_int \in [0 .. 255 -> Owner] /\ eax \in [Users -> [Vectors -> {-1, 0, 1}]]
        BY DEF IntInv, TypeOK
      <4>2. CASE w = v
        <5>1. t = task
          <6> SUFFICES ASSUME t # task PROVE FALSE
            OBVIOUS
          <6>1. eax[t][v] = 0
            BY <2>1, <4>1, <4>2
          <6> QED
            BY <6>1, <1>2 DEF IntInv, ToldOwners
        <5> QED
          BY <5>1, <4>1, <4>2, <2>1
      <4>3. CASE w # v
        <5>1. eax'[t][w] = eax[t][w] /\ r_int'[w] = r_int[w]
          BY <4>1, <4>3, <2>1, <1>1
        <5> QED
          BY <5>1 DEF IntInv, ToldOwners
      <4> QED
        BY <4>2, <4>3
    <3>2. \A w \in 0 .. 16 : r_int'[w].tarea = Kernel
      <4> SUFFICES ASSUME NEW w \in 0 .. 16 PROVE r_int'[w].tarea = Kernel
        OBVIOUS
      <4>1. r_int[w].tarea = Kernel
        BY <1>1 DEF IntInv, ToldOwners
      <4> QED
        BY <4>1, <1>2, <2>1, <1>1 DEF IntInv, TypeOK
    <3> QED
      BY <3>1, <3>2 DEF ToldOwners
  <2>4. ClockStaysOn' /\ BootIsQuiet'
    BY <1>1, <2>1 DEF IntInv, ClockStaysOn, BootIsQuiet
  <2>5. KeyboardEntry'
    BY <1>1, <2>1 DEF IntInv, TypeOK, KeyboardEntry
  <2>6. LostUnowned'
    BY <2>1 DEF LostUnowned, sys_rint, Running
  <2> QED
    BY <2>1, <2>2, <2>3, <2>4, <2>5, <2>6 DEF IntInv
<1>3. CASE r_int[v].tarea # Nobody
  <2>1. /\ eax' = [eax EXCEPT ![task][v] = -1]
        /\ UNCHANGED <<r_int, t_int, mask, step, task, cr3, aux_cr3, handling, func>>
    BY <1>3 DEF sys_rint
  <2>2. \A t \in Users, w \in Vectors : eax'[t][w] = 0 => eax[t][w] = 0
    BY <1>1, <2>1 DEF IntInv, TypeOK
  <2>3. TypeOK'
    BY <1>1, <2>1 DEF IntInv, TypeOK
  <2>4. ToldOwners'
    BY <2>1, <2>2 DEF IntInv, ToldOwners
  <2>5. ClockStaysOn' /\ BootIsQuiet' /\ KeyboardEntry' /\ LostUnowned' /\ t_int' = {}
    BY <1>1, <2>1 DEF IntInv, ClockStaysOn, BootIsQuiet, KeyboardEntry, LostUnowned
  <2> QED
    BY <2>3, <2>4, <2>5 DEF IntInv
<1> QED
  BY <1>2, <1>3

\* Every step keeps the invariant.
LEMMA IntStep == IntInv /\ [Next]_vars => IntInv'
<1> SUFFICES ASSUME IntInv, [Next]_vars PROVE IntInv'
  OBVIOUS
<1> USE InterruptAssumption DEF Nobody, Kernel, Keyboard, Lines, Wild
<1>1. CASE set_8259
  BY <1>1 DEF set_8259, IntInv, TypeOK, ToldOwners, ClockStaysOn, KeyboardEntry, BootIsQuiet, LostUnowned
<1>2. CASE ini_tss
  <2>1. \A v \in 0 .. 255 :
          /\ r_int[v] \in Owner
          /\ r_int'[v] = [r_int[v] EXCEPT !.tarea = IF v < 17 THEN Kernel ELSE Nobody]
    BY <1>2 DEF ini_tss, IntInv, TypeOK
  <2>2. \A v \in 0 .. 255 :
          /\ r_int'[v] \in Owner
          /\ r_int'[v].tarea = IF v < 17 THEN Kernel ELSE Nobody
          /\ r_int'[v].func = r_int[v].func /\ r_int'[v].cr3 = r_int[v].cr3
    <3> SUFFICES ASSUME NEW v \in 0 .. 255
                 PROVE  /\ r_int'[v] \in Owner
                        /\ r_int'[v].tarea = IF v < 17 THEN Kernel ELSE Nobody
                        /\ r_int'[v].func = r_int[v].func /\ r_int'[v].cr3 = r_int[v].cr3
      OBVIOUS
    <3>1. r_int[v] \in Owner /\ r_int'[v] = [r_int[v] EXCEPT !.tarea = IF v < 17 THEN Kernel ELSE Nobody]
      BY <2>1
    <3> QED
      BY <3>1 DEF Owner
  <2>3. step = "ini_tss" /\ step' = "task_control" /\ UNCHANGED <<mask, t_int, task, cr3, aux_cr3, handling, func, eax>>
    BY <1>2 DEF ini_tss
  <2>4. r_int' \in [0 .. 255 -> Owner]
    BY <1>2, <2>2 DEF ini_tss
  <2>5. TypeOK'
    BY <2>3, <2>4 DEF IntInv, TypeOK
  <2>6. r_int'[17].tarea = 0 /\ r_int'[17].func = 0 /\ r_int'[17].cr3 = 0
    <3>1. 17 \in 0 .. 255 /\ r_int[17].func = 0 /\ r_int[17].cr3 = 0
      BY <2>3 DEF IntInv, BootIsQuiet
    <3>2. /\ r_int'[17].tarea = IF 17 < 17 THEN 1 ELSE 0
          /\ r_int'[17].func = r_int[17].func /\ r_int'[17].cr3 = r_int[17].cr3
      BY <3>1, <2>2, Zenon
    <3> QED
      BY <3>1, <3>2
  <2>7. handling' = "no" /\ \A t \in Users, v \in Vectors : eax'[t][v] = 1
    BY <2>3 DEF IntInv, BootIsQuiet
  <2>8. ToldOwners'
    <3>1. \A v \in 0 .. 16 : r_int'[v].tarea = Kernel
      <4> SUFFICES ASSUME NEW v \in 0 .. 16 PROVE r_int'[v].tarea = Kernel
        OBVIOUS
      <4>1. v \in 0 .. 255 /\ v < 17
        OBVIOUS
      <4> QED
        BY <4>1, <2>2
    <3> QED
      BY <2>7, <3>1 DEF ToldOwners
  <2>9. BootIsQuiet' /\ ClockStaysOn' /\ LostUnowned' /\ KeyboardEntry' /\ t_int' = {}
    BY <2>3, <2>6, <2>7 DEF IntInv, BootIsQuiet, ClockStaysOn, LostUnowned, KeyboardEntry
  <2> QED
    BY <2>5, <2>8, <2>9 DEF IntInv
<1>3. CASE task_control
  BY <1>3 DEF task_control, IntInv, TypeOK, ToldOwners, ClockStaysOn, KeyboardEntry, BootIsQuiet, LostUnowned
<1>4. ASSUME NEW t \in Users, Clock(t) PROVE IntInv'
  BY <1>4 DEF Clock, Running, IntInv, TypeOK, ToldOwners, ClockStaysOn, KeyboardEntry, BootIsQuiet, LostUnowned
<1>5. ASSUME NEW v \in Vectors, sys_rint(v) PROVE IntInv'
  BY <1>5, RintStep
<1>6. CASE Enter
  <2>1. r_int[Keyboard].func \in {Nobody} \cup Users /\ r_int[Keyboard].cr3 \in {Nobody} \cup Users
    BY DEF IntInv, KeyboardEntry
  <2>2. TypeOK'
    BY <1>6, <2>1 DEF Enter, IntInv, TypeOK
  <2>3. ToldOwners' /\ ClockStaysOn' /\ KeyboardEntry' /\ t_int' = {}
    BY <1>6 DEF Enter, IntInv, ToldOwners, ClockStaysOn, KeyboardEntry
  <2>4. BootIsQuiet' /\ LostUnowned'
    BY <1>6 DEF Enter, Running, IntInv, BootIsQuiet, LostUnowned, KeyboardEntry
  <2> QED
    BY <2>2, <2>3, <2>4 DEF IntInv
<1>7. CASE Leave
  BY <1>7 DEF Leave, IntInv, TypeOK, ToldOwners, ClockStaysOn, KeyboardEntry, BootIsQuiet, LostUnowned
<1>8. CASE UNCHANGED vars
  BY <1>8 DEF vars, IntInv, TypeOK, ToldOwners, ClockStaysOn, KeyboardEntry, BootIsQuiet, LostUnowned
<1> QED
  BY <1>1, <1>2, <1>3, <1>4, <1>5, <1>6, <1>7, <1>8 DEF Next

\* IntInv holds in every reachable state.
THEOREM IntInvariant == Spec => []IntInv
<1> QED
  BY IntInit, IntStep, PTL DEF Spec

\* A step that mixes in a port call changes nothing of the interrupts.
LEMMA Composed == SpeedSpec => Spec
<1>1. SpeedInit => Init
  BY DEF SpeedInit
<1>2. [SpeedNext]_speedVars => [Next]_vars
  <2>1. ASSUME NEW p \in P!PortNumbers, int_soft_speed(p) PROVE UNCHANGED vars
    BY <2>1 DEF int_soft_speed
  <2> QED BY <2>1 DEF SpeedNext, speedVars
<1> QED BY <1>1, <1>2, PTL DEF SpeedSpec, Spec

\* A task that SYS_RINT told 0 keeps the vector for ever, and the kernel keeps its
\* own, whoever asks and in whatever order, with port calls in between
\* (int_soft_speed, ini_tss).
THEOREM OwnersKept == SpeedSpec => []ToldOwners
<1>1. IntInv => ToldOwners
  BY DEF IntInv
<1> QED
  BY <1>1, Composed, IntInvariant, PTL

\* No registration masks the clock (int_up, task_control).
THEOREM ClockNeverMasked == SpeedSpec => []ClockStaysOn
<1>1. IntInv => ClockStaysOn
  BY DEF IntInv
<1> QED
  BY <1>1, Composed, IntInvariant, PTL

\* If the keyboard's vector can be registered, a key is lost only before it is.
THEOREM KeysLostOnlyEarly ==
    ASSUME Keyboard \in Vectors
    PROVE  SpeedSpec => []LostOnlyEarly
<1>1. IntInv => LostOnlyEarly
  <2> SUFFICES ASSUME IntInv, handling = "lost", NEW t \in Users, eax[t][Keyboard] = 0
               PROVE  FALSE
    BY DEF LostOnlyEarly
  <2>1. r_int[Keyboard].tarea = t
    BY DEF IntInv, ToldOwners
  <2>2. r_int[Keyboard].tarea = 0
    BY DEF IntInv, LostUnowned, Nobody
  <2> QED
    BY <2>1, <2>2, InterruptAssumption
<1> QED
  BY <1>1, Composed, IntInvariant, PTL

\* With functions that keep edx, int_hard_17 runs the owner's function in the
\* owner's address space and goes back to the one it interrupted.
THEOREM HandlerInItsSpace ==
    ASSUME KeepsEdx
    PROVE  SpeedSpec => []OwnSpace
<1> USE InterruptAssumption DEF Nobody, Keyboard
<1>1. Init => OwnSpace
  BY DEF Init, OwnSpace
<1>2. IntInv /\ OwnSpace /\ [Next]_vars => OwnSpace'
  <2> SUFFICES ASSUME IntInv, OwnSpace, [Next]_vars PROVE OwnSpace'
    OBVIOUS
  <2>1. CASE set_8259 \/ ini_tss
    BY <2>1 DEF set_8259, ini_tss, OwnSpace
  <2>2. CASE task_control
    BY <2>2 DEF task_control, OwnSpace, IntInv, BootIsQuiet
  <2>3. ASSUME NEW t \in Users, Clock(t) PROVE OwnSpace'
    BY <2>3 DEF Clock, Running, OwnSpace
  <2>4. ASSUME NEW v \in Vectors, sys_rint(v) PROVE OwnSpace'
    BY <2>4 DEF sys_rint, Running, OwnSpace
  <2>5. CASE Enter
    BY <2>5 DEF Enter, Running, OwnSpace, IntInv, KeyboardEntry
  <2>6. CASE Leave
    BY <2>6 DEF Leave, OwnSpace
  <2>7. CASE UNCHANGED vars
    BY <2>7 DEF vars, OwnSpace
  <2> QED
    BY <2>1, <2>2, <2>3, <2>4, <2>5, <2>6, <2>7 DEF Next
<1> QED
  BY <1>1, <1>2, Composed, IntInvariant, PTL DEF Spec

-----------------------------------------------------------------------------
(* The bits of the port maps                                               *)

\* Powers of two, as Ports defines them.
LEMMA Powers ==
    /\ P!Pow2 \in [Nat -> Nat \ {0}]
    /\ P!Pow2[0] = 1
    /\ \A n \in Nat : P!Pow2[n + 1] = 2 * P!Pow2[n]
BY Doubling, Zenon DEF P!Pow2

\* Adding p where the quotient by p is even does not reach the next multiple of
\* an even multiple of p: the bits above see no carry.
LEMMA AddLow ==
    ASSUME NEW c \in Nat, NEW p \in Nat \ {0}, NEW m \in Nat \ {0}, (c \div p) % 2 = 0
    PROVE  (c + p) \div (p * (2 * m)) = c \div (p * (2 * m))
<1>1. PICK q \in Nat \ {0} : q = p * (2 * m)
  OBVIOUS
<1>2. PICK k \in Int, r \in 0 .. q - 1 : c = (q * k) + r /\ k = c \div q
  BY Divided
<1>3. PICK j \in Int, s \in 0 .. p - 1 : c = (p * j) + s /\ j = c \div p
  BY Divided
<1>4. PICK i \in Int : j = 2 * i
  <2>1. j = (2 * (j \div 2)) + (j % 2) /\ j \div 2 \in Int
    OBVIOUS
  <2> QED BY <1>3, <2>1
<1>5. PICK d \in Int : d = i - m * k
  OBVIOUS
<1>6. r = (p * (2 * d)) + s
  <2>1. q * k = p * (2 * (m * k))
    BY <1>1
  <2>2. c = (p * (2 * i)) + s
    BY <1>3, <1>4
  <2>3. p * (2 * d) = (p * (2 * i)) - (p * (2 * (m * k)))
    BY <1>5
  <2> QED BY <1>2, <2>1, <2>2, <2>3
<1>7. d + 1 <= m
  <2>1. ~(p * (2 * m) <= p * (2 * d))
    BY <1>1, <1>6
  <2>2. ~(2 * m <= 2 * d)
    BY <2>1, Scaled
  <2> QED BY <2>2
<1>8. r + p \in 0 .. q - 1
  <2>1. p * (2 * (d + 1)) <= p * (2 * m)
    <3>1. 2 * (d + 1) <= 2 * m
      BY <1>7
    <3> QED BY <3>1, Scaled
  <2>2. p * (2 * (d + 1)) = (p * (2 * d)) + (p + p)
    OBVIOUS
  <2> QED BY <1>1, <1>6, <2>1, <2>2
<1>9. PICK x \in Int : x = c + p
  OBVIOUS
<1>10. x = (q * k) + (r + p)
  <2>1. PICK y \in Int : y = q * k
    OBVIOUS
  <2>2. c = y + r
    BY <1>2, <2>1
  <2>3. x = y + (r + p)
    BY <1>9, <2>2
  <2> QED BY <2>1, <2>3
<1>11. x \div q = k
  BY <1>8, <1>10, DivUnique
<1> QED BY <1>1, <1>2, <1>9, <1>11

\* Adding an even multiple of q does not change the parity of the quotient by q:
\* the bits below do not notice.
LEMMA AddHigh ==
    ASSUME NEW c \in Nat, NEW q \in Nat \ {0}, NEW m \in Int
    PROVE  ((c + q * (2 * m)) \div q) % 2 = (c \div q) % 2
<1>1. PICK k \in Int, r \in 0 .. q - 1 : c = (q * k) + r /\ k = c \div q
  BY Divided
<1>2. PICK x \in Int : x = c + q * (2 * m)
  OBVIOUS
<1>3. x = (q * (k + 2 * m)) + r
  <2>1. q * (k + 2 * m) = (q * k) + (q * (2 * m))
    OBVIOUS
  <2>2. x = (q * k) + r + (q * (2 * m))
    BY <1>1, <1>2
  <2>3. PICK y \in Int : y = q * k
    OBVIOUS
  <2>4. PICK z \in Int : z = q * (2 * m)
    OBVIOUS
  <2> QED BY <2>1, <2>2, <2>3, <2>4
<1>4. x \div q = k + 2 * m
  BY <1>3, DivUnique
<1>5. (k + 2 * m) % 2 = k % 2
  OBVIOUS
<1> QED BY <1>1, <1>2, <1>4, <1>5

\* A higher power of two is an even multiple of a lower one.
LEMMA HigherPower ==
    ASSUME NEW b \in Nat, NEW d \in Nat, b < d
    PROVE  \E m \in Nat \ {0} : P!Pow2[d] = P!Pow2[b] * (2 * m)
<1> DEFINE T == {e \in Nat : P!Pow2[b + e + 1] = P!Pow2[b] * (2 * P!Pow2[e])}
<1>1. 0 \in T
  <2>1. b + 0 + 1 = b + 1 /\ P!Pow2[b + 1] = 2 * P!Pow2[b] /\ P!Pow2[0] = 1 /\ P!Pow2[b] \in Nat
    BY Powers
  <2>2. P!Pow2[b + 0 + 1] = P!Pow2[b] * (2 * P!Pow2[0])
    BY <2>1
  <2> QED BY <2>2
<1>2. ASSUME NEW e \in Nat, e \in T PROVE e + 1 \in T
  <2>1. PICK x \in Nat, y \in Nat, z \in Nat : x = P!Pow2[b] /\ y = P!Pow2[e] /\ z = P!Pow2[b + e + 1]
    <3>1. b + e + 1 \in Nat
      OBVIOUS
    <3> QED BY <3>1, Powers
  <2>2. z = x * (2 * y)
    BY <1>2, <2>1
  <2>3. P!Pow2[b + (e + 1) + 1] = 2 * z
    <3>1. b + e + 1 \in Nat /\ (b + e + 1) + 1 = b + (e + 1) + 1
      OBVIOUS
    <3> QED BY <2>1, <3>1, Powers
  <2>4. P!Pow2[e + 1] = 2 * y
    BY <2>1, Powers
  <2>5. 2 * z = x * (2 * (2 * y))
    BY <2>2
  <2> QED BY <2>1, <2>3, <2>4, <2>5
<1> HIDE DEF T
<1>3. d - b - 1 \in T
  <2>1. d - b - 1 \in Nat
    OBVIOUS
  <2> QED BY <1>1, <1>2, <2>1, Inductive
<1>4. b + (d - b - 1) + 1 = d /\ d - b - 1 \in Nat
  OBVIOUS
<1>5. P!Pow2[d] = P!Pow2[b] * (2 * P!Pow2[d - b - 1])
  BY <1>3, <1>4 DEF T
<1> QED BY <1>4, <1>5, Powers

\* Setting a bit that is 0 makes it 1 and leaves the others, above and below.
LEMMA FlipUp ==
    ASSUME NEW c \in Nat, NEW b \in Nat, P!Bit(c, b) = 0
    PROVE  /\ P!Bit(c + P!Pow2[b], b) = 1
           /\ \A d \in Nat : d # b => P!Bit(c + P!Pow2[b], d) = P!Bit(c, d)
<1>1. PICK p \in Nat \ {0} : p = P!Pow2[b]
  BY Powers
<1>2. P!Bit(c + p, b) = 1
  <2>0. PICK k \in Int, r \in 0 .. p - 1 : Quotient(c, p, k, r)
    BY Euclid
  <2>1. c = (p * k) + r /\ k = c \div p
    BY <2>0 DEF Quotient
  <2>2. k % 2 = 0
    BY <1>1, <2>1 DEF P!Bit
  <2>3. PICK x \in Int : x = c + p
    OBVIOUS
  <2>4. PICK l \in Int : l = k + 1
    OBVIOUS
  <2>5. x = (p * l) + r
    <3>1. p * l = (p * k) + p
      BY <2>4
    <3>2. PICK y \in Int : y = p * k
      OBVIOUS
    <3>3. c = y + r
      BY <2>1, <3>2
    <3>4. p * l = y + p
      BY <3>1, <3>2
    <3>5. PICK z \in Int : z = p * l
      OBVIOUS
    <3> QED BY <2>3, <3>3, <3>4, <3>5
  <2>7. x \div p = l
    BY <2>5, DivUnique
  <2>6. (k + 1) % 2 = 1
    BY <2>2
  <2> QED BY <1>1, <2>3, <2>4, <2>6, <2>7 DEF P!Bit
<1>3. ASSUME NEW d \in Nat, d # b PROVE P!Bit(c + p, d) = P!Bit(c, d)
  <2>1. CASE b < d
    <3>1. PICK m \in Nat \ {0} : P!Pow2[d] = p * (2 * m)
      <4>1. PICK m \in Nat \ {0} : P!Pow2[d] = P!Pow2[b] * (2 * m)
        BY <2>1, HigherPower
      <4> QED BY <1>1, <4>1
    <3>2. (c \div p) % 2 = 0
      BY <1>1 DEF P!Bit
    <3>3. (c + p) \div (p * (2 * m)) = c \div (p * (2 * m))
      BY <3>2, AddLow
    <3> QED BY <3>1, <3>3 DEF P!Bit
  <2>2. CASE d < b
    <3>1. PICK q \in Nat \ {0} : q = P!Pow2[d]
      BY Powers
    <3>2. PICK m \in Nat \ {0} : p = q * (2 * m)
      BY <1>1, <2>2, <3>1, HigherPower, SMTT(30)
    <3>3. ((c + q * (2 * m)) \div q) % 2 = (c \div q) % 2
      <4>1. m \in Int
        OBVIOUS
      <4> QED BY <4>1, AddHigh
    <3> QED BY <3>1, <3>2, <3>3 DEF P!Bit
  <2> QED BY <1>3, <2>1, <2>2
<1> QED BY <1>1, <1>2, <1>3

\* A bit is 0 or 1.
LEMMA BitRange == \A c \in Nat, b \in Nat : P!Bit(c, b) \in {0, 1}
<1> SUFFICES ASSUME NEW c \in Nat, NEW b \in Nat PROVE P!Bit(c, b) \in {0, 1}
  OBVIOUS
<1>1. PICK p \in Nat \ {0} : p = P!Pow2[b]
  BY Powers
<1>2. PICK k \in Int : k = c \div p
  BY Divided
<1> QED BY <1>1, <1>2 DEF P!Bit

\* What Set and Clear do to the bits of a char.
LEMMA SetBit ==
    ASSUME NEW c \in Nat, NEW b \in Nat
    PROVE  /\ P!Set(c, b) \in Nat /\ P!Bit(P!Set(c, b), b) = 1
           /\ \A d \in Nat : d # b => P!Bit(P!Set(c, b), d) = P!Bit(c, d)
<1>1. CASE P!Bit(c, b) = 0
  <2>1. P!Set(c, b) = c + P!Pow2[b] /\ c + P!Pow2[b] \in Nat
    BY <1>1, Powers DEF P!Set
  <2> QED BY <1>1, <2>1, FlipUp
<1>2. CASE P!Bit(c, b) # 0
  BY <1>2, BitRange DEF P!Set
<1> QED BY <1>1, <1>2

\* The same of a bit that is cleared.
LEMMA ClearBit ==
    ASSUME NEW c \in Nat, NEW b \in Nat
    PROVE  /\ P!Clear(c, b) \in Nat /\ P!Bit(P!Clear(c, b), b) = 0
           /\ \A d \in Nat : d # b => P!Bit(P!Clear(c, b), d) = P!Bit(c, d)
<1>1. CASE P!Bit(c, b) = 1
  <2>1. PICK p \in Nat \ {0} : p = P!Pow2[b]
    BY Powers
  <2>2. PICK k \in Int, r \in 0 .. p - 1 : c = (p * k) + r /\ k = c \div p
    BY Divided
  <2>3. k % 2 = 1
    BY <1>1, <2>1, <2>2 DEF P!Bit
  <2>4. k >= 1
    <3>1. k >= 0
      <4>1. ASSUME k <= -1 PROVE FALSE
        <5>1. p * k <= p * (-1)
          BY <4>1, Scaled
        <5> QED BY <2>2, <5>1
      <4> QED BY <4>1
    <3> QED BY <2>3, <3>1
  <2>5. PICK e \in Int : e = c - p
    OBVIOUS
  <2>6. e = (p * (k - 1)) + r
    <3>1. p * (k - 1) = (p * k) - p
      OBVIOUS
    <3>2. PICK y \in Int : y = p * k
      OBVIOUS
    <3> QED BY <2>2, <2>5, <3>1, <3>2
  <2>7. e \in Nat
    <3>1. p * 0 <= p * (k - 1)
      BY <2>4, Scaled
    <3> QED BY <2>6, <3>1
  <2>8. P!Bit(e, b) = 0
    <3>1. e \div p = k - 1
      BY <2>6, DivUnique
    <3>2. (k - 1) % 2 = 0
      BY <2>3
    <3> QED BY <2>1, <3>1, <3>2 DEF P!Bit
  <2>9. P!Clear(c, b) = e /\ e + P!Pow2[b] = c
    BY <1>1, <2>1, <2>5 DEF P!Clear
  <2>10. \A d \in Nat : d # b => P!Bit(c, d) = P!Bit(e, d)
    BY <2>7, <2>8, <2>9, FlipUp
  <2> QED BY <2>7, <2>8, <2>9, <2>10
<1>2. CASE P!Bit(c, b) # 1
  BY <1>2, BitRange DEF P!Clear
<1> QED BY <1>1, <1>2

\* A map of ports: the values of its chars.
Map == [0 .. TSS_PORT - 1 -> Nat]

\* Two ports differ in their char or in their bit.
LEMMA PortPlace ==
    /\ \A p \in P!PortNumbers : p \div BITS \in 0 .. TSS_PORT - 1 /\ p % BITS \in Nat
    /\ \A p, q \in P!PortNumbers : p \div BITS = q \div BITS /\ p % BITS = q % BITS => p = q
<1> USE PortAssumption
<1>1. \A p \in P!PortNumbers : p \in Nat /\ p < BITS * TSS_PORT
  <2>1. TSS_PORT * BITS = BITS * TSS_PORT /\ BITS * TSS_PORT \in Nat
    OBVIOUS
  <2> QED BY <2>1 DEF P!PortNumbers
<1>2. ASSUME NEW p \in P!PortNumbers PROVE p \div BITS \in 0 .. TSS_PORT - 1 /\ p % BITS \in Nat
  <2>0. PICK k \in Int, r \in 0 .. BITS - 1 : Quotient(p, BITS, k, r)
    BY <1>1, Euclid
  <2>1. p = (BITS * k) + r /\ k = p \div BITS /\ r = p % BITS
    BY <2>0 DEF Quotient
  <2>2. k < TSS_PORT
    <3>1. ~(BITS * TSS_PORT <= BITS * k)
      BY <1>1, <2>1
    <3> QED BY <3>1, Scaled
  <2>3. 0 <= k
    <3>1. ASSUME k <= -1 PROVE FALSE
      <4>1. BITS * k <= BITS * (-1)
        BY <3>1, Scaled
      <4> QED BY <1>1, <2>1, <4>1
    <3> QED BY <3>1
  <2> QED BY <2>1, <2>2, <2>3
<1>3. ASSUME NEW p \in P!PortNumbers, NEW q \in P!PortNumbers, p \div BITS = q \div BITS, p % BITS = q % BITS
      PROVE  p = q
  <2>1. PICK k \in Int, r \in 0 .. BITS - 1 : Quotient(p, BITS, k, r)
    BY <1>1, Euclid
  <2>2. PICK l \in Int, s \in 0 .. BITS - 1 : Quotient(q, BITS, l, s)
    BY <1>1, Euclid
  <2>3. p = (BITS * k) + r /\ q = (BITS * l) + s /\ k = l /\ r = s
    BY <1>3, <2>1, <2>2 DEF Quotient
  <2> QED BY <2>3
<1> QED BY <1>2, <1>3

\* Clearing the bit of a port allows this port and changes no other; setting it
\* refuses this port and changes no other.
LEMMA Allows ==
    ASSUME NEW map \in Map, NEW p \in P!PortNumbers
    PROVE  /\ [map EXCEPT ![p \div BITS] = P!Clear(@, p % BITS)] \in Map
           /\ P!Allowed([map EXCEPT ![p \div BITS] = P!Clear(@, p % BITS)]) = P!Allowed(map) \cup {p}
           /\ [map EXCEPT ![p \div BITS] = P!Set(@, p % BITS)] \in Map
           /\ P!Allowed([map EXCEPT ![p \div BITS] = P!Set(@, p % BITS)]) = P!Allowed(map) \ {p}
<1>1. PICK i \in 0 .. TSS_PORT - 1, b \in Nat : i = p \div BITS /\ b = p % BITS
  BY PortPlace
<1>2. map[i] \in Nat
  BY DEF Map
<1>3. ASSUME NEW c \in Nat, NEW e \in Nat, c = map[i],
             \A d \in Nat : d # b => P!Bit(e, d) = P!Bit(c, d)
      PROVE  /\ [map EXCEPT ![i] = e] \in Map
             /\ \A q \in P!PortNumbers : q # p =>
                    (q \in P!Allowed([map EXCEPT ![i] = e]) <=> q \in P!Allowed(map))
             /\ p \in P!Allowed([map EXCEPT ![i] = e]) <=> P!Bit(e, b) = 0
  <2> DEFINE new == [map EXCEPT ![i] = e]
  <2>1. new \in Map /\ new[i] = e /\ \A j \in 0 .. TSS_PORT - 1 : j # i => new[j] = map[j]
    BY DEF Map
  <2> HIDE DEF new
  <2>2. ASSUME NEW q \in P!PortNumbers, q # p
        PROVE  P!Bit(new[q \div BITS], q % BITS) = P!Bit(map[q \div BITS], q % BITS)
    <3>1. q \div BITS \in 0 .. TSS_PORT - 1 /\ q % BITS \in Nat
      BY PortPlace
    <3>2. CASE q \div BITS # i
      BY <2>1, <3>1, <3>2
    <3>3. CASE q \div BITS = i
      <4>1. q % BITS # b
        BY <1>1, <2>2, <3>3, PortPlace
      <4> QED BY <1>3, <2>1, <3>1, <3>3, <4>1
    <3> QED BY <3>2, <3>3
  <2>3. p \in P!Allowed(new) <=> P!Bit(e, b) = 0
    BY <1>1, <2>1 DEF P!Allowed
  <2>4. \A q \in P!PortNumbers : q # p => (q \in P!Allowed(new) <=> q \in P!Allowed(map))
    BY <2>2 DEF P!Allowed
  <2> QED BY <2>1, <2>3, <2>4 DEF new
<1>4. P!Allowed(map) \subseteq P!PortNumbers /\ \A m : P!Allowed(m) \subseteq P!PortNumbers
  BY DEF P!Allowed
<1>5. PICK c \in Nat : c = map[i]
  BY <1>2
<1>6. /\ [map EXCEPT ![i] = P!Clear(c, b)] \in Map
      /\ P!Allowed([map EXCEPT ![i] = P!Clear(c, b)]) = P!Allowed(map) \cup {p}
  <2>1. PICK e \in Nat : e = P!Clear(c, b)
    BY ClearBit
  <2>2. P!Bit(e, b) = 0 /\ \A d \in Nat : d # b => P!Bit(e, d) = P!Bit(c, d)
    BY <2>1, ClearBit
  <2>3. /\ [map EXCEPT ![i] = e] \in Map
        /\ \A q \in P!PortNumbers : q # p =>
               (q \in P!Allowed([map EXCEPT ![i] = e]) <=> q \in P!Allowed(map))
        /\ p \in P!Allowed([map EXCEPT ![i] = e])
    BY <1>3, <1>5, <2>2
  <2> QED BY <1>4, <2>1, <2>3
<1>7. /\ [map EXCEPT ![i] = P!Set(c, b)] \in Map
      /\ P!Allowed([map EXCEPT ![i] = P!Set(c, b)]) = P!Allowed(map) \ {p}
  <2>1. PICK e \in Nat : e = P!Set(c, b)
    BY SetBit
  <2>2. P!Bit(e, b) = 1 /\ \A d \in Nat : d # b => P!Bit(e, d) = P!Bit(c, d)
    BY <2>1, SetBit
  <2>3. /\ [map EXCEPT ![i] = e] \in Map
        /\ \A q \in P!PortNumbers : q # p =>
               (q \in P!Allowed([map EXCEPT ![i] = e]) <=> q \in P!Allowed(map))
        /\ p \notin P!Allowed([map EXCEPT ![i] = e])
    <3>1. P!Bit(e, b) # 0
      BY <2>2
    <3> QED BY <1>3, <1>5, <2>2, <3>1, Zenon
  <2> QED BY <1>4, <2>1, <2>3
<1> QED BY <1>1, <1>5, <1>6, <1>7

\* The maps of clear_tss refuse every port: their chars have all bits set.
LEMMA AllRefused == P!clear_tss \in Map /\ P!Allowed(P!clear_tss) = {}
<1> USE PortAssumption
<1>1. PICK w \in Nat \ {0} : w = P!Pow2[BITS]
  BY Powers
<1>2. P!clear_tss \in Map /\ \A i \in 0 .. TSS_PORT - 1 : P!clear_tss[i] = w - 1
  BY <1>1 DEF P!clear_tss, Map
<1>3. ASSUME NEW b \in 0 .. BITS - 1 PROVE P!Bit(w - 1, b) = 1
  <2>1. PICK p \in Nat \ {0} : p = P!Pow2[b]
    BY Powers
  <2>2. PICK m \in Nat \ {0} : w = p * (2 * m)
    BY <1>1, <2>1, HigherPower
  <2>3. PICK k \in Int : k = 2 * m - 1
    OBVIOUS
  <2>4. w - 1 = (p * k) + (p - 1)
    <3>1. p * k = (p * (2 * m)) - p
      BY <2>3
    <3>2. PICK y \in Int : y = p * (2 * m)
      OBVIOUS
    <3> QED BY <2>2, <3>1, <3>2
  <2>5. PICK x \in Int : x = w - 1
    OBVIOUS
  <2>6. x \div p = k
    BY <2>4, <2>5, DivUnique
  <2>7. k % 2 = 1
    BY <2>3
  <2> QED BY <2>1, <2>5, <2>6, <2>7 DEF P!Bit
<1>4. ASSUME NEW p \in P!PortNumbers PROVE p \notin P!Allowed(P!clear_tss)
  <2>1. p \div BITS \in 0 .. TSS_PORT - 1 /\ p % BITS \in 0 .. BITS - 1
    <3>1. p \in Int
      BY DEF P!PortNumbers
    <3> QED BY <3>1, PortPlace, Divided
  <2>2. P!Bit(P!clear_tss[p \div BITS], p % BITS) = 1
    BY <1>2, <1>3, <2>1
  <2> QED BY <2>2 DEF P!Allowed
<1> QED BY <1>2, <1>4 DEF P!Allowed

-----------------------------------------------------------------------------
(* The ports                                                               *)

\* Both maps are arrays of TSS_PORT chars.
Maps == r_port \in Map /\ iobp \in [Users -> Map]

\* What a port that is selected changes: the task's map, the kernel's and
\* nothing else.
LEMMA SetPort ==
    ASSUME Maps, NEW t \in Users, NEW p \in P!PortNumbers,
           P!set_port(t, p), ~(UNCHANGED <<r_port, iobp>>)
    PROVE  /\ Maps' /\ \A s \in Users \ {t} : iobp'[s] = iobp[s]
           /\ P!Allowed(r_port') = P!Allowed(r_port) \cup {p}
           /\ P!Allowed(iobp'[t]) = P!Allowed(iobp[t]) \cup {p}
<1>1. PICK m \in Map : m = iobp[t]
  BY DEF Maps
<1>2. /\ r_port' = [r_port EXCEPT ![p \div BITS] = P!Clear(@, p % BITS)]
      /\ iobp' = [iobp EXCEPT ![t] = [m EXCEPT ![p \div BITS] = P!Clear(@, p % BITS)]]
  BY <1>1 DEF P!set_port
<1>3. /\ r_port' \in Map
      /\ P!Allowed(r_port') = P!Allowed(r_port) \cup {p}
  BY <1>2, Allows DEF Maps
<1>4. PICK n \in Map : /\ n = [m EXCEPT ![p \div BITS] = P!Clear(@, p % BITS)]
                       /\ P!Allowed(n) = P!Allowed(m) \cup {p}
  BY Allows
<1>5. iobp' = [iobp EXCEPT ![t] = n]
  BY <1>2, <1>4
<1> QED BY <1>1, <1>3, <1>4, <1>5 DEF Maps

\* The same of a port that is given back.
LEMMA UnsetPort ==
    ASSUME Maps, NEW t \in Users, NEW p \in P!PortNumbers, P!unset_port(t, p)
    PROVE  /\ Maps' /\ \A s \in Users \ {t} : iobp'[s] = iobp[s]
           /\ P!Allowed(r_port') = P!Allowed(r_port) \ {p}
           /\ P!Allowed(iobp'[t]) = P!Allowed(iobp[t]) \ {p}
<1>1. PICK m \in Map : m = iobp[t]
  BY DEF Maps
<1>2. /\ r_port' = [r_port EXCEPT ![p \div BITS] = P!Set(@, p % BITS)]
      /\ iobp' = [iobp EXCEPT ![t] = [m EXCEPT ![p \div BITS] = P!Set(@, p % BITS)]]
  BY <1>1 DEF P!unset_port
<1>3. /\ r_port' \in Map
      /\ P!Allowed(r_port') = P!Allowed(r_port) \ {p}
  BY <1>2, Allows DEF Maps
<1>4. PICK n \in Map : /\ n = [m EXCEPT ![p \div BITS] = P!Set(@, p % BITS)]
                       /\ P!Allowed(n) = P!Allowed(m) \ {p}
  BY Allows
<1>5. iobp' = [iobp EXCEPT ![t] = n]
  BY <1>2, <1>4
<1> QED BY <1>1, <1>3, <1>4, <1>5 DEF Maps

\* A call that selects a port the task has already, or gives back one it has
\* not, leaves the task's map as it was.
LEMMA NothingToDo ==
    ASSUME NEW map \in Map, NEW p \in P!PortNumbers
    PROVE  /\ p \in P!Allowed(map) => [map EXCEPT ![p \div BITS] = P!Clear(@, p % BITS)] = map
           /\ p \notin P!Allowed(map) => [map EXCEPT ![p \div BITS] = P!Set(@, p % BITS)] = map
<1>1. PICK c \in Nat, b \in Nat : c = map[p \div BITS] /\ b = p % BITS
  BY PortPlace DEF Map
<1>2. p \in P!Allowed(map) <=> P!Bit(c, b) = 0
  BY <1>1 DEF P!Allowed
<1>3. p \in P!Allowed(map) => P!Clear(c, b) = c
  BY <1>2 DEF P!Clear
<1>4. p \notin P!Allowed(map) => P!Set(c, b) = c
  BY <1>2 DEF P!Set
<1>5. [map EXCEPT ![p \div BITS] = c] = map
  BY <1>1 DEF Map
<1> QED BY <1>1, <1>3, <1>4, <1>5

\* The maps are arrays of TSS_PORT chars in every reachable state.
LEMMA MapsInit == P!Init => Maps
BY AllRefused DEF P!Init, P!clear_tss, Maps

\* Every step keeps them so.
LEMMA MapsStep == Maps /\ task \in Users /\ [SpeedNext]_speedVars => Maps'
<1> SUFFICES ASSUME Maps, task \in Users, [SpeedNext]_speedVars PROVE Maps'
  OBVIOUS
<1>1. CASE UNCHANGED ports
  BY <1>1 DEF ports, Maps
<1>2. ASSUME NEW p \in P!PortNumbers, int_soft_speed(p) PROVE Maps'
  <2>1. PICK t \in Users : t = task
    OBVIOUS
  <2>2. CASE P!SYS_RPORT(t, p)
    BY <2>2, SetPort DEF P!SYS_RPORT, Maps
  <2>3. CASE P!SYS_URPORT(t, p)
    BY <2>3, UnsetPort DEF P!SYS_URPORT
  <2> QED BY <1>2, <2>1, <2>2, <2>3 DEF int_soft_speed
<1> QED BY <1>1, <1>2 DEF SpeedNext, speedVars, ports

\* Both hold in every reachable state.
LEMMA MapsInvariant == SpeedSpec => [](Maps /\ task \in Users)
<1>1. SpeedInit => Maps
  BY MapsInit DEF SpeedInit
<1>2. IntInv => task \in Users
  BY DEF IntInv, TypeOK
<1> QED BY <1>1, <1>2, MapsStep, Composed, IntInvariant, PTL DEF SpeedSpec

\* SYS_RPORT opens the port it was asked for, SYS_URPORT closes it, and the
\* arithmetic of byte and bit reaches no other port, in the task's map or in the
\* kernel's, and no other task, whatever the tasks ask (set_port, unset_port).
THEOREM OpensOnePort == SpeedSpec => OpensExactly
<1>1. ASSUME Maps, NEW t \in Users, NEW p \in P!PortNumbers,
             iobp' # iobp, P!set_port(t, p) \/ P!unset_port(t, p)
      PROVE  /\ \A s \in Users \ {t} : iobp'[s] = iobp[s]
             /\ P!Allowed(iobp'[t]) =
                    IF p \in P!Allowed(iobp[t]) THEN P!Allowed(iobp[t]) \ {p} ELSE P!Allowed(iobp[t]) \cup {p}
             /\ P!Allowed(r_port') \ {p} = P!Allowed(r_port) \ {p}
  <2>0. PICK m \in Map : m = iobp[t]
    BY <1>1 DEF Maps
  <2>1. CASE P!set_port(t, p)
    <3>1. p \notin P!Allowed(m)
      <4> SUFFICES ASSUME p \in P!Allowed(m) PROVE FALSE
        OBVIOUS
      <4>1. iobp' = [iobp EXCEPT ![t] = [m EXCEPT ![p \div BITS] = P!Clear(@, p % BITS)]]
        BY <1>1, <2>0, <2>1 DEF P!set_port
      <4>2. [m EXCEPT ![p \div BITS] = P!Clear(@, p % BITS)] = m
        BY NothingToDo
      <4>3. iobp' = [iobp EXCEPT ![t] = m]
        BY <4>1, <4>2
      <4> QED BY <1>1, <2>0, <4>3 DEF Maps
    <3>2. /\ \A s \in Users \ {t} : iobp'[s] = iobp[s]
          /\ P!Allowed(r_port') = P!Allowed(r_port) \cup {p}
          /\ P!Allowed(iobp'[t]) = P!Allowed(iobp[t]) \cup {p}
      BY <1>1, <2>1, SetPort
    <3> QED BY <2>0, <3>1, <3>2
  <2>2. CASE P!unset_port(t, p)
    <3>1. p \in P!Allowed(m)
      <4> SUFFICES ASSUME p \notin P!Allowed(m) PROVE FALSE
        OBVIOUS
      <4>1. iobp' = [iobp EXCEPT ![t] = [m EXCEPT ![p \div BITS] = P!Set(@, p % BITS)]]
        BY <2>0, <2>2 DEF P!unset_port
      <4>2. [m EXCEPT ![p \div BITS] = P!Set(@, p % BITS)] = m
        BY NothingToDo
      <4>3. iobp' = [iobp EXCEPT ![t] = m]
        BY <4>1, <4>2
      <4> QED BY <1>1, <2>0, <4>3 DEF Maps
    <3>2. /\ \A s \in Users \ {t} : iobp'[s] = iobp[s]
          /\ P!Allowed(r_port') = P!Allowed(r_port) \ {p}
          /\ P!Allowed(iobp'[t]) = P!Allowed(iobp[t]) \ {p}
      BY <1>1, <2>2, UnsetPort
    <3> QED BY <2>0, <3>1, <3>2
  <2> QED BY <1>1, <2>1, <2>2
<1> DEFINE Exactly ==
      \A t \in Users, p \in P!PortNumbers :
         iobp' # iobp /\ (P!set_port(t, p) \/ P!unset_port(t, p)) =>
             /\ \A s \in Users \ {t} : iobp'[s] = iobp[s]
             /\ P!Allowed(iobp'[t]) =
                    IF p \in P!Allowed(iobp[t]) THEN P!Allowed(iobp[t]) \ {p} ELSE P!Allowed(iobp[t]) \cup {p}
             /\ P!Allowed(r_port') \ {p} = P!Allowed(r_port) \ {p}
<1>2. Maps => Exactly
  BY <1>1
<1> HIDE DEF Exactly
<1>3. SpeedSpec => [][Exactly]_P!vars
  BY <1>2, MapsInvariant, PTL
<1> QED BY <1>3 DEF Exactly, OpensExactly, P!OpensExactly

\* What the agreement of the maps needs to survive a call that gives a port
\* back: no other task has the port, so that nobody keeps it open.
PortInv == P!MapsAgree /\ P!OnePortOneTask

\* At first nobody has a port.
LEMMA PortInit == P!Init => PortInv
<1> SUFFICES ASSUME P!Init PROVE PortInv
  OBVIOUS
<1>1. P!Allowed(r_port) = {} /\ \A t \in Users : P!Allowed(iobp[t]) = {}
  BY AllRefused DEF P!Init, P!clear_tss
<1> QED BY <1>1 DEF PortInv, P!MapsAgree, P!OnePortOneTask

\* Every step of Polite tasks keeps PortInv.
LEMMA PortStep ==
    ASSUME Polite
    PROVE  Maps /\ task \in Users /\ PortInv /\ [SpeedNext]_speedVars => PortInv'
<1> SUFFICES ASSUME Maps, task \in Users, PortInv, [SpeedNext]_speedVars PROVE PortInv'
  OBVIOUS
<1>1. CASE UNCHANGED ports
  BY <1>1 DEF ports, PortInv, P!MapsAgree, P!OnePortOneTask
<1>2. ASSUME NEW p \in P!PortNumbers, int_soft_speed(p) PROVE PortInv'
  <2>1. PICK t \in Users : t = task
    OBVIOUS
  <2>2. CASE P!SYS_RPORT(t, p) /\ ~(UNCHANGED <<r_port, iobp>>)
    <3>1. \A s \in Users : p \in P!Allowed(iobp[s]) => s = t
      BY <2>2 DEF P!SYS_RPORT, P!Held
    <3>2. /\ \A s \in Users \ {t} : iobp'[s] = iobp[s]
          /\ P!Allowed(r_port') = P!Allowed(r_port) \cup {p}
          /\ P!Allowed(iobp'[t]) = P!Allowed(iobp[t]) \cup {p}
      BY <2>2, SetPort DEF P!SYS_RPORT
    <3>3. P!MapsAgree'
      BY <3>2 DEF PortInv, P!MapsAgree
    <3>4. P!OnePortOneTask'
      BY <3>1, <3>2 DEF PortInv, P!OnePortOneTask
    <3> QED BY <3>3, <3>4 DEF PortInv
  <2>3. CASE P!SYS_URPORT(t, p)
    <3>1. p \in P!Allowed(iobp[t])
      BY <2>3 DEF P!SYS_URPORT, P!Held
    <3>2. /\ \A s \in Users \ {t} : iobp'[s] = iobp[s]
          /\ P!Allowed(r_port') = P!Allowed(r_port) \ {p}
          /\ P!Allowed(iobp'[t]) = P!Allowed(iobp[t]) \ {p}
      BY <2>3, UnsetPort DEF P!SYS_URPORT
    <3>3. \A s \in Users \ {t} : p \notin P!Allowed(iobp[s])
      BY <3>1 DEF PortInv, P!OnePortOneTask
    <3>4. P!MapsAgree'
      BY <3>2, <3>3 DEF PortInv, P!MapsAgree
    <3>5. P!OnePortOneTask'
      BY <3>2 DEF PortInv, P!OnePortOneTask
    <3> QED BY <3>4, <3>5 DEF PortInv
  <2>4. CASE UNCHANGED <<r_port, iobp>>
    BY <2>4, <1>1 DEF ports
  <2> QED BY <1>2, <2>1, <2>2, <2>3, <2>4 DEF int_soft_speed
<1> QED BY <1>1, <1>2 DEF SpeedNext, speedVars, ports

\* As long as the tasks ask only for ports that no other task has, and give back
\* only their own, the kernel's map of the free ports and the permission maps of
\* the tasks never disagree on a port, whatever the clock and the keyboard do
\* between the calls (set_port, unset_port).
THEOREM PortMapsAgree ==
    ASSUME Polite
    PROVE  SpeedSpec => []MapsAgree
<1>1. SpeedInit => PortInv
  BY PortInit DEF SpeedInit
<1>2. PortInv => MapsAgree
  BY DEF PortInv, MapsAgree
<1> QED BY <1>1, <1>2, PortStep, MapsInvariant, PTL DEF SpeedSpec
=============================================================================
