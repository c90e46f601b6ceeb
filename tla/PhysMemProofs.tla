---------------------------- MODULE PhysMemProofs ----------------------------
(***************************************************************************)
(* Proofs about PhysMem, for any machine, kernel and modules that          *)
(* MemAssumption admits: MemInv is inductive and implies what the run      *)
(* checks.                                                                 *)
(***************************************************************************)
EXTENDS PhysMem, NatLemmas, TLAPS

\* The sizes are positive numbers.
LEMMA Sizes ==
    /\ PAG_LEN \in Nat \ {0} /\ PAG_LEN >= 4 /\ SEC_MEM \in Nat \ {0} /\ Slack \in Nat \ {0}
    /\ Megabyte \in Nat \ {0} /\ KernelIni \in Nat \ {0} /\ KernelFin \in Nat \ {0}
    /\ TAB_PAG_LEN \in Nat \ {0} /\ CAN_TAB_PAG \in Nat \ {0}
    /\ V_USER \in Nat \ {0} /\ V_STACK \in Nat \ {0}
    /\ MAX_PAG_DRIVER \in Nat \ {0} /\ MaxModules \in Nat \ {0}
    /\ KernelIni <= KernelFin /\ Megabyte <= KernelIni /\ Slack <= KernelFin
    /\ KernelFin < V_USER /\ V_USER + MAX_PAG_DRIVER <= V_STACK /\ V_STACK < TAB_PAG_LEN
    /\ V_STACK <= KernelFin + 2 + CAN_TAB_PAG
BY MemAssumption

-----------------------------------------------------------------------------
(* Bytes and frames                                                        *)

\* The frame of an address, and of the one r bytes behind it.
LEMMA FrameOfAddress ==
    ASSUME NEW k \in Int, NEW r \in 0 .. PAG_LEN - 1
    PROVE  addr2pag(k * PAG_LEN + r) = k
<1>1. PAG_LEN \in Nat \ {0}
  BY Sizes
<1>2. PICK c \in Int : c = k * PAG_LEN + r
  BY <1>1
<1>3. c = (PAG_LEN * k) + r
  BY <1>1, <1>2
<1>4. c \div PAG_LEN = k
  BY <1>1, <1>3, DivUnique
<1> QED BY <1>2, <1>4 DEF addr2pag

\* A module's length in frames, rounded up.
LEMMA FramesRound ==
    ASSUME NEW len \in Nat \ {0}
    PROVE  Frames(len) \in Nat \ {0} /\ Frames(len) \in {len \div PAG_LEN, len \div PAG_LEN + 1}
<1>1. PAG_LEN \in Nat \ {0}
  BY Sizes
<1>2. PICK k \in Int, r \in 0 .. PAG_LEN - 1 : Quotient(len, PAG_LEN, k, r)
  BY <1>1, Euclid
<1>3. len = (PAG_LEN * k) + r /\ k = len \div PAG_LEN /\ r = len % PAG_LEN
  BY <1>2 DEF Quotient
<1>4. k >= 0
  <2>1. ASSUME k <= -1 PROVE FALSE
    <3>1. PAG_LEN * k <= PAG_LEN * (-1)
      BY <1>1, <2>1, Scaled
    <3> QED BY <1>1, <1>3, <3>1
  <2> QED BY <2>1
<1>5. k = 0 => r # 0
  <2>1. k = 0 => PAG_LEN * k = 0
    BY <1>1
  <2>2. len = (PAG_LEN * k) + r
    BY <1>3
  <2> QED BY <2>1, <2>2
<1> QED BY <1>3, <1>4, <1>5 DEF Frames

\* The image of a module that starts at frame k.
LEMMA ImageIs ==
    ASSUME NEW m, NEW k \in Nat, m.start = k * PAG_LEN, m.len \in Nat \ {0}
    PROVE  Image(m) = k .. k + Frames(m.len) - 1
<1>1. PAG_LEN \in Nat \ {0}
  BY Sizes
<1>2. addr2pag(m.start) = k
  <2>1. 0 \in 0 .. PAG_LEN - 1 /\ m.start = k * PAG_LEN + 0
    BY <1>1
  <2> QED BY <2>1, FrameOfAddress
<1>3. PICK f \in Nat : f = Frames(m.len)
  BY FramesRound
<1>4. {k + i : i \in 0 .. f - 1} = k .. k + f - 1
  <2>1. ASSUME NEW p \in k .. k + f - 1 PROVE \E i \in 0 .. f - 1 : p = k + i
    <3>1. p - k \in 0 .. f - 1 /\ p = k + (p - k)
      OBVIOUS
    <3> QED BY <3>1
  <2>2. \A i \in 0 .. f - 1 : k + i \in k .. k + f - 1
    OBVIOUS
  <2> QED BY <2>1, <2>2
<1> QED BY <1>2, <1>3, <1>4 DEF Image

\* The last address a probe loop reaches.
LEMMA ClimbReaches ==
    ASSUME NEW a \in Nat, NEW salto \in Nat \ {0}, NEW size \in Nat, a <= size - 1
    PROVE  Climb(a, salto, size) \in a .. size - 1
<1>1. PICK c \in Nat : c = size - 1 - a
  <2>1. size - 1 - a \in Nat
    OBVIOUS
  <2> QED BY <2>1
<1>2. PICK k \in Int, r \in 0 .. salto - 1 : Quotient(c, salto, k, r)
  BY Euclid
<1>3. c = (salto * k) + r /\ k = c \div salto
  BY <1>2 DEF Quotient
<1>4. k >= 0
  <2>1. ASSUME k <= -1 PROVE FALSE
    <3>1. salto * k <= salto * (-1)
      BY <2>1, Scaled
    <3> QED BY <1>3, <3>1
  <2> QED BY <2>1
<1>5. PICK y \in Int : y = salto * k
  OBVIOUS
<1>6. y >= 0
  <2>1. salto * 0 <= salto * k
    BY <1>4, Scaled
  <2> QED BY <1>5, <2>1
<1>7. Climb(a, salto, size) = a + y
  BY <1>1, <1>3, <1>5 DEF Climb
<1> QED BY <1>1, <1>3, <1>5, <1>6, <1>7

\* The three loops find every whole frame of a memory that reaches beyond the
\* start of the kernel's last frame.
LEMMA TestmemExact ==
    ASSUME NEW size \in Nat, KernelFin * PAG_LEN <= size - 1
    PROVE  testmem(size) = size \div PAG_LEN
<1>1. PICK a \in Nat : a = KernelFin * PAG_LEN
  BY Sizes
<1>2. Megabyte * PAG_LEN \in Nat \ {0} /\ PAG_LEN \div 4 \in Nat \ {0}
  BY Sizes
<1>3. PICK b \in Nat : b = Climb(a, Megabyte * PAG_LEN, size) /\ b <= size - 1
  <2>1. Climb(a, Megabyte * PAG_LEN, size) \in a .. size - 1
    BY <1>1, <1>2, ClimbReaches
  <2> QED BY <2>1
<1>4. PICK c \in Nat : c = Climb(b, PAG_LEN \div 4, size) /\ c <= size - 1
  <2>1. Climb(b, PAG_LEN \div 4, size) \in b .. size - 1
    BY <1>2, <1>3, ClimbReaches
  <2> QED BY <2>1
<1>5. Climb(c, 1, size) = size - 1
  BY <1>4 DEF Climb
<1>6. testmem(size) = addr2pag(Climb(c, 1, size) + 1)
  BY <1>1, <1>3, <1>4 DEF testmem
<1>7. Climb(c, 1, size) + 1 = size
  BY <1>5
<1> QED BY <1>6, <1>7 DEF addr2pag

\* The modules follow each other behind the kernel, each on a page of its own.
LEMMA LayoutIs ==
    ASSUME NEW n \in Nat \ {0}, NEW lens \in [1 .. n -> Lengths]
    PROVE  \E first \in [1 .. n -> Nat] :
             /\ Layout(lens) = [i \in 1 .. n |-> [start |-> first[i] * PAG_LEN, len |-> lens[i]]]
             /\ first[1] = KernelFin + 1
             /\ \A i \in 1 .. n - 1 : first[i + 1] = first[i] + Frames(lens[i])
<1> DEFINE h == [x \in Nat \X Nat |-> IF x[1] + 1 \in 1 .. n THEN x[2] + Frames(lens[x[1] + 1]) ELSE x[2]]
           F(f) == f = [i \in 1 .. n |-> IF i = 1 THEN KernelFin + 1 ELSE f[i - 1] + Frames(lens[i - 1])]
<1>1. \A i \in 1 .. n : Frames(lens[i]) \in Nat
  BY FramesRound, MemAssumption
<1>2. h \in [Nat \X Nat -> Nat]
  BY <1>1
<1>3. \A k, x \in Nat : k + 1 \in 1 .. n => h[<<k, x>>] = x + Frames(lens[k + 1])
  OBVIOUS
<1> HIDE DEF h
<1>4. PICK f : Recurs(f, Nat, KernelFin + 1, h)
  <2>1. KernelFin + 1 \in Nat
    BY Sizes
  <2> QED BY <1>2, <2>1, Recursion
<1>5. F([i \in 1 .. n |-> f[i - 1]])
  <2> DEFINE g == [i \in 1 .. n |-> f[i - 1]]
  <2>1. g[1] = KernelFin + 1
    BY <1>4 DEF Recurs
  <2>2. ASSUME NEW i \in 1 .. n, i # 1 PROVE g[i] = g[i - 1] + Frames(lens[i - 1])
    <3>1. i - 2 \in Nat /\ (i - 2) + 1 = i - 1 /\ i - 1 \in 1 .. n
      BY <2>2
    <3>2. f[(i - 2) + 1] = h[<<i - 2, f[i - 2]>>] /\ f[i - 2] \in Nat
      BY <1>4, <3>1 DEF Recurs
    <3>3. f[i - 1] = f[i - 2] + Frames(lens[i - 1])
      BY <1>3, <3>1, <3>2
    <3>4. g[i] = f[i - 1] /\ g[i - 1] = f[i - 2]
      BY <3>1
    <3> QED BY <3>3, <3>4
  <2>3. \A i \in 1 .. n : g[i] = IF i = 1 THEN KernelFin + 1 ELSE g[i - 1] + Frames(lens[i - 1])
    BY <2>1, <2>2
  <2>4. g = [i \in 1 .. n |-> g[i]]
    OBVIOUS
  <2> HIDE DEF g
  <2>5. F(g)
    BY <2>3, <2>4
  <2> QED BY <2>5 DEF g
<1>6. PICK first : F(first) /\ first = CHOOSE e : F(e)
  BY <1>5
<1>7. first \in [1 .. n -> Nat] /\ first[1] = KernelFin + 1
           /\ \A i \in 1 .. n - 1 : first[i + 1] = first[i] + Frames(lens[i])
  <2>1. first[1] = KernelFin + 1 /\ \A i \in 1 .. n - 1 : first[i + 1] = first[i] + Frames(lens[i])
    <3>1. \A i \in 1 .. n : first[i] = IF i = 1 THEN KernelFin + 1 ELSE first[i - 1] + Frames(lens[i - 1])
      BY <1>6
    <3>2. first[1] = KernelFin + 1
      BY <3>1
    <3>3. ASSUME NEW i \in 1 .. n - 1 PROVE first[i + 1] = first[i] + Frames(lens[i])
      <4>1. i + 1 \in 1 .. n /\ i + 1 # 1 /\ (i + 1) - 1 = i
        OBVIOUS
      <4> QED BY <3>1, <4>1
    <3> QED BY <3>2, <3>3
  <2>2. \A i \in Nat : i + 1 \in 1 .. n => first[i + 1] \in Nat
    <3> DEFINE T == {i \in Nat : i + 1 \in 1 .. n => first[i + 1] \in Nat}
    <3>1. 0 \in T
      BY <2>1, Sizes
    <3>2. ASSUME NEW i \in Nat, i \in T PROVE i + 1 \in T
      <4> SUFFICES ASSUME i + 1 + 1 \in 1 .. n PROVE first[i + 1 + 1] \in Nat
        OBVIOUS
      <4>1. i + 1 \in 1 .. n - 1 /\ i + 1 \in 1 .. n
        OBVIOUS
      <4>2. first[i + 1] \in Nat
        BY <3>2, <4>1
      <4>3. first[i + 1 + 1] = first[i + 1] + Frames(lens[i + 1])
        BY <2>1, <4>1
      <4> QED BY <1>1, <4>1, <4>2, <4>3
    <3> HIDE DEF T
    <3>3. \A i \in Nat : i \in T
      BY <3>1, <3>2, Inductive
    <3> QED BY <3>3 DEF T
  <2>3. ASSUME NEW i \in 1 .. n PROVE first[i] \in Nat
    <3>1. i - 1 \in Nat /\ (i - 1) + 1 = i
      OBVIOUS
    <3> QED BY <2>2, <3>1
  <2>4. first = [i \in 1 .. n |-> first[i]]
    <3> DEFINE e(i) == IF i = 1 THEN KernelFin + 1 ELSE first[i - 1] + Frames(lens[i - 1])
    <3> HIDE DEF e
    <3>1. first = [i \in 1 .. n |-> e(i)]
      BY <1>6 DEF e
    <3> QED BY <3>1
  <2> QED BY <2>1, <2>3, <2>4
<1>8. Layout(lens) = [i \in 1 .. n |-> [start |-> first[i] * PAG_LEN, len |-> lens[i]]]
  <2>1. Len(lens) = n
    OBVIOUS
  <2> QED BY <1>6, <2>1, Zenon DEF Layout
<1> QED BY <1>7, <1>8

\* A later module starts behind the pages of an earlier one.
LEMMA Ascending ==
    ASSUME NEW n \in Nat \ {0}, NEW lens \in [1 .. n -> Lengths], NEW first \in [1 .. n -> Nat],
           \A i \in 1 .. n - 1 : first[i + 1] = first[i] + Frames(lens[i])
    PROVE  /\ \A i, j \in 1 .. n : i < j => first[i] + Frames(lens[i]) <= first[j]
           /\ \A i \in 1 .. n : first[1] <= first[i]
<1>1. \A i \in 1 .. n : Frames(lens[i]) \in Nat
  BY FramesRound, MemAssumption
<1>2. \A j \in Nat : j \in 1 .. n => \A i \in 1 .. j - 1 : first[i] + Frames(lens[i]) <= first[j]
  <2> DEFINE T == {j \in Nat : j \in 1 .. n => \A i \in 1 .. j - 1 : first[i] + Frames(lens[i]) <= first[j]}
  <2>1. 0 \in T
    OBVIOUS
  <2>2. ASSUME NEW j \in Nat, j \in T PROVE j + 1 \in T
    <3> SUFFICES ASSUME j + 1 \in 1 .. n, NEW i \in 1 .. (j + 1) - 1
                 PROVE  first[i] + Frames(lens[i]) <= first[j + 1]
      OBVIOUS
    <3>1. j \in 1 .. n - 1 /\ j \in 1 .. n /\ i \in 1 .. n
      OBVIOUS
    <3>2. first[j + 1] = first[j] + Frames(lens[j])
      BY <3>1
    <3>3. CASE i = j
      BY <3>1, <3>2, <3>3, <1>1
    <3>4. CASE i # j
      <4>1. i \in 1 .. j - 1
        BY <3>4
      <4>2. first[i] + Frames(lens[i]) <= first[j]
        BY <2>2, <3>1, <4>1
      <4>3. PICK f \in Nat, g \in Nat : f = Frames(lens[i]) /\ g = Frames(lens[j])
        BY <1>1, <3>1
      <4>4. first[i] \in Nat /\ first[j] \in Nat /\ first[j + 1] \in Nat
        BY <3>1
      <4> QED BY <3>2, <4>2, <4>3, <4>4
    <3> QED BY <3>3, <3>4
  <2> HIDE DEF T
  <2>3. \A j \in Nat : j \in T
    BY <2>1, <2>2, Inductive
  <2> QED BY <2>3 DEF T
<1>3. ASSUME NEW i \in 1 .. n, NEW j \in 1 .. n, i < j PROVE first[i] + Frames(lens[i]) <= first[j]
  <2>1. i \in 1 .. j - 1 /\ j \in Nat
    BY <1>3
  <2> QED BY <1>2, <2>1
<1>4. ASSUME NEW i \in 1 .. n PROVE first[1] <= first[i]
  <2>1. CASE i = 1
    BY <2>1
  <2>2. CASE i # 1
    <3>1. 1 \in 1 .. n /\ 1 < i
      BY <2>2
    <3>2. first[1] + Frames(lens[1]) <= first[i]
      BY <1>3, <3>1
    <3> QED BY <1>1, <3>1, <3>2
  <2> QED BY <2>1, <2>2
<1> QED BY <1>3, <1>4

-----------------------------------------------------------------------------
(* The search of the bitmap                                                *)

\* Rounding down to whole chars.
LEMMA WholeChars ==
    ASSUME NEW a \in Int
    PROVE  /\ SEC_MEM * (a \div SEC_MEM) \in Int
           /\ SEC_MEM * (a \div SEC_MEM) <= a /\ a < SEC_MEM * (a \div SEC_MEM) + SEC_MEM
           /\ \A b \in Int : a <= b => SEC_MEM * (a \div SEC_MEM) <= SEC_MEM * (b \div SEC_MEM)
<1>1. SEC_MEM \in Nat \ {0}
  BY Sizes
<1>2. ASSUME NEW c \in Int
      PROVE  /\ c \div SEC_MEM \in Int /\ SEC_MEM * (c \div SEC_MEM) \in Int
             /\ SEC_MEM * (c \div SEC_MEM) <= c /\ c < SEC_MEM * (c \div SEC_MEM) + SEC_MEM
  <2>1. PICK k \in Int, r \in 0 .. SEC_MEM - 1 : Quotient(c, SEC_MEM, k, r)
    BY <1>1, Euclid
  <2>2. c = (SEC_MEM * k) + r
    BY <2>1 DEF Quotient
  <2>3. k = c \div SEC_MEM
    BY <2>1 DEF Quotient
  <2>4. PICK y \in Int : y = SEC_MEM * k
    BY <1>1
  <2>5. y <= c /\ c < y + SEC_MEM
    BY <1>1, <2>2, <2>4
  <2> QED BY <2>3, <2>4, <2>5
<1>3. ASSUME NEW b \in Int, a <= b PROVE SEC_MEM * (a \div SEC_MEM) <= SEC_MEM * (b \div SEC_MEM)
  <2>1. PICK k \in Int, l \in Int : k = a \div SEC_MEM /\ l = b \div SEC_MEM
    BY <1>2
  <2>2. SEC_MEM * k <= a /\ b < SEC_MEM * l + SEC_MEM
    BY <1>2, <2>1
  <2>3. k <= l
    <3>1. SEC_MEM * (l + 1) = (SEC_MEM * l) + SEC_MEM
      BY <1>1
    <3>2. ~(SEC_MEM * (l + 1) <= SEC_MEM * k)
      <4>1. PICK x \in Int, y \in Int : x = SEC_MEM * k /\ y = SEC_MEM * (l + 1)
        BY <1>1
      <4> QED BY <1>3, <2>2, <3>1, <4>1
    <3>3. ~(l + 1 <= k)
      BY <1>1, <3>2, Scaled
    <3> QED BY <3>3
  <2> QED BY <1>1, <2>1, <2>3, Scaled
<1> QED BY <1>2, <1>3

\* The frames buscar_mem looks at: from somewhere in the kernel or the modules
\* to less than a char before the end of the memory.
LEMMA SearchedIs ==
    ASSUME mem_off \in Nat, mem_max \in Nat, KernelFin + 2 <= mem_off
    PROVE  \E lo \in Nat, hi \in Int :
             /\ Searched = lo .. hi - 1 /\ KernelIni <= lo /\ lo <= mem_off
             /\ hi = SEC_MEM * (mem_max \div SEC_MEM) /\ mem_max - SEC_MEM < hi /\ hi <= mem_max
<1>1. PICK lo \in Int : lo = SEC_MEM * ((mem_off - Slack) \div SEC_MEM)
  BY WholeChars, Sizes
<1>2. PICK hi \in Int : hi = SEC_MEM * (mem_max \div SEC_MEM)
  BY WholeChars
<1>3. mem_max - SEC_MEM < hi /\ hi <= mem_max
  BY <1>2, WholeChars, Sizes
<1>4. KernelIni <= lo
  <2>1. KernelFin + 2 - Slack \in Int /\ mem_off - Slack \in Int /\ KernelFin + 2 - Slack <= mem_off - Slack
    BY Sizes
  <2>2. SEC_MEM * ((KernelFin + 2 - Slack) \div SEC_MEM) <= lo
    BY <1>1, <2>1, WholeChars
  <2>3. KernelIni <= SEC_MEM * ((KernelFin + 2 - Slack) \div SEC_MEM)
    BY MemAssumption
  <2>4. SEC_MEM * ((KernelFin + 2 - Slack) \div SEC_MEM) \in Int
    BY <2>1, WholeChars
  <2> QED BY <2>2, <2>3, <2>4, Sizes
<1>5. lo <= mem_off
  <2>1. mem_off - Slack \in Int /\ mem_off - Slack <= mem_off
    BY Sizes
  <2>2. lo <= mem_off - Slack
    BY <1>1, <2>1, WholeChars
  <2> QED BY <2>1, <2>2
<1>6. Searched = lo .. hi - 1
  BY <1>1, <1>2 DEF Searched
<1> QED BY <1>1, <1>2, <1>3, <1>4, <1>5, <1>6, Sizes

\* buscar_mem finds the first frame of those that is not marked, or says 0.
LEMMA Buscar ==
    ASSUME NEW map, Searched \subseteq Nat
    PROVE  \/ Searched \subseteq map /\ buscar_mem(map) = 0
           \/ /\ buscar_mem(map) \in Searched \ map
              /\ \A q \in Searched \ map : buscar_mem(map) <= q
<1> DEFINE free == Searched \ map
<1>1. CASE free = {}
  BY <1>1 DEF buscar_mem
<1>2. CASE free # {}
  <2>1. free \in SUBSET Nat
    OBVIOUS
  <2>2. \E x \in free : \A y \in free : x <= y
    <3> HIDE DEF free
    <3> QED BY <1>2, <2>1, LeastNat
  <2>3. Least(free) \in free /\ \A q \in free : Least(free) <= q
    <3> HIDE DEF free
    <3> QED BY <2>2 DEF Least
  <2>4. buscar_mem(map) = Least(free)
    BY <1>2 DEF buscar_mem
  <2> QED BY <2>3, <2>4
<1> QED BY <1>1, <1>2

\* The recursion of Taken can be unfolded.
LEMMA TakenUnfolds ==
    ASSUME NEW map, NEW n \in Nat
    PROVE  /\ Taken(n, map) = [i \in 0 .. n - 1 |-> Taken(n, map)[i]]
           /\ \A i \in 0 .. n - 1 :
                Taken(n, map)[i] = buscar_mem(map \cup {Taken(n, map)[j] : j \in 0 .. i - 1})
<1> DEFINE F(k, f) == f = [i \in 0 .. k - 1 |-> buscar_mem(map \cup {f[j] : j \in 0 .. i - 1})]
           T == {k \in Nat : \E f : F(k, f)}
<1>1. 0 \in T
  <2>1. F(0, [i \in 0 .. 0 - 1 |-> 0])
    OBVIOUS
  <2> QED BY <2>1
<1>2. ASSUME NEW k \in Nat, k \in T PROVE k + 1 \in T
  <2>1. PICK f : F(k, f)
    BY <1>2
  <2> DEFINE e == [i \in 0 .. k |-> IF i = k THEN buscar_mem(map \cup {f[j] : j \in 0 .. k - 1}) ELSE f[i]]
  <2>2. ASSUME NEW i \in 0 .. k PROVE e[i] = buscar_mem(map \cup {e[j] : j \in 0 .. i - 1})
    <3>1. \A j \in 0 .. i - 1 : e[j] = f[j]
      OBVIOUS
    <3>2. {e[j] : j \in 0 .. i - 1} = {f[j] : j \in 0 .. i - 1}
      <4> HIDE DEF e
      <4> QED BY <3>1
    <3>3. e[i] = buscar_mem(map \cup {f[j] : j \in 0 .. i - 1})
      <4>1. CASE i = k
        BY <4>1
      <4>2. CASE i # k
        <5>1. i \in 0 .. k - 1 /\ e[i] = f[i]
          BY <4>2
        <5>2. \A x \in 0 .. k - 1 : f[x] = buscar_mem(map \cup {f[j] : j \in 0 .. x - 1})
          BY <2>1
        <5> QED BY <5>1, <5>2
      <4> QED BY <4>1, <4>2
    <3> HIDE DEF e
    <3> QED BY <3>2, <3>3
  <2>3. e = [i \in 0 .. (k + 1) - 1 |-> e[i]] /\ 0 .. (k + 1) - 1 = 0 .. k
    OBVIOUS
  <2> HIDE DEF e
  <2>4. F(k + 1, e)
    BY <2>2, <2>3
  <2> HIDE DEF F
  <2> QED BY <2>4
<1>3. \E f : F(n, f)
  <2> HIDE DEF F
  <2> HIDE DEF T
  <2>1. \A k \in Nat : k \in T
    BY <1>1, <1>2, Inductive
  <2> QED BY <2>1 DEF T
<1>4. PICK f : F(n, f) /\ f = CHOOSE e : F(n, e)
  BY <1>3
<1>5. Taken(n, map) = f
  BY <1>4, Zenon DEF Taken
<1>6. f = [i \in 0 .. n - 1 |-> f[i]] /\ \A i \in 0 .. n - 1 : f[i] = buscar_mem(map \cup {f[j] : j \in 0 .. i - 1})
  <2> DEFINE e(i) == buscar_mem(map \cup {f[j] : j \in 0 .. i - 1})
  <2>1. f = [i \in 0 .. n - 1 |-> e(i)]
    BY <1>4
  <2> HIDE DEF e
  <2>2. f = [i \in 0 .. n - 1 |-> f[i]] /\ \A i \in 0 .. n - 1 : f[i] = e(i)
    BY <2>1
  <2> QED BY <2>2 DEF e
<1> QED BY <1>5, <1>6

\* n frames in a row, and a bitmap whose searched part is marked up to first.
Row(first, n) == [i \in 0 .. n - 1 |-> first + i]
FullUpTo(map, first) == \A p \in Searched : p \in map <=> p < first

\* In such a bitmap n calls return n frames in a row.
LEMMA TakenRow ==
    ASSUME NEW map, NEW n \in Nat, NEW lo \in Nat, NEW hi \in Int, NEW first \in Nat,
           Searched = lo .. hi - 1, lo <= first, first + n <= hi,
           FullUpTo(map, first)
    PROVE  Taken(n, map) = Row(first, n)
<1> DEFINE t == Taken(n, map)
           T == {k \in Nat : k < n => \A i \in 0 .. k : t[i] = first + i}
<1>1. /\ t = [i \in 0 .. n - 1 |-> t[i]]
      /\ \A i \in 0 .. n - 1 : t[i] = buscar_mem(map \cup {t[j] : j \in 0 .. i - 1})
  <2>1. \A i \in 0 .. n - 1 :
          Taken(n, map)[i] = buscar_mem(map \cup {Taken(n, map)[j] : j \in 0 .. i - 1})
    BY TakenUnfolds
  <2>2. Taken(n, map) = [i \in 0 .. n - 1 |-> Taken(n, map)[i]]
    BY TakenUnfolds
  <2> QED BY <2>1, <2>2
<1> HIDE DEF t
<1>2. ASSUME NEW i \in 0 .. n - 1, \A j \in 0 .. i - 1 : t[j] = first + j PROVE t[i] = first + i
  <2> DEFINE m == map \cup {t[j] : j \in 0 .. i - 1}
  <2>1. \A p \in Searched : p \in m <=> p < first + i
    <3>1. \A p \in Searched : p \in {t[j] : j \in 0 .. i - 1} => p < first + i
      BY <1>2
    <3>2. ASSUME NEW p \in Searched, ~(p < first), p < first + i PROVE p \in {t[j] : j \in 0 .. i - 1}
      <4>1. p - first \in 0 .. i - 1 /\ p = first + (p - first)
        BY <3>2
      <4> QED BY <1>2, <4>1
    <3>3. \A p \in Searched : p < first => p < first + i
      OBVIOUS
    <3> QED BY <3>1, <3>2, <3>3 DEF FullUpTo
  <2> HIDE DEF m
  <2>2. first + i \in Searched \ m
    <3>1. first + i \in Searched /\ ~(first + i < first + i)
      OBVIOUS
    <3> QED BY <2>1, <3>1
  <2>3. buscar_mem(m) \in Searched \ m /\ buscar_mem(m) <= first + i
    <3>1. Searched \subseteq Nat
      OBVIOUS
    <3> QED BY <2>2, <3>1, Buscar
  <2>4. buscar_mem(m) = first + i
    <3>1. buscar_mem(m) \in lo .. hi - 1 /\ ~(buscar_mem(m) < first + i)
      BY <2>1, <2>3
    <3> QED BY <2>3, <3>1
  <2> QED BY <1>1, <2>4 DEF m
<1>3. \A k \in Nat : k \in T
  <2>1. 0 \in T
    <3>1. 0 < n => 0 \in 0 .. n - 1 /\ \A j \in 0 .. 0 - 1 : t[j] = first + j
      OBVIOUS
    <3>2. 0 < n => t[0] = first + 0
      BY <1>2, <3>1
    <3> QED BY <3>2
  <2>2. ASSUME NEW k \in Nat, k \in T PROVE k + 1 \in T
    <3> SUFFICES ASSUME k + 1 < n, NEW i \in 0 .. k + 1 PROVE t[i] = first + i
      OBVIOUS
    <3>1. \A j \in 0 .. k : t[j] = first + j
      BY <2>2
    <3>2. CASE i = k + 1
      <4>1. i \in 0 .. n - 1 /\ \A j \in 0 .. i - 1 : t[j] = first + j
        BY <3>1, <3>2
      <4> QED BY <1>2, <4>1
    <3>3. CASE i # k + 1
      BY <3>1, <3>3
    <3> QED BY <3>2, <3>3
  <2> HIDE DEF T
  <2> QED BY <2>1, <2>2, Inductive
<1>4. \A i \in 0 .. n - 1 : t[i] = first + i
  <2> SUFFICES ASSUME NEW i \in 0 .. n - 1 PROVE t[i] = first + i
    OBVIOUS
  <2>1. i \in Nat /\ i < n /\ i \in 0 .. i
    OBVIOUS
  <2> QED BY <1>3, <2>1
<1> QED BY <1>1, <1>4 DEF t, Row

-----------------------------------------------------------------------------
(* MemInv is inductive                                                     *)

\* What boot needs is there: Top and a reserve lie inside the memory, and the
\* memory in the address space.
LEMMA RoomInMemory ==
    ASSUME ram \in RamBytes, mem_off \in Nat, Len(tasks) \in Nat, Len(mods) \in Nat, Room, step # "mem_off"
    PROVE  /\ Top \in Nat /\ KernelFin + 2 <= mem_off /\ mem_off + CAN_TAB_PAG + 1 <= Top
           /\ ram \in Nat /\ ram \div PAG_LEN \in Nat /\ KernelFin * PAG_LEN <= ram - 1
           /\ Top + 3 * Len(mods) + SEC_MEM <= ram \div PAG_LEN
           /\ ram \div PAG_LEN <= CAN_TAB_PAG * TAB_PAG_LEN
<1>1. PAG_LEN \in Nat \ {0} /\ CAN_TAB_PAG \in Nat \ {0} /\ TAB_PAG_LEN \in Nat \ {0}
          /\ KernelFin \in Nat \ {0} /\ SEC_MEM \in Nat \ {0}
  BY Sizes
<1>2. Top \in Nat /\ KernelFin + 2 <= mem_off /\ mem_off + CAN_TAB_PAG + 1 <= Top
  BY <1>1 DEF Top, Room
<1>3. PICK w \in Nat : w = Top + 3 * Len(mods) + SEC_MEM
  BY <1>1, <1>2
<1>4. PAG_LEN * w <= ram /\ KernelFin + 1 <= w
  BY <1>1, <1>2, <1>3 DEF Room
<1>5. PICK a \in Nat : a = CAN_TAB_PAG * TAB_PAG_LEN
  BY <1>1
<1>6. ram \in Nat /\ ram <= PAG_LEN * a
  <2>1. ram \in 0 .. PAG_LEN * a /\ PAG_LEN * a \in Nat
    BY <1>1, <1>5, MemAssumption
  <2> QED BY <2>1
<1>7. PICK k \in Int, r \in 0 .. PAG_LEN - 1 : Quotient(ram, PAG_LEN, k, r)
  BY <1>1, <1>6, Euclid
<1>8. ram = (PAG_LEN * k) + r
  BY <1>7 DEF Quotient
<1>9. k = ram \div PAG_LEN
  BY <1>7 DEF Quotient
<1>10. w <= k
  <2>1. PAG_LEN * (k + 1) = (PAG_LEN * k) + PAG_LEN
    BY <1>1
  <2>2. ~(PAG_LEN * (k + 1) <= PAG_LEN * w)
    <3>1. PICK x \in Int, y \in Int : x = PAG_LEN * k /\ y = PAG_LEN * w
      BY <1>1
    <3> QED BY <1>1, <1>4, <1>6, <1>8, <2>1, <3>1
  <2>3. ~(k + 1 <= w)
    BY <1>1, <2>2, Scaled
  <2> QED BY <2>3
<1>11. k <= a
  <2>1. PAG_LEN * k <= PAG_LEN * a
    <3>1. PICK x \in Int, y \in Int : x = PAG_LEN * k /\ y = PAG_LEN * a
      BY <1>1
    <3> QED BY <1>1, <1>6, <1>8, <3>1
  <2> QED BY <1>1, <2>1, Scaled
<1>12. KernelFin * PAG_LEN <= ram - 1
  <2>1. PAG_LEN * (KernelFin + 1) <= PAG_LEN * w
    BY <1>1, <1>4, Scaled
  <2>2. PAG_LEN * (KernelFin + 1) = KernelFin * PAG_LEN + PAG_LEN
    BY <1>1
  <2>3. PICK x \in Int, y \in Int : x = KernelFin * PAG_LEN /\ y = PAG_LEN * w
    BY <1>1
  <2> QED BY <1>1, <1>4, <1>6, <2>1, <2>2, <2>3
<1> QED BY <1>2, <1>3, <1>5, <1>6, <1>9, <1>10, <1>11, <1>12

\* An image has at least one frame, and it is not the first of the machine.
LEMMA ImageNotEmpty ==
    ASSUME NEW m \in [start : Nat, len : Lengths]
    PROVE  addr2pag(m.start) \in Image(m) /\ addr2pag(m.start) \in Nat /\ Frames(m.len) \in Nat \ {0}
<1>1. m.start \in Nat /\ m.len \in Nat \ {0} /\ PAG_LEN \in Nat \ {0}
  BY Sizes, MemAssumption
<1>2. PICK f \in Nat \ {0} : f = Frames(m.len)
  BY <1>1, FramesRound
<1>3. PICK k \in Nat : k = addr2pag(m.start)
  BY <1>1 DEF addr2pag
<1>4. 0 \in 0 .. f - 1 /\ k = k + 0
  OBVIOUS
<1>5. Image(m) = {k + i : i \in 0 .. f - 1}
  BY <1>2, <1>3 DEF Image
<1> QED BY <1>2, <1>3, <1>4, <1>5

\* Before _main runs, GRUB has put the modules apart.
LEMMA MemStart ==
    ASSUME step = "mem_off", ram \in RamBytes, Enough(ram, mods), Blank,
           NEW n \in 1 .. MaxModules, NEW lens \in [1 .. n -> Lengths], mods = Layout(lens)
    PROVE  MemInv
<1>1. step = "mem_off" /\ ram \in RamBytes /\ Enough(ram, mods) /\ Blank
  OBVIOUS
<1>3. mods = Layout(lens)
  OBVIOUS
<1>4. n \in Nat \ {0}
  BY Sizes
<1>5. PICK first \in [1 .. n -> Nat] :
         /\ Layout(lens) = [i \in 1 .. n |-> [start |-> first[i] * PAG_LEN, len |-> lens[i]]]
         /\ first[1] = KernelFin + 1
         /\ \A i \in 1 .. n - 1 : first[i + 1] = first[i] + Frames(lens[i])
  BY <1>4, LayoutIs
<1>6. /\ \A i, j \in 1 .. n : i < j => first[i] + Frames(lens[i]) <= first[j]
      /\ \A i \in 1 .. n : first[1] <= first[i]
  BY <1>4, <1>5, Ascending
<1>7. mods \in Seq([start : Nat, len : Lengths]) /\ Len(mods) = n /\ DOMAIN mods = 1 .. n
  <2>1. \A i \in 1 .. n : first[i] * PAG_LEN \in Nat /\ lens[i] \in Lengths
    BY Sizes
  <2> QED BY <1>3, <1>4, <1>5, <2>1
<1>8. \A i \in 1 .. n : lens[i] \in Nat \ {0} /\ Frames(lens[i]) \in Nat \ {0}
  BY MemAssumption, FramesRound
<1>9. ASSUME NEW i \in 1 .. n PROVE Image(mods[i]) = first[i] .. first[i] + Frames(lens[i]) - 1
  <2>1. mods[i].start = first[i] * PAG_LEN /\ mods[i].len = lens[i] /\ first[i] \in Nat
    BY <1>3, <1>5
  <2> QED BY <1>8, <2>1, ImageIs
<1>10. PICK behind \in Nat : behind = addr2pag(EndOf(mods[n])) + 1 /\ first[n] + Frames(lens[n]) <= behind
  <2>1. n \in 1 .. n /\ first[n] \in Nat
    BY <1>4
  <2>2. PICK len \in Nat \ {0}, f \in Nat : len = lens[n] /\ f = first[n]
    BY <1>8, <2>1
  <2>3. EndOf(mods[n]) = f * PAG_LEN + len
    BY <1>3, <1>5, <2>1, <2>2 DEF EndOf
  <2>4. PICK k \in Int, r \in 0 .. PAG_LEN - 1 : Quotient(len, PAG_LEN, k, r)
    BY <2>2, Euclid, Sizes
  <2>5. len = (PAG_LEN * k) + r
    BY <2>4 DEF Quotient
  <2>6. k = len \div PAG_LEN
    BY <2>4 DEF Quotient
  <2>7. f * PAG_LEN + len = (f + k) * PAG_LEN + r
    <3>1. (f + k) * PAG_LEN = f * PAG_LEN + PAG_LEN * k
      BY Sizes
    <3>2. PICK x \in Int, y \in Int : x = f * PAG_LEN /\ y = PAG_LEN * k
      BY Sizes
    <3> QED BY <2>5, <3>1, <3>2
  <2>8. addr2pag(EndOf(mods[n])) = f + k
    BY <2>3, <2>7, FrameOfAddress
  <2>9. k \in Nat /\ Frames(len) <= k + 1
    <3>1. Frames(len) \in Nat \ {0} /\ Frames(len) \in {k, k + 1}
      BY <2>6, FramesRound
    <3> QED BY <3>1
  <2>10. Frames(len) \in Nat
    BY FramesRound
  <2>11. PICK b \in Nat : b = f + k + 1
    BY <2>9
  <2>12. b = addr2pag(EndOf(mods[n])) + 1 /\ f + Frames(len) <= b
    BY <2>8, <2>9, <2>10, <2>11
  <2> QED BY <2>2, <2>12
<1>11. ImagesApart
  <2>1. Loaded = {}
    BY <1>1 DEF Blank, Loaded
  <2>2. ASSUME NEW i \in 1 .. n PROVE Image(mods[i]) \subseteq KernelFin + 1 .. behind - 1
    <3>0. n \in 1 .. n
      BY <1>4
    <3>1. PICK f \in Nat \ {0}, g \in Nat \ {0} : f = Frames(lens[i]) /\ g = Frames(lens[n])
      BY <3>0, <1>8
    <3>2. first[i] + f <= behind
      <4>1. CASE i = n
        BY <1>10, <3>1, <4>1
      <4>2. CASE i # n
        <5>1. i < n /\ n \in 1 .. n
          BY <1>4, <4>2
        <5>2. first[i] + f <= first[n]
          BY <1>6, <3>1, <5>1
        <5>3. first[n] + g <= behind /\ first[n] \in Nat /\ first[i] \in Nat
          BY <1>10, <3>1, <5>1
        <5> QED BY <5>2, <5>3
      <4> QED BY <4>1, <4>2
    <3>3. KernelFin + 1 <= first[i] /\ first[i] \in Nat
      BY <1>5, <1>6
    <3>4. Image(mods[i]) = first[i] .. first[i] + f - 1
      BY <1>9, <3>1
    <3> QED BY <3>2, <3>3, <3>4, Sizes
  <2>3. ASSUME NEW i \in 1 .. n, NEW j \in 1 .. n, i < j PROVE Image(mods[i]) \cap Image(mods[j]) = {}
    <3>1. PICK f \in Nat, g \in Nat : f = Frames(lens[i]) /\ g = Frames(lens[j])
      BY <1>8
    <3>2. first[i] + f <= first[j] /\ first[i] \in Nat /\ first[j] \in Nat
      BY <1>6, <2>3, <3>1
    <3>3. Image(mods[i]) = first[i] .. first[i] + f - 1 /\ Image(mods[j]) = first[j] .. first[j] + g - 1
      BY <1>9, <3>1
    <3> QED BY <3>2, <3>3
  <2>4. ASSUME NEW i \in 1 .. n, NEW j \in 1 .. n, i # j PROVE Image(mods[i]) \cap Image(mods[j]) = {}
    <3>1. i < j \/ j < i
      BY <2>4
    <3> QED BY <2>3, <3>1
  <2> QED BY <1>1, <1>7, <1>10, <2>1, <2>2, <2>4 DEF ImagesApart
<1>12. Room
  <2>1. mods # << >>
    BY <1>4, <1>7
  <2> QED BY <1>1, <2>1 DEF Room
<1>13. TypeOK
  BY <1>1 DEF TypeOK, Blank
<1>14. Marked /\ Placed /\ Granted /\ FindsAllMemory /\ GivesUpWhenFull /\ mem_max \in Nat /\ mem_off \in Nat
  BY <1>1 DEF Blank, Marked, Placed, Granted, FindsAllMemory, GivesUpWhenFull, Loaded
<1> QED BY <1>1, <1>7, <1>11, <1>12, <1>13, <1>14 DEF MemInv

LEMMA MemInit == Init => MemInv
<1> SUFFICES ASSUME Init PROVE MemInv
  OBVIOUS
<1>1. PICK n \in 1 .. MaxModules : \E lens \in [1 .. n -> Lengths] : mods = Layout(lens)
  BY DEF Init
<1>2. PICK lens \in [1 .. n -> Lengths] : mods = Layout(lens)
  BY <1>1
<1>3. step = "mem_off" /\ ram \in RamBytes /\ Enough(ram, mods) /\ Blank
  BY DEF Init
<1> QED BY <1>2, <1>3, MemStart

-----------------------------------------------------------------------------
(* Sequences, as the steps use them                                        *)

LEMMA ElementIn == ASSUME NEW S, NEW s \in Seq(S), NEW i \in 1 .. Len(s) PROVE s[i] \in S
OBVIOUS

LEMMA Rest ==
    ASSUME NEW S, NEW s \in Seq(S), s # << >>
    PROVE  /\ Len(s) \in Nat \ {0} /\ Head(s) = s[1] /\ s[1] \in S
           /\ Tail(s) \in Seq(S) /\ Len(Tail(s)) = Len(s) - 1
           /\ \A i \in 1 .. Len(s) - 1 : Tail(s)[i] = s[i + 1]
OBVIOUS

LEMMA Longer ==
    ASSUME NEW S, NEW s \in Seq(S), NEW e \in S
    PROVE  /\ Append(s, e) \in Seq(S) /\ Len(Append(s, e)) = Len(s) + 1
           /\ Append(s, e)[Len(s) + 1] = e
           /\ \A i \in 1 .. Len(s) : Append(s, e)[i] = s[i]
OBVIOUS

\* set_mem_off: the search starts behind the last module.
LEMMA OffStep == MemInv /\ set_mem_off => MemInv'
<1> SUFFICES ASSUME MemInv, set_mem_off PROVE MemInv'
  OBVIOUS
<1>1. /\ step = "mem_off" /\ step' = "ini_mm" /\ mem_off' = addr2pag(EndOf(mods[Len(mods)])) + 1
      /\ UNCHANGED <<ram, mods, mem_max, mem_map, tables, g_dir, tasks, dir_user, tab_user, shared, granted, eax>>
  BY DEF set_mem_off
<1>2. /\ mods \in Seq([start : Nat, len : Lengths]) /\ mods # << >> /\ Enough(ram, mods)
      /\ tasks = << >> /\ tables = << >> /\ mem_map = {}
  BY <1>1 DEF MemInv, Room, Placed, Marked
<1>3. PICK n \in Nat \ {0} : n = Len(mods) /\ DOMAIN mods = 1 .. n
  BY <1>2
<1>4. mods[n] \in [start : Nat, len : Lengths]
  <2>1. n \in 1 .. Len(mods)
    BY <1>3
  <2> QED BY <1>2, <2>1, ElementIn
<1>5. PICK e \in Nat : e = addr2pag(EndOf(mods[n]))
  <2>1. PICK c \in Nat : c = EndOf(mods[n])
    <3>1. mods[n].start \in Nat /\ mods[n].len \in Nat
      BY <1>4, MemAssumption
    <3> QED BY <3>1 DEF EndOf
  <2> QED BY <2>1, Sizes DEF addr2pag
<1>6. mem_off' = e + 1
  BY <1>1, <1>3, <1>5
<1>7. KernelFin + 2 <= e + 1
  <2>1. addr2pag(mods[n].start) \in KernelFin + 1 .. e
    <3>1. Image(mods[n]) \subseteq KernelFin + 1 .. (e + 1) - 1
      BY <1>1, <1>3, <1>5 DEF MemInv, ImagesApart
    <3> QED BY <1>4, <3>1, ImageNotEmpty
  <2> QED BY <2>1, Sizes
<1>8. Room'
  <2>1. PAG_LEN * (e + 2 + CAN_TAB_PAG + 3 * n + SEC_MEM) <= ram
    <3>1. ram >= PAG_LEN * (e + 2 + CAN_TAB_PAG + 3 * n + SEC_MEM)
      BY <1>2, <1>3, <1>5 DEF Enough
    <3> QED BY <3>1, <1>2, Sizes, MemAssumption DEF MemInv
  <2>2. Top' = e + 1 + CAN_TAB_PAG + 1 + 3 * 0
    BY <1>1, <1>2, <1>6 DEF Top
  <2>3. Top' + 3 * Len(mods') + SEC_MEM = e + 2 + CAN_TAB_PAG + 3 * n + SEC_MEM
    BY <1>1, <1>3, <2>2, Sizes
  <2> QED BY <1>1, <1>6, <1>7, <2>1, <2>3 DEF Room
<1>9. ImagesApart'
  BY <1>1 DEF MemInv, ImagesApart, Loaded
<1>10. TypeOK' /\ Marked' /\ Placed' /\ Granted'
  BY <1>1, <1>2 DEF MemInv, TypeOK, Marked, Placed, Granted, Loaded
<1>11. FindsAllMemory' /\ GivesUpWhenFull'
  BY <1>1, <1>2 DEF FindsAllMemory, GivesUpWhenFull, Loaded
<1> QED BY <1>1, <1>6, <1>8, <1>9, <1>10, <1>11 DEF MemInv

\* ini_mm: kernel and modules are marked, although the video window that is
\* released in between reaches into the kernel.
LEMMA MapStep == MemInv /\ ini_mm => MemInv'
<1> SUFFICES ASSUME MemInv, ini_mm PROVE MemInv'
  OBVIOUS
<1>1. /\ step = "ini_mm" /\ step' = "ini_pag" /\ mem_max' = testmem(ram)
      /\ mem_map' = (((0 .. Megabyte - 1) \ Video) \cup (KernelIni .. KernelFin)) \cup (KernelFin + 1 .. mem_off - 1)
      /\ UNCHANGED <<ram, mods, mem_off, tables, g_dir, tasks, dir_user, tab_user, shared, granted, eax>>
  BY DEF ini_mm
<1>2. /\ mods \in Seq([start : Nat, len : Lengths]) /\ ram \in RamBytes /\ mem_off \in Nat
      /\ tasks = << >> /\ tables = << >> /\ Room
  BY <1>1 DEF MemInv, Placed
<1>3. /\ Top \in Nat /\ KernelFin + 2 <= mem_off /\ mem_off + CAN_TAB_PAG + 1 <= Top
      /\ ram \in Nat /\ ram \div PAG_LEN \in Nat /\ KernelFin * PAG_LEN <= ram - 1
      /\ Top + 3 * Len(mods) + SEC_MEM <= ram \div PAG_LEN
      /\ ram \div PAG_LEN <= CAN_TAB_PAG * TAB_PAG_LEN
  BY <1>1, <1>2, RoomInMemory
<1>4. mem_max' = ram \div PAG_LEN
  BY <1>1, <1>3, TestmemExact
<1>5. Marked'
  <2>1. KernelIni .. mem_off - 1 \subseteq mem_map' /\ mem_map' \subseteq 0 .. mem_off - 1
    BY <1>1, <1>2, <1>3, Sizes
  <2> QED BY <1>1, <2>1 DEF Marked
<1>6. TypeOK'
  <2>1. mem_map' \subseteq AddressSpace
    <3>1. PICK a \in Nat : a = CAN_TAB_PAG * TAB_PAG_LEN
      BY Sizes
    <3>2. mem_off <= a
      BY <1>2, <1>3, <3>1, Sizes
    <3>3. mem_map' \subseteq 0 .. mem_off - 1
      BY <1>1, <1>5 DEF Marked
    <3> QED BY <1>2, <3>1, <3>2, <3>3 DEF AddressSpace
  <2> QED BY <1>1, <2>1 DEF MemInv, TypeOK
<1>7. Room' /\ ImagesApart'
  BY <1>1 DEF MemInv, Room, ImagesApart, Loaded, Top
<1>8. Placed' /\ Granted'
  BY <1>1, <1>2 DEF MemInv, Placed, Granted, Loaded
<1>9. FindsAllMemory' /\ GivesUpWhenFull'
  BY <1>1, <1>2, <1>4 DEF FindsAllMemory, GivesUpWhenFull, Loaded
<1> QED BY <1>1, <1>2, <1>3, <1>4, <1>5, <1>6, <1>7, <1>8, <1>9 DEF MemInv

\* What n calls of buscar_mem return during boot: the next n frames in a row.
LEMMA BootTakes ==
    ASSUME ram \in RamBytes, mem_off \in Nat, Len(tasks) \in Nat, Len(mods) \in Nat, Room, step # "mem_off",
           mem_max = ram \div PAG_LEN, NEW map, NEW n \in Nat, NEW first \in Nat,
           mem_off <= first, first + n <= Top + 3 * Len(mods),
           KernelIni .. first - 1 \subseteq map, map \subseteq 0 .. first - 1
    PROVE  Taken(n, map) = Row(first, n)
<1>1. /\ Top \in Nat /\ KernelFin + 2 <= mem_off /\ mem_max \in Nat
      /\ Top + 3 * Len(mods) + SEC_MEM <= mem_max
  BY RoomInMemory
<1>2. PICK lo \in Nat, hi \in Int :
          /\ Searched = lo .. hi - 1 /\ KernelIni <= lo /\ lo <= mem_off
          /\ mem_max - SEC_MEM < hi
  BY <1>1, SearchedIs
<1>3. lo <= first /\ first + n <= hi
  BY <1>1, <1>2, Sizes
<1>4. FullUpTo(map, first)
  BY <1>2, Sizes DEF FullUpTo
<1> QED BY <1>2, <1>3, <1>4, TakenRow

\* ini_pag: directory and tables come to lie behind the modules, in order.
LEMMA PagStep == MemInv /\ ini_pag => MemInv'
<1> SUFFICES ASSUME MemInv, ini_pag PROVE MemInv'
  OBVIOUS
<1> DEFINE ps == Taken(CAN_TAB_PAG + 1, mem_map)
<1>1. /\ step = "ini_pag" /\ step' = "exec" /\ g_dir' = ps[0]
      /\ tables' = [i \in 0 .. CAN_TAB_PAG - 1 |-> ps[i + 1]]
      /\ mem_map' = mem_map \cup SetOf(ps)
      /\ UNCHANGED <<ram, mem_max, mem_off, mods, tasks, dir_user, tab_user, shared, granted, eax>>
  BY DEF ini_pag, boot
<1> HIDE DEF ps
<1>2. /\ mods \in Seq([start : Nat, len : Lengths]) /\ ram \in RamBytes /\ mem_off \in Nat
      /\ tasks = << >> /\ Room /\ mem_max = ram \div PAG_LEN
      /\ KernelIni .. mem_off - 1 \subseteq mem_map /\ mem_map \subseteq 0 .. mem_off - 1
  BY <1>1 DEF MemInv, Placed, Marked, FindsAllMemory
<1>3. /\ Top \in Nat /\ KernelFin + 2 <= mem_off /\ Top = mem_off + CAN_TAB_PAG + 1
      /\ Top + 3 * Len(mods) + SEC_MEM <= ram \div PAG_LEN
      /\ ram \div PAG_LEN <= CAN_TAB_PAG * TAB_PAG_LEN
      /\ ram \div PAG_LEN \in Nat /\ Len(mods) \in Nat
  <2>1. Len(tasks) \in Nat /\ Len(mods) \in Nat /\ Len(tasks) = 0
    BY <1>2
  <2>2. Top = mem_off + CAN_TAB_PAG + 1
    BY <1>2, <2>1, Sizes DEF Top
  <2> QED BY <1>1, <1>2, <2>1, <2>2, RoomInMemory
<1>4. ps = [i \in 0 .. CAN_TAB_PAG |-> mem_off + i]
  <2>1. PICK n \in Nat : n = CAN_TAB_PAG + 1
    BY Sizes
  <2>2. mem_off + n <= Top + 3 * Len(mods) /\ n - 1 = CAN_TAB_PAG
    BY <1>2, <1>3, <2>1, Sizes
  <2>3. Len(tasks) \in Nat /\ step # "mem_off" /\ mem_off <= mem_off
    BY <1>1, <1>2
  <2>4. Taken(n, mem_map) = Row(mem_off, n)
    BY <1>2, <1>3, <2>2, <2>3, BootTakes
  <2> QED BY <2>1, <2>2, <2>4 DEF ps, Row
<1>5. SetOf(ps) = mem_off .. mem_off + CAN_TAB_PAG
  <2>1. SetOf(ps) = {mem_off + i : i \in 0 .. CAN_TAB_PAG}
    BY <1>4 DEF SetOf
  <2>2. ASSUME NEW p \in mem_off .. mem_off + CAN_TAB_PAG PROVE \E i \in 0 .. CAN_TAB_PAG : p = mem_off + i
    <3>1. p - mem_off \in 0 .. CAN_TAB_PAG /\ p = mem_off + (p - mem_off)
      BY <1>2, <2>2, Sizes
    <3> QED BY <3>1
  <2>3. \A i \in 0 .. CAN_TAB_PAG : mem_off + i \in mem_off .. mem_off + CAN_TAB_PAG
    BY <1>2, Sizes
  <2> QED BY <2>1, <2>2, <2>3
<1>6. Top' = Top /\ Loaded' = Loaded /\ Loaded = {}
  BY <1>1, <1>2 DEF Top, Loaded
<1>7. Marked'
  <2>1. KernelIni .. Top - 1 \subseteq mem_map' /\ mem_map' \subseteq 0 .. Top - 1
    BY <1>1, <1>2, <1>3, <1>5, Sizes
  <2> QED BY <1>1, <1>6, <2>1 DEF Marked
<1>8. Placed'
  <2>1. g_dir' = mem_off
    BY <1>1, <1>2, <1>4, Sizes
  <2>2. tables' = [i \in 0 .. CAN_TAB_PAG - 1 |-> mem_off + 1 + i]
    <3>1. \A i \in 0 .. CAN_TAB_PAG - 1 : ps[i + 1] = mem_off + 1 + i
      BY <1>2, <1>4, Sizes
    <3> QED BY <1>1, <3>1
  <2> QED BY <1>1, <1>6, <2>1, <2>2 DEF Placed
<1>9. TypeOK'
  <2>1. mem_map' \subseteq AddressSpace
    <3>1. PICK a \in Nat : a = CAN_TAB_PAG * TAB_PAG_LEN
      BY Sizes
    <3>2. Top <= a
      BY <1>3, <3>1, Sizes
    <3>3. mem_map' \subseteq 0 .. Top - 1
      BY <1>1, <1>6, <1>7 DEF Marked
    <3> QED BY <1>3, <3>1, <3>2, <3>3 DEF AddressSpace
  <2> QED BY <1>1, <2>1 DEF MemInv, TypeOK
<1>10. Room' /\ ImagesApart'
  BY <1>1, <1>6 DEF MemInv, Room, ImagesApart
<1>11. Granted'
  BY <1>1, <1>6 DEF MemInv, Granted
<1>12. FindsAllMemory' /\ GivesUpWhenFull'
  BY <1>1, <1>2, <1>6 DEF FindsAllMemory, GivesUpWhenFull
<1> QED BY <1>1, <1>2, <1>7, <1>8, <1>9, <1>10, <1>11, <1>12 DEF MemInv

\* The frames exec writes into the TSS are the module's image.
LEMMA ImageListed ==
    ASSUME NEW m \in [start : Nat, len : Lengths], NEW list,
           list = [i \in 1 .. Frames(m.len) |-> addr2pag(m.start) + i - 1]
    PROVE  list \in Seq(Nat) /\ DOMAIN list = 1 .. Frames(m.len) /\ SetOf(list) = Image(m)
<1>1. PICK f \in Nat \ {0}, k \in Nat : f = Frames(m.len) /\ k = addr2pag(m.start)
  BY ImageNotEmpty
<1>2. list = [i \in 1 .. f |-> k + i - 1] /\ Image(m) = {k + i : i \in 0 .. f - 1}
  BY <1>1 DEF Image
<1>3. list \in Seq(Nat) /\ DOMAIN list = 1 .. f
  <2>1. \A i \in 1 .. f : k + i - 1 \in Nat
    OBVIOUS
  <2>2. list \in [1 .. f -> Nat]
    BY <1>2, <2>1
  <2>3. \A n \in Nat : \A g \in [1 .. n -> Nat] : g \in Seq(Nat)
    OBVIOUS
  <2> QED BY <2>2, <2>3
<1>4. SetOf(list) = {k + i - 1 : i \in 1 .. f}
  BY <1>2 DEF SetOf
<1>5. {k + i - 1 : i \in 1 .. f} = {k + i : i \in 0 .. f - 1}
  <2>1. ASSUME NEW x \in {k + i - 1 : i \in 1 .. f} PROVE x \in {k + i : i \in 0 .. f - 1}
    <3>1. PICK i \in 1 .. f : x = k + i - 1
      OBVIOUS
    <3>2. i - 1 \in 0 .. f - 1 /\ x = k + (i - 1)
      BY <3>1
    <3> QED BY <3>2
  <2>2. ASSUME NEW x \in {k + i : i \in 0 .. f - 1} PROVE x \in {k + i - 1 : i \in 1 .. f}
    <3>1. PICK i \in 0 .. f - 1 : x = k + i
      OBVIOUS
    <3>2. i + 1 \in 1 .. f /\ x = k + (i + 1) - 1
      BY <3>1
    <3> QED BY <3>2
  <2> QED BY <2>1, <2>2
<1> QED BY <1>1, <1>2, <1>3, <1>4, <1>5

\* What is known when exec is called.
LEMMA BeforeLoad ==
    ASSUME MemInv, Load
    PROVE  /\ step = "exec" /\ mods # << >> /\ exec(mods[1]) /\ mods' = Tail(mods)
           /\ UNCHANGED <<step, ram, mem_max, mem_off, tables, g_dir, shared>>
           /\ mods \in Seq([start : Nat, len : Lengths]) /\ mods[1] \in [start : Nat, len : Lengths]
           /\ mods' \in Seq([start : Nat, len : Lengths]) /\ Len(mods') = Len(mods) - 1
           /\ \A i \in 1 .. Len(mods') : i + 1 \in 1 .. Len(mods) /\ mods'[i] = mods[i + 1]
           /\ Len(mods) \in Nat \ {0} /\ Len(tasks) \in Nat
           /\ DOMAIN mods = 1 .. Len(mods) /\ DOMAIN mods' = 1 .. Len(mods')
<1>1. step = "exec" /\ mods # << >> /\ exec(Head(mods)) /\ mods' = Tail(mods)
          /\ UNCHANGED <<step, ram, mem_max, mem_off, tables, g_dir, shared>>
  BY DEF Load, boot
<1>2. PICK S : S = [start : Nat, len : Lengths]
  OBVIOUS
<1>3. mods \in Seq(S) /\ tasks \in Seq([mem : Seq(Nat), dir : Nat, tab : Nat, stack : Nat])
  BY <1>2 DEF MemInv, TypeOK
<1>4. /\ Len(mods) \in Nat \ {0} /\ Head(mods) = mods[1] /\ mods[1] \in S
      /\ mods' \in Seq(S) /\ Len(mods') = Len(mods) - 1
      /\ \A i \in 1 .. Len(mods) - 1 : mods'[i] = mods[i + 1]
  BY <1>1, <1>3, Rest
<1>5. \A i \in 1 .. Len(mods') : i + 1 \in 1 .. Len(mods) /\ mods'[i] = mods[i + 1]
  BY <1>4
<1>6. Len(tasks) \in Nat /\ DOMAIN mods = 1 .. Len(mods) /\ DOMAIN mods' = 1 .. Len(mods')
  BY <1>3, <1>4
<1> QED BY <1>1, <1>2, <1>3, <1>4, <1>5, <1>6

\* What exec has done to a module it accepts: the image is recorded where GRUB put
\* it, and the three frames are the next ones.
Recorded(m, list) ==
    /\ list = [i \in 1 .. Frames(m.len) |-> addr2pag(m.start) + i - 1]
    /\ mem_map' = mem_map \cup {Top, Top + 1, Top + 2}
    /\ tasks' = Append(tasks, [mem |-> list, dir |-> Top, tab |-> Top + 1, stack |-> Top + 2])
    /\ dir_user' = Append(dir_user, {0})
    /\ tab_user' = Append(tab_user, {V_USER + i - 1 : i \in 1 .. Frames(m.len)} \cup {V_STACK})
    /\ granted' = Append(granted, {}) /\ eax' = Append(eax, 0)

LEMMA ExecRecords ==
    ASSUME MemInv, Load, Frames(mods[1].len) <= MAX_PAG_DRIVER
    PROVE  \E list : Recorded(mods[1], list)
<1> DEFINE m == mods[1]
           list == [i \in 1 .. Frames(m.len) |-> addr2pag(m.start) + i - 1]
           ps == Taken(3, mem_map \cup SetOf(list))
<1>1. /\ step = "exec" /\ exec(m) /\ m \in [start : Nat, len : Lengths]
      /\ Len(mods) \in Nat \ {0} /\ Len(tasks) \in Nat
      /\ DOMAIN mods = 1 .. Len(mods)
  BY BeforeLoad
<1>2. ~(Frames(m.len) > MAX_PAG_DRIVER)
  <2>1. Frames(m.len) \in Nat
    BY <1>1, ImageNotEmpty
  <2> QED BY <2>1, Sizes
<1>3. /\ mem_map' = mem_map \cup SetOf(list) \cup SetOf(ps)
      /\ tasks' = Append(tasks, [mem |-> list, dir |-> ps[0], tab |-> ps[1], stack |-> ps[2]])
      /\ dir_user' = Append(dir_user, {0})
      /\ tab_user' = Append(tab_user, {V_USER + i - 1 : i \in 1 .. Frames(m.len)} \cup {V_STACK})
      /\ granted' = Append(granted, {}) /\ eax' = Append(eax, 0)
  BY <1>1, <1>2, Zenon DEF exec
<1>4. SetOf(list) = Image(m)
  <2> HIDE DEF list
  <2>1. list = [i \in 1 .. Frames(m.len) |-> addr2pag(m.start) + i - 1]
    BY DEF list
  <2> HIDE DEF m
  <2> QED BY <1>1, <2>1, ImageListed
<1>5. /\ ram \in RamBytes /\ mem_off \in Nat /\ Room /\ mem_max = ram \div PAG_LEN
      /\ KernelIni .. Top - 1 \subseteq mem_map /\ mem_map \subseteq 0 .. Top - 1
      /\ Image(m) \subseteq KernelFin + 1 .. mem_off - 1
  <2>1. 1 \in DOMAIN mods
    BY <1>1
  <2> QED BY <1>1, <2>1 DEF MemInv, Marked, FindsAllMemory, ImagesApart
<1>6. Top \in Nat /\ mem_off <= Top /\ Top + 3 <= Top + 3 * Len(mods) /\ KernelFin + 2 <= mem_off
  <2>1. Top \in Nat /\ mem_off + CAN_TAB_PAG + 1 <= Top /\ KernelFin + 2 <= mem_off
    BY <1>1, <1>5, RoomInMemory
  <2> QED BY <1>1, <1>5, <2>1, Sizes
<1>7. mem_map \cup Image(m) = mem_map
  BY <1>5, <1>6, Sizes
<1>8. ps = Row(Top, 3)
  <2>1. PICK n \in Nat, first \in Nat : n = 3 /\ first = Top
    BY <1>6
  <2>2. mem_off <= first /\ first + n <= Top + 3 * Len(mods) /\ Len(mods) \in Nat /\ step # "mem_off"
        /\ KernelIni .. first - 1 \subseteq mem_map /\ mem_map \subseteq 0 .. first - 1
    BY <1>1, <1>5, <1>6, <2>1
  <2>3. Taken(n, mem_map) = Row(first, n)
    BY <1>1, <1>5, <2>2, BootTakes
  <2> HIDE DEF list
  <2> QED BY <1>4, <1>7, <2>1, <2>3
<1> HIDE DEF ps
<1>9. ps[0] = Top /\ ps[1] = Top + 1 /\ ps[2] = Top + 2 /\ SetOf(ps) = {Top, Top + 1, Top + 2}
  <2>1. ps = [i \in 0 .. 2 |-> Top + i]
    BY <1>8 DEF Row
  <2>2. 0 .. 2 = {0, 1, 2}
    OBVIOUS
  <2>3. ps = [i \in {0, 1, 2} |-> Top + i]
    BY <2>1, <2>2
  <2>4. ps[0] = Top /\ ps[1] = Top + 1 /\ ps[2] = Top + 2 /\ DOMAIN ps = {0, 1, 2}
    BY <1>6, <2>3
  <2> HIDE DEF ps
  <2> QED BY <2>4 DEF SetOf
<1>10. Recorded(m, list)
  <2>1. mem_map' = mem_map \cup {Top, Top + 1, Top + 2}
    BY <1>3, <1>4, <1>7, <1>9
  <2>2. tasks' = Append(tasks, [mem |-> list, dir |-> Top, tab |-> Top + 1, stack |-> Top + 2])
    BY <1>3, <1>9
  <2> QED BY <1>3, <2>1, <2>2, Zenon DEF Recorded
<1> QED BY <1>10

\* Modules may leave the list, or change places in it, without anything else.
LEMMA FewerModules ==
    ASSUME MemInv, step = "exec",
           UNCHANGED <<step, ram, mem_max, mem_off, mem_map, tables, g_dir, tasks, dir_user, tab_user, shared, granted, eax>>,
           NEW k \in Nat, k <= Len(mods), mods' \in Seq([start : Nat, len : Lengths]), Len(mods') = k,
           NEW f \in [1 .. k -> 1 .. Len(mods)], \A i, j \in 1 .. k : i # j => f[i] # f[j],
           \A i \in 1 .. k : mods'[i] = mods[f[i]]
    PROVE  MemInv'
<1>1. /\ step = "exec"
      /\ UNCHANGED <<step, ram, mem_max, mem_off, tables, g_dir, shared>>
      /\ mods' \in Seq([start : Nat, len : Lengths]) /\ mods \in Seq([start : Nat, len : Lengths])
      /\ Len(mods) \in Nat /\ Len(mods') \in Nat /\ Len(tasks) \in Nat /\ Len(mods') <= Len(mods)
      /\ DOMAIN mods = 1 .. Len(mods) /\ DOMAIN mods' = 1 .. Len(mods')
  BY DEF MemInv, TypeOK
<1>2. UNCHANGED <<mem_map, tasks, dir_user, tab_user, granted, eax>>
  OBVIOUS
<1>3. Top' = Top /\ Loaded' = Loaded /\ Top \in Nat
  <2>1. Top' = Top /\ Loaded' = Loaded
    BY <1>1, <1>2 DEF Top, Loaded
  <2>2. Top \in Nat
    BY <1>1, RoomInMemory DEF MemInv
  <2> QED BY <2>1, <2>2
<1>4. Room'
  <2>1. KernelFin + 2 <= mem_off /\ PAG_LEN * (Top + 3 * Len(mods) + SEC_MEM) <= ram
    BY <1>1 DEF MemInv, Room
  <2>2. PAG_LEN * (Top + 3 * Len(mods') + SEC_MEM) <= ram
    <3>0. PICK o \in Nat, p \in Nat, q \in Nat : o = Top /\ p = Len(mods') /\ q = Len(mods) /\ p <= q
      BY <1>1, <1>3
    <3>1. PICK a \in Nat, b \in Nat : a = o + 3 * p + SEC_MEM /\ b = o + 3 * q + SEC_MEM
      BY Sizes
    <3>2. PAG_LEN * a <= PAG_LEN * b
      <4>1. a <= b
        BY <3>0, <3>1, Sizes
      <4> QED BY <4>1, Scaled, Sizes
    <3>3. PICK x \in Nat, y \in Nat : x = PAG_LEN * a /\ y = PAG_LEN * b
      BY Sizes
    <3>4. ram \in Nat
      BY MemAssumption, Sizes DEF MemInv
    <3> QED BY <2>1, <3>0, <3>1, <3>2, <3>3, <3>4
  <2> QED BY <1>1, <1>3, <2>1, <2>2 DEF Room
<1>5. ImagesApart'
  <2>1. \A i \in DOMAIN mods' : f[i] \in DOMAIN mods /\ mods'[i] = mods[f[i]]
    BY <1>1
  <2>2. \A i \in DOMAIN mods' : Image(mods'[i]) = Image(mods[f[i]])
    BY <2>1
  <2>3. \A i, j \in DOMAIN mods' : i # j => f[i] # f[j]
    BY <1>1
  <2>4. step # "mem_off"
    BY <1>1
  <2>5. /\ \A i \in DOMAIN mods : Image(mods[i]) \subseteq KernelFin + 1 .. mem_off - 1
        /\ \A i, j \in DOMAIN mods : i # j => Image(mods[i]) \cap Image(mods[j]) = {}
        /\ \A t \in Loaded : SetOf(tasks[t].mem) \subseteq KernelFin + 1 .. mem_off - 1
        /\ \A t \in Loaded, i \in DOMAIN mods : SetOf(tasks[t].mem) \cap Image(mods[i]) = {}
        /\ \A s, t \in Loaded : s # t => SetOf(tasks[s].mem) \cap SetOf(tasks[t].mem) = {}
    BY <2>4 DEF MemInv, ImagesApart
  <2>6. \A i \in DOMAIN mods' : Image(mods'[i]) \subseteq KernelFin + 1 .. mem_off - 1
    BY <2>1, <2>2, <2>5
  <2>7. \A i, j \in DOMAIN mods' : i # j => Image(mods'[i]) \cap Image(mods'[j]) = {}
    BY <2>1, <2>2, <2>3, <2>5
  <2>8. \A t \in Loaded' : SetOf(tasks'[t].mem) \subseteq KernelFin + 1 .. mem_off - 1
    BY <1>2, <1>3, <2>5
  <2>9. \A t \in Loaded', i \in DOMAIN mods' : SetOf(tasks'[t].mem) \cap Image(mods'[i]) = {}
    BY <1>2, <1>3, <2>1, <2>2, <2>5
  <2>10. \A s, t \in Loaded' : s # t => SetOf(tasks'[s].mem) \cap SetOf(tasks'[t].mem) = {}
    BY <1>2, <1>3, <2>5
  <2> QED BY <1>1, <2>4, <2>6, <2>7, <2>8, <2>9, <2>10 DEF ImagesApart
<1>6. TypeOK'
  BY <1>1, <1>2 DEF MemInv, TypeOK
<1>7. Marked'
  BY <1>1, <1>2, <1>3, Zenon DEF MemInv, Marked
<1>8. Placed'
  <2>1. /\ g_dir = mem_off /\ tables = [i \in 0 .. CAN_TAB_PAG - 1 |-> mem_off + 1 + i]
        /\ \A t \in Loaded :
             LET first == mem_off + CAN_TAB_PAG + 1 + 3 * (t - 1) IN
             /\ tasks[t].dir = first /\ tasks[t].tab = first + 1 /\ tasks[t].stack = first + 2
             /\ \E pag \in 0 .. MAX_PAG_DRIVER : DOMAIN tasks[t].mem = 1 .. pag
    BY <1>1 DEF MemInv, Placed
  <2> QED BY <1>1, <1>2, <1>3, <2>1 DEF Placed
<1>9. Granted'
  <2>1. Granted
    BY DEF MemInv
  <2> QED BY <1>1, <1>2, <1>3, <2>1 DEF Granted
<1>10. FindsAllMemory' /\ GivesUpWhenFull'
  BY <1>1, <1>2, <1>3 DEF MemInv, FindsAllMemory, GivesUpWhenFull
<1> QED BY <1>1, <1>4, <1>5, <1>6, <1>7, <1>8, <1>9, <1>10 DEF MemInv

\* A module that is too long only leaves the list.
LEMMA RefuseStep ==
    ASSUME MemInv, Load, ~(Frames(mods[1].len) <= MAX_PAG_DRIVER)
    PROVE  MemInv'
<1>1. /\ step = "exec" /\ exec(mods[1])
      /\ UNCHANGED <<step, ram, mem_max, mem_off, tables, g_dir, shared>>
      /\ mods' \in Seq([start : Nat, len : Lengths]) /\ Len(mods') = Len(mods) - 1
      /\ \A i \in 1 .. Len(mods') : i + 1 \in 1 .. Len(mods) /\ mods'[i] = mods[i + 1]
      /\ Len(mods) \in Nat \ {0}
  BY BeforeLoad
<1>2. UNCHANGED <<mem_map, tasks, dir_user, tab_user, granted, eax>>
  <2>1. Frames(mods[1].len) > MAX_PAG_DRIVER
    <3>1. Frames(mods[1].len) \in Nat
      BY BeforeLoad, ImageNotEmpty
    <3> QED BY <3>1, Sizes
  <2> QED BY <1>1, <2>1, Zenon DEF exec
<1>3. PICK k \in Nat : k = Len(mods') /\ k <= Len(mods)
  BY <1>1
<1>4. PICK f \in [1 .. k -> 1 .. Len(mods)] : \A i \in 1 .. k : f[i] = i + 1
  <2>1. [i \in 1 .. k |-> i + 1] \in [1 .. k -> 1 .. Len(mods)]
    BY <1>1, <1>3
  <2> QED BY <2>1
<1>5. \A i, j \in 1 .. k : i # j => f[i] # f[j]
  BY <1>4
<1>6. \A i \in 1 .. k : mods'[i] = mods[f[i]]
  BY <1>1, <1>3, <1>4
<1> QED BY <1>1, <1>2, <1>3, <1>5, <1>6, FewerModules

\* A module that is loaded takes its image and the next three frames.
LEMMA AcceptStep ==
    ASSUME MemInv, Load, Frames(mods[1].len) <= MAX_PAG_DRIVER
    PROVE  MemInv'
<1>1. /\ step = "exec" /\ mods # << >> /\ mods' = Tail(mods)
      /\ UNCHANGED <<step, ram, mem_max, mem_off, tables, g_dir, shared>>
      /\ mods \in Seq([start : Nat, len : Lengths])
      /\ mods' \in Seq([start : Nat, len : Lengths]) /\ Len(mods') = Len(mods) - 1
      /\ \A i \in 1 .. Len(mods') : i + 1 \in 1 .. Len(mods) /\ mods'[i] = mods[i + 1]
      /\ Len(mods) \in Nat \ {0}
      /\ DOMAIN mods = 1 .. Len(mods) /\ DOMAIN mods' = 1 .. Len(mods')
  BY BeforeLoad
<1>2. PICK m \in [start : Nat, len : Lengths] : m = mods[1]
  BY BeforeLoad
<1>3. PICK list : Recorded(m, list)
  BY <1>2, ExecRecords
<1>4. list \in Seq(Nat) /\ SetOf(list) = Image(m) /\ DOMAIN list = 1 .. Frames(m.len) /\ Frames(m.len) \in 0 .. MAX_PAG_DRIVER
  <2>1. list = [i \in 1 .. Frames(m.len) |-> addr2pag(m.start) + i - 1]
    BY <1>3 DEF Recorded
  <2>2. Frames(m.len) \in Nat
    BY ImageNotEmpty
  <2> QED BY <1>2, <2>1, <2>2, ImageListed, Sizes
<1>5. PICK N \in Nat : N = Len(tasks)
  BY BeforeLoad
<1>6. /\ Top \in Nat /\ Top = mem_off + CAN_TAB_PAG + 1 + 3 * N /\ mem_off \in Nat
      /\ Top + 3 * Len(mods) + SEC_MEM <= ram \div PAG_LEN
      /\ ram \div PAG_LEN <= CAN_TAB_PAG * TAB_PAG_LEN /\ ram \div PAG_LEN \in Nat
      /\ mem_off + CAN_TAB_PAG + 1 <= Top /\ KernelFin + 2 <= mem_off
  <2>1. ram \in RamBytes /\ mem_off \in Nat /\ Room /\ Len(mods) \in Nat /\ Len(tasks) \in Nat /\ step # "mem_off"
    BY <1>1, <1>5 DEF MemInv
  <2> QED BY <1>5, <2>1, RoomInMemory DEF Top
<1> DEFINE Task == [mem : Seq(Nat), dir : Nat, tab : Nat, stack : Nat]
           e == [mem |-> list, dir |-> Top, tab |-> Top + 1, stack |-> Top + 2]
           w == {V_USER + i - 1 : i \in 1 .. Frames(m.len)} \cup {V_STACK}
<1>7. e \in Task
  BY <1>4, <1>6
<1>8. w \in SUBSET (0 .. TAB_PAG_LEN - 1)
  <2>1. \A i \in 1 .. Frames(m.len) : V_USER + i - 1 \in 0 .. TAB_PAG_LEN - 1
    BY <1>4, Sizes
  <2> QED BY <2>1, Sizes
<1>9. /\ tasks \in Seq(Task) /\ dir_user \in Seq(SUBSET Nat) /\ tab_user \in Seq(SUBSET (0 .. TAB_PAG_LEN - 1))
      /\ granted \in Seq(SUBSET Nat) /\ eax \in Seq(Int)
      /\ Len(dir_user) = N /\ Len(tab_user) = N /\ Len(granted) = N /\ Len(eax) = N
  BY <1>5 DEF MemInv, TypeOK
<1>10. /\ tasks' = Append(tasks, e) /\ dir_user' = Append(dir_user, {0}) /\ tab_user' = Append(tab_user, w)
       /\ granted' = Append(granted, {}) /\ eax' = Append(eax, 0)
       /\ mem_map' = mem_map \cup {Top, Top + 1, Top + 2}
  BY <1>3, Zenon DEF Recorded
<1>11. /\ tasks' \in Seq(Task) /\ Len(tasks') = N + 1 /\ tasks'[N + 1] = e
       /\ \A t \in 1 .. N : tasks'[t] = tasks[t]
  <2> HIDE DEF Task, e
  <2> QED BY <1>5, <1>7, <1>9, <1>10, Longer
<1>12. /\ dir_user' \in Seq(SUBSET Nat) /\ Len(dir_user') = N + 1 /\ dir_user'[N + 1] = {0}
       /\ \A t \in 1 .. N : dir_user'[t] = dir_user[t]
  <2>1. {0} \in SUBSET Nat
    OBVIOUS
  <2> QED BY <1>9, <1>10, <2>1, Longer
<1>13. /\ tab_user' \in Seq(SUBSET (0 .. TAB_PAG_LEN - 1)) /\ Len(tab_user') = N + 1 /\ tab_user'[N + 1] = w
       /\ \A t \in 1 .. N : tab_user'[t] = tab_user[t]
  <2>1. PICK S : S = SUBSET (0 .. TAB_PAG_LEN - 1)
    OBVIOUS
  <2>2. PICK x : x = w
    OBVIOUS
  <2>3. tab_user \in Seq(S) /\ x \in S /\ tab_user' = Append(tab_user, x) /\ Len(tab_user) = N
    BY <1>8, <1>9, <1>10, <2>1, <2>2
  <2>4. /\ tab_user' \in Seq(S) /\ Len(tab_user') = N + 1 /\ tab_user'[N + 1] = x
        /\ \A t \in 1 .. N : tab_user'[t] = tab_user[t]
    BY <1>5, <2>3, Longer
  <2> QED BY <2>1, <2>2, <2>4
<1>14. /\ granted' \in Seq(SUBSET Nat) /\ Len(granted') = N + 1 /\ granted'[N + 1] = {}
       /\ \A t \in 1 .. N : granted'[t] = granted[t]
  <2>1. {} \in SUBSET Nat
    OBVIOUS
  <2> QED BY <1>9, <1>10, <2>1, Longer
<1>15. /\ eax' \in Seq(Int) /\ Len(eax') = N + 1 /\ eax'[N + 1] = 0
       /\ \A t \in 1 .. N : eax'[t] = eax[t]
  <2>1. PICK x \in Int : x = 0
    OBVIOUS
  <2>2. eax \in Seq(Int) /\ eax' = Append(eax, x) /\ Len(eax) = N
    BY <1>9, <1>10, <2>1
  <2>3. /\ eax' \in Seq(Int) /\ Len(eax') = N + 1 /\ eax'[N + 1] = x
        /\ \A t \in 1 .. N : eax'[t] = eax[t]
    BY <1>5, <2>2, Longer
  <2> QED BY <2>1, <2>3
<1>16. Loaded = 1 .. N /\ Loaded' = 1 .. N + 1 /\ Loaded' = Loaded \cup {N + 1}
  <2>1. Loaded = 1 .. N /\ Loaded' = 1 .. N + 1
    BY <1>5, <1>11 DEF Loaded
  <2>2. 1 .. N + 1 = (1 .. N) \cup {N + 1}
    BY <1>5
  <2> QED BY <2>1, <2>2
<1>17. Top' = Top + 3
  BY <1>1, <1>5, <1>6, <1>11, Sizes DEF Top
<1>18. Room'
  <2>1. Top' + 3 * Len(mods') + SEC_MEM = Top + 3 * Len(mods) + SEC_MEM
    BY <1>1, <1>6, <1>17, Sizes
  <2> QED BY <1>1, <2>1 DEF MemInv, Room
<1>19. Marked'
  <2>1. KernelIni .. Top - 1 \subseteq mem_map /\ mem_map \subseteq 0 .. Top - 1
    BY <1>1 DEF MemInv, Marked
  <2>2. KernelIni .. Top' - 1 \subseteq mem_map' /\ mem_map' \subseteq 0 .. Top' - 1
    BY <1>6, <1>10, <1>17, <2>1, Sizes
  <2> QED BY <1>1, <2>2 DEF Marked
<1>20. TypeOK'
  <2>1. mem_map' \subseteq AddressSpace
    <3>1. PICK a \in Nat : a = CAN_TAB_PAG * TAB_PAG_LEN
      BY Sizes
    <3>2. Top' <= a
      BY <1>1, <1>6, <1>17, <3>1, Sizes
    <3>3. mem_map' \subseteq 0 .. Top' - 1
      BY <1>1, <1>19 DEF Marked
    <3>4. AddressSpace = 0 .. a - 1
      BY <3>1 DEF AddressSpace
    <3>5. PICK b \in Nat : b = Top' /\ b <= a
      BY <1>6, <1>17, <3>2
    <3>6. mem_map' \subseteq 0 .. b - 1
      BY <3>3, <3>5
    <3>7. b <= a
      BY <3>5
    <3>8. a \in Int /\ b \in Int
      OBVIOUS
    <3>9. 0 .. b - 1 \subseteq 0 .. a - 1
      BY <3>7, <3>8, Fewer
    <3> QED BY <3>4, <3>6, <3>9
  <2>2. shared' \subseteq AddressSpace \ (0 .. TAB_PAG_LEN - 1) /\ step' \in {"mem_off", "ini_mm", "ini_pag", "exec", "run"}
    BY <1>1 DEF MemInv, TypeOK
  <2> QED BY <1>11, <1>12, <1>13, <1>14, <1>15, <2>1, <2>2 DEF TypeOK
<1>21. ImagesApart'
  <2>1. \A i \in DOMAIN mods' : i + 1 \in DOMAIN mods /\ mods'[i] = mods[i + 1] /\ i \in Nat /\ i + 1 # 1
    BY <1>1
  <2>2. \A i \in DOMAIN mods' : Image(mods'[i]) = Image(mods[i + 1])
    BY <2>1
  <2>3. \A i, j \in DOMAIN mods' : i # j => i + 1 # j + 1
    BY <2>1
  <2>4. step # "mem_off" /\ 1 \in DOMAIN mods
    BY <1>1
  <2>5. SetOf(tasks'[N + 1].mem) = Image(mods[1])
    BY <1>2, <1>4, <1>11
  <2>6. \A t \in Loaded : tasks'[t] = tasks[t]
    BY <1>11, <1>16
  <2>7. /\ \A i \in DOMAIN mods : Image(mods[i]) \subseteq KernelFin + 1 .. mem_off - 1
        /\ \A i, j \in DOMAIN mods : i # j => Image(mods[i]) \cap Image(mods[j]) = {}
        /\ \A t \in Loaded : SetOf(tasks[t].mem) \subseteq KernelFin + 1 .. mem_off - 1
        /\ \A t \in Loaded, i \in DOMAIN mods : SetOf(tasks[t].mem) \cap Image(mods[i]) = {}
        /\ \A s, t \in Loaded : s # t => SetOf(tasks[s].mem) \cap SetOf(tasks[t].mem) = {}
    BY <2>4 DEF MemInv, ImagesApart
  <2>8. \A i \in DOMAIN mods' : Image(mods'[i]) \subseteq KernelFin + 1 .. mem_off - 1
    BY <2>1, <2>2, <2>7
  <2>9. \A i, j \in DOMAIN mods' : i # j => Image(mods'[i]) \cap Image(mods'[j]) = {}
    BY <2>1, <2>2, <2>3, <2>7
  <2>10. \A t \in Loaded' : SetOf(tasks'[t].mem) \subseteq KernelFin + 1 .. mem_off - 1
    BY <1>16, <2>4, <2>5, <2>6, <2>7
  <2>11. \A t \in Loaded', i \in DOMAIN mods' : SetOf(tasks'[t].mem) \cap Image(mods'[i]) = {}
    BY <1>16, <2>1, <2>2, <2>4, <2>5, <2>6, <2>7
  <2>12. \A s, t \in Loaded' : s # t => SetOf(tasks'[s].mem) \cap SetOf(tasks'[t].mem) = {}
    BY <1>16, <2>4, <2>5, <2>6, <2>7
  <2> QED BY <1>1, <2>4, <2>8, <2>9, <2>10, <2>11, <2>12 DEF ImagesApart
<1>22. Placed'
  <2>1. g_dir' = mem_off' /\ tables' = [i \in 0 .. CAN_TAB_PAG - 1 |-> mem_off' + 1 + i]
    BY <1>1 DEF MemInv, Placed
  <2>2. ASSUME NEW t \in Loaded'
        PROVE  /\ tasks'[t].dir = mem_off + CAN_TAB_PAG + 1 + 3 * (t - 1)
               /\ tasks'[t].tab = mem_off + CAN_TAB_PAG + 1 + 3 * (t - 1) + 1
               /\ tasks'[t].stack = mem_off + CAN_TAB_PAG + 1 + 3 * (t - 1) + 2
               /\ \E pag \in 0 .. MAX_PAG_DRIVER : DOMAIN tasks'[t].mem = 1 .. pag
    <3>1. CASE t \in Loaded
      BY <1>11, <1>16, <3>1 DEF MemInv, Placed
    <3>2. CASE t = N + 1
      <4>1. /\ tasks'[t].dir = Top /\ tasks'[t].tab = Top + 1 /\ tasks'[t].stack = Top + 2
            /\ tasks'[t].mem = list
        BY <1>11, <3>2
      <4>2. t - 1 = N
        BY <3>2
      <4> QED BY <1>4, <1>6, <4>1, <4>2
    <3> QED BY <1>16, <3>1, <3>2
  <2>3. step' = "exec"
    BY <1>1
  <2> QED BY <1>1, <2>1, <2>2, <2>3 DEF Placed
<1>23. Granted'
  <2>1. \A t \in Loaded' : granted'[t] = {}
    BY <1>1, <1>14, <1>16 DEF MemInv, Granted
  <2>2. shared' = {}
    <3>1. \A t \in Loaded : granted[t] = {}
      BY <1>1 DEF MemInv, Granted
    <3>2. shared = {p \in UNION {granted[t] : t \in Loaded} : p >= TAB_PAG_LEN}
      BY DEF MemInv, Granted
    <3> QED BY <1>1, <3>1, <3>2
  <2>3. ASSUME NEW t \in Loaded'
        PROVE  /\ dir_user'[t] = {0}
               /\ tab_user'[t] = {V_USER + i - 1 : i \in DOMAIN tasks'[t].mem} \cup {V_STACK}
    <3>1. CASE t \in Loaded
      <4>1. /\ granted[t] = {}
            /\ dir_user[t] = {0} \cup {p \div TAB_PAG_LEN : p \in granted[t]}
            /\ tab_user[t] = {V_USER + i - 1 : i \in DOMAIN tasks[t].mem} \cup {V_STACK}
                                 \cup {p \in granted[t] : p < TAB_PAG_LEN}
        BY <1>1, <3>1 DEF MemInv, Granted
      <4> QED BY <1>11, <1>12, <1>13, <1>16, <3>1, <4>1
    <3>2. CASE t = N + 1
      <4>1. DOMAIN tasks'[t].mem = 1 .. Frames(m.len)
        BY <1>4, <1>11, <3>2
      <4> QED BY <1>12, <1>13, <3>2, <4>1
    <3> QED BY <1>16, <3>1, <3>2
  <2>4. \A t \in Loaded' :
          /\ dir_user'[t] = {0} \cup {p \div TAB_PAG_LEN : p \in granted'[t]}
          /\ tab_user'[t] = {V_USER + i - 1 : i \in DOMAIN tasks'[t].mem} \cup {V_STACK}
                               \cup {p \in granted'[t] : p < TAB_PAG_LEN}
    BY <2>1, <2>3
  <2>5. shared' = {p \in UNION {granted'[t] : t \in Loaded'} : p >= TAB_PAG_LEN}
    BY <2>1, <2>2
  <2> QED BY <2>1, <2>4, <2>5 DEF Granted
<1>24. FindsAllMemory' /\ GivesUpWhenFull'
  <2>1. FindsAllMemory'
    BY <1>1 DEF MemInv, FindsAllMemory
  <2>2. ASSUME NEW t \in Loaded', eax'[t] = -1
        PROVE  mem_off .. SEC_MEM * (mem_max \div SEC_MEM) - 1 \subseteq mem_map'
    <3>1. t \in Loaded /\ eax[t] = -1
      BY <1>15, <1>16, <2>2
    <3> QED BY <1>10, <3>1 DEF MemInv, GivesUpWhenFull
  <2> QED BY <1>1, <2>1, <2>2 DEF GivesUpWhenFull
<1> QED BY <1>1, <1>18, <1>19, <1>20, <1>21, <1>22, <1>23, <1>24 DEF MemInv


LEMMA LoadStep == MemInv /\ Load => MemInv'
BY RefuseStep, AcceptStep

\* What stays of ImagesApart, Placed and TypeOK when no image moves.
LEMMA ImagesStay ==
    ASSUME ImagesApart, step # "mem_off", step' # "mem_off", UNCHANGED <<mods, tasks, mem_off>>
    PROVE  ImagesApart'
<1>1. /\ \A i \in DOMAIN mods : Image(mods[i]) \subseteq KernelFin + 1 .. mem_off - 1
      /\ \A i, j \in DOMAIN mods : i # j => Image(mods[i]) \cap Image(mods[j]) = {}
      /\ \A t \in Loaded : SetOf(tasks[t].mem) \subseteq KernelFin + 1 .. mem_off - 1
      /\ \A t \in Loaded, i \in DOMAIN mods : SetOf(tasks[t].mem) \cap Image(mods[i]) = {}
      /\ \A s, t \in Loaded : s # t => SetOf(tasks[s].mem) \cap SetOf(tasks[t].mem) = {}
  BY DEF ImagesApart
<1>2. Loaded' = Loaded
  BY DEF Loaded
<1> QED BY <1>1, <1>2 DEF ImagesApart

LEMMA PlacedStays ==
    ASSUME Placed, step \in {"exec", "run"}, step' \in {"exec", "run"}, step' = "run" => mods = << >>,
           UNCHANGED <<mods, tasks, mem_off, tables, g_dir>>
    PROVE  Placed'
<1>1. /\ g_dir = mem_off /\ tables = [i \in 0 .. CAN_TAB_PAG - 1 |-> mem_off + 1 + i]
      /\ \A t \in Loaded :
           LET first == mem_off + CAN_TAB_PAG + 1 + 3 * (t - 1) IN
           /\ tasks[t].dir = first /\ tasks[t].tab = first + 1 /\ tasks[t].stack = first + 2
           /\ \E pag \in 0 .. MAX_PAG_DRIVER : DOMAIN tasks[t].mem = 1 .. pag
  BY DEF Placed
<1>2. Loaded' = Loaded
  BY DEF Loaded
<1> QED BY <1>1, <1>2 DEF Placed

\* Releasing the text screen takes no frame from the kernel, and none that is
\* granted: no task has run yet.
LEMMA ControlStep == MemInv /\ task_control => MemInv'
<1> SUFFICES ASSUME MemInv, task_control PROVE MemInv'
  OBVIOUS
<1>1. /\ step = "exec" /\ mods = << >> /\ step' = "run" /\ mem_map' = mem_map \ VideoText
      /\ UNCHANGED <<ram, mem_max, mem_off, mods, tables, g_dir, tasks, dir_user, tab_user, shared, granted, eax>>
  BY DEF task_control, boot
<1>2. Top' = Top /\ Loaded' = Loaded /\ Len(mods) = 0
  BY <1>1 DEF Top, Loaded
<1>3. /\ Top \in Nat /\ KernelFin + 2 <= mem_off /\ mem_off \in Nat /\ ram \in RamBytes
      /\ Top + SEC_MEM <= ram \div PAG_LEN /\ ram \div PAG_LEN <= CAN_TAB_PAG * TAB_PAG_LEN
  <2>1. ram \in RamBytes /\ mem_off \in Nat /\ Len(tasks) \in Nat /\ Len(mods) = 0 /\ Room
    BY <1>2 DEF MemInv, TypeOK
  <2>2. Top \in Nat /\ KernelFin + 2 <= mem_off /\ Top + 3 * Len(mods) + SEC_MEM <= ram \div PAG_LEN
        /\ ram \div PAG_LEN <= CAN_TAB_PAG * TAB_PAG_LEN
    BY <1>1, <2>1, RoomInMemory
  <2> QED BY <2>1, <2>2, Sizes
<1>4. VideoText \subseteq 1 .. KernelIni - 1
  BY MemAssumption
<1>5. TypeOK'
  BY <1>1 DEF MemInv, TypeOK
<1>6. Room'
  BY <1>1, <1>2 DEF MemInv, Room
<1>7. ImagesApart'
  BY <1>1, ImagesStay DEF MemInv
<1>8. Marked'
  <2>1. KernelIni .. Top - 1 \subseteq mem_map /\ mem_map \subseteq AddressSpace
    BY <1>1 DEF MemInv, Marked, TypeOK
  <2>2. KernelIni .. Top - 1 \subseteq mem_map'
    BY <1>1, <1>3, <1>4, <2>1, Sizes
  <2> QED BY <1>1, <1>2, <2>1, <2>2 DEF Marked, AddressSpace
<1>9. Placed'
  BY <1>1, PlacedStays DEF MemInv
<1>10. Granted'
  <2>1. /\ \A t \in Loaded : granted[t] = {}
        /\ \A t \in Loaded :
             /\ dir_user[t] = {0} \cup {p \div TAB_PAG_LEN : p \in granted[t]}
             /\ tab_user[t] = {V_USER + i - 1 : i \in DOMAIN tasks[t].mem} \cup {V_STACK}
                                  \cup {p \in granted[t] : p < TAB_PAG_LEN}
        /\ shared = {p \in UNION {granted[t] : t \in Loaded} : p >= TAB_PAG_LEN}
    BY <1>1 DEF MemInv, Granted
  <2> QED BY <1>1, <1>2, <2>1 DEF Granted
<1>11. FindsAllMemory'
  BY <1>1 DEF MemInv, FindsAllMemory
<1>12. GivesUpWhenFull'
  <2>1. ASSUME NEW t \in Loaded, eax[t] = -1
        PROVE  mem_off .. SEC_MEM * (mem_max \div SEC_MEM) - 1 \subseteq mem_map \ VideoText
    <3>1. PICK hi \in Int : hi = SEC_MEM * (mem_max \div SEC_MEM)
      BY WholeChars DEF MemInv
    <3>2. mem_off .. hi - 1 \subseteq mem_map
      BY <2>1, <3>1 DEF MemInv, GivesUpWhenFull
    <3>3. \A p \in mem_off .. hi - 1 : p \notin VideoText
      BY <1>3, <1>4, Sizes
    <3> QED BY <3>1, <3>2, <3>3
  <2> QED BY <1>1, <1>2, <2>1 DEF GivesUpWhenFull
<1> QED BY <1>1, <1>5, <1>6, <1>7, <1>8, <1>9, <1>10, <1>11, <1>12 DEF MemInv

-----------------------------------------------------------------------------
(* SYS_MEM                                                                 *)

LEMMA Changed ==
    ASSUME NEW S, NEW s \in Seq(S), NEW i \in 1 .. Len(s), NEW e \in S, NEW r, r = [s EXCEPT ![i] = e]
    PROVE  r \in Seq(S) /\ Len(r) = Len(s) /\ r[i] = e /\ \A j \in 1 .. Len(s) : j # i => r[j] = s[j]
OBVIOUS

LEMMA Given ==
    ASSUME NEW S, NEW s \in Seq(SUBSET S), NEW i \in 1 .. Len(s), NEW e \in SUBSET S,
           NEW r, r = [s EXCEPT ![i] = @ \cup e]
    PROVE  /\ r \in Seq(SUBSET S) /\ Len(r) = Len(s) /\ r[i] = s[i] \cup e
           /\ \A j \in 1 .. Len(s) : j # i => r[j] = s[j]
OBVIOUS

LEMMA UnionGrows ==
    ASSUME NEW L, NEW t \in L, NEW f, NEW g, NEW p,
           g[t] = f[t] \cup {p}, \A u \in L : u # t => g[u] = f[u],
           NEW F, NEW G, F = UNION {f[u] : u \in L}, G = UNION {g[u] : u \in L}
    PROVE  G = F \cup {p}
<1>1. ASSUME NEW x \in G PROVE x \in F \cup {p}
  <2>1. PICK y \in {g[u] : u \in L} : x \in y
    OBVIOUS
  <2>2. PICK u \in L : y = g[u]
    OBVIOUS
  <2>3. x \in f[u] \/ x = p
    BY <2>1, <2>2
  <2>4. CASE x \in f[u]
    <3>1. f[u] \in {f[w] : w \in L}
      OBVIOUS
    <3>2. x \in F
      BY <2>4, <3>1
    <3> QED BY <3>2
  <2> QED BY <2>3, <2>4
<1>2. ASSUME NEW x \in F \cup {p} PROVE x \in G
  <2>1. CASE x = p
    <3>1. g[t] \in {g[w] : w \in L} /\ x \in g[t]
      BY <2>1
    <3> QED BY <3>1
  <2>2. CASE x \in F
    <3>1. PICK y \in {f[u] : u \in L} : x \in y
      BY <2>2
    <3>2. PICK u \in L : y = f[u]
      OBVIOUS
    <3>3. g[u] \in {g[w] : w \in L} /\ x \in g[u]
      BY <3>1, <3>2
    <3> QED BY <3>3
  <2> QED BY <2>1, <2>2
<1> QED BY <1>1, <1>2

\* What sys_mem finds: the frame it asks for, or the first free one.
Pedido(ebx) == IF ebx = 0 THEN buscar_mem(mem_map) ELSE ebx

LEMMA PedidoIs ==
    ASSUME MemInv, step = "run", NEW ebx \in Requests
    PROVE  \/ /\ Pedido(ebx) = 0
              /\ mem_off .. SEC_MEM * (mem_max \div SEC_MEM) - 1 \subseteq mem_map
           \/ Pedido(ebx) \in AddressSpace \ {0}
<1>1. /\ mem_off \in Nat /\ mem_max \in Nat /\ ram \in RamBytes /\ Room /\ mem_max = ram \div PAG_LEN
      /\ Len(tasks) \in Nat /\ mods = << >>
  BY DEF MemInv, TypeOK, FindsAllMemory, Placed
<1>2. KernelFin + 2 <= mem_off /\ ram \div PAG_LEN <= CAN_TAB_PAG * TAB_PAG_LEN
  BY <1>1, RoomInMemory
<1>3. PICK lo \in Nat, hi \in Int :
          /\ Searched = lo .. hi - 1 /\ KernelIni <= lo /\ lo <= mem_off
          /\ hi = SEC_MEM * (mem_max \div SEC_MEM) /\ mem_max - SEC_MEM < hi /\ hi <= mem_max
  BY <1>1, <1>2, SearchedIs
<1>4. PICK size \in Nat : size = CAN_TAB_PAG * TAB_PAG_LEN
  BY Sizes
<1>5. CASE ebx # 0
  <2>1. ebx \in AddressSpace
    BY MemAssumption DEF AddressSpace
  <2> QED BY <1>5, <2>1 DEF Pedido
<1>6. CASE ebx = 0
  <2>1. Pedido(ebx) = buscar_mem(mem_map)
    BY <1>6 DEF Pedido
  <2>2. \/ Searched \subseteq mem_map /\ buscar_mem(mem_map) = 0
        \/ buscar_mem(mem_map) \in Searched
    BY <1>3, Buscar
  <2>3. CASE Searched \subseteq mem_map /\ buscar_mem(mem_map) = 0
    <3>1. mem_off .. hi - 1 \subseteq mem_map
      BY <1>1, <1>3, <2>3
    <3> QED BY <1>3, <2>1, <2>3, <3>1
  <2>4. CASE buscar_mem(mem_map) \in Searched
    <3>1. PICK p \in lo .. hi - 1 : p = buscar_mem(mem_map)
      BY <1>3, <2>4
    <3>2. p \in 0 .. size - 1 /\ p # 0
      <4>1. PICK m \in Nat : m = mem_max
        BY <1>1
      <4>2. m <= size
        BY <1>1, <1>2, <1>4, <4>1
      <4>3. hi <= m /\ 1 <= lo
        BY <1>3, <4>1, Sizes
      <4> QED BY <1>4, <3>1, <4>2, <4>3
    <3> QED BY <1>4, <2>1, <3>1, <3>2 DEF AddressSpace
  <2> QED BY <2>2, <2>3, <2>4
<1> QED BY <1>5, <1>6

\* A request that fails only sets eax, to -1 or to -3.
LEMMA DeniedStep ==
    ASSUME MemInv, step = "run", NEW t \in Loaded, NEW code \in {-1, -3},
           code = -1 => mem_off .. SEC_MEM * (mem_max \div SEC_MEM) - 1 \subseteq mem_map,
           eax' = [eax EXCEPT ![t] = code],
           UNCHANGED <<step, ram, mem_max, mem_off, mods, mem_map, tables, g_dir, tasks,
                       dir_user, tab_user, shared, granted>>
    PROVE  MemInv'
<1>1. Top' = Top /\ Loaded' = Loaded
  BY DEF Top, Loaded
<1>2. eax \in Seq(Int) /\ t \in 1 .. Len(eax) /\ Loaded = 1 .. Len(eax)
  BY DEF MemInv, TypeOK, Loaded
<1>3. PICK c \in Int : c = code
  OBVIOUS
<1>4. /\ eax' \in Seq(Int) /\ Len(eax') = Len(eax) /\ eax'[t] = c
      /\ \A u \in 1 .. Len(eax) : u # t => eax'[u] = eax[u]
  BY <1>2, <1>3, Changed
<1>5. TypeOK'
  BY <1>4 DEF MemInv, TypeOK
<1>6. Room'
  BY <1>1 DEF MemInv, Room
<1>7. ImagesApart'
  BY ImagesStay DEF MemInv
<1>8. Marked'
  BY <1>1, Zenon DEF MemInv, Marked
<1>9. Placed'
  <2>1. mods = << >>
    BY DEF MemInv, Placed
  <2> QED BY <2>1, PlacedStays DEF MemInv
<1>10. Granted'
  <2>1. Granted
    BY DEF MemInv
  <2> QED BY <1>1, <2>1 DEF Granted
<1>11. FindsAllMemory'
  BY DEF MemInv, FindsAllMemory
<1>12. GivesUpWhenFull'
  <2>1. ASSUME NEW u \in Loaded, eax'[u] = -1
        PROVE  mem_off .. SEC_MEM * (mem_max \div SEC_MEM) - 1 \subseteq mem_map
    <3>1. CASE u = t
      BY <1>3, <1>4, <2>1, <3>1
    <3>2. CASE u # t
      <4>1. eax[u] = -1
        BY <1>2, <1>4, <2>1, <3>2
      <4> QED BY <4>1 DEF MemInv, GivesUpWhenFull
    <3> QED BY <3>1, <3>2
  <2> QED BY <1>1, <2>1 DEF GivesUpWhenFull
<1> QED BY <1>5, <1>6, <1>7, <1>8, <1>9, <1>10, <1>11, <1>12 DEF MemInv

\* A request that succeeds marks a free frame, and gives it and its bits to one task.
LEMMA GrantStep ==
    ASSUME MemInv, step = "run", NEW t \in Loaded, NEW p \in AddressSpace \ {0}, p \notin mem_map,
           mem_map' = mem_map \cup {p},
           dir_user' = [dir_user EXCEPT ![t] = @ \cup {p \div TAB_PAG_LEN}],
           IF p < TAB_PAG_LEN
           THEN tab_user' = [tab_user EXCEPT ![t] = @ \cup {p}] /\ shared' = shared
           ELSE shared' = shared \cup {p} /\ tab_user' = tab_user,
           granted' = [granted EXCEPT ![t] = @ \cup {p}],
           eax' = [eax EXCEPT ![t] = p],
           UNCHANGED <<step, ram, mem_max, mem_off, mods, tables, g_dir, tasks>>
    PROVE  MemInv'
<1>1. Top' = Top /\ Loaded' = Loaded /\ p \in Nat
  <2>1. PICK a \in Nat : a = CAN_TAB_PAG * TAB_PAG_LEN
    BY Sizes
  <2> QED BY <2>1 DEF Top, Loaded, AddressSpace
<1>2. PICK N \in Nat : N = Len(tasks)
  BY DEF MemInv, TypeOK
<1>3. /\ Loaded = 1 .. N /\ t \in 1 .. N
      /\ dir_user \in Seq(SUBSET Nat) /\ tab_user \in Seq(SUBSET (0 .. TAB_PAG_LEN - 1))
      /\ granted \in Seq(SUBSET Nat) /\ eax \in Seq(Int)
      /\ Len(dir_user) = N /\ Len(tab_user) = N /\ Len(granted) = N /\ Len(eax) = N
  BY <1>2 DEF MemInv, TypeOK, Loaded
<1>4. /\ dir_user' \in Seq(SUBSET Nat) /\ Len(dir_user') = N
      /\ dir_user'[t] = dir_user[t] \cup {p \div TAB_PAG_LEN}
      /\ \A u \in 1 .. N : u # t => dir_user'[u] = dir_user[u]
  <2>1. p \div TAB_PAG_LEN \in Nat
    BY <1>1, Sizes
  <2>2. PICK S, e : S = Nat /\ e = {p \div TAB_PAG_LEN}
    OBVIOUS
  <2>3. dir_user \in Seq(SUBSET S) /\ t \in 1 .. Len(dir_user) /\ e \in SUBSET S
    BY <1>3, <2>1, <2>2
  <2>4. dir_user' = [dir_user EXCEPT ![t] = @ \cup e]
    BY <2>2, Zenon
  <2>5. /\ dir_user' \in Seq(SUBSET S) /\ Len(dir_user') = Len(dir_user) /\ dir_user'[t] = dir_user[t] \cup e
        /\ \A u \in 1 .. Len(dir_user) : u # t => dir_user'[u] = dir_user[u]
    BY <2>3, <2>4, Given
  <2> QED BY <1>3, <2>2, <2>5
<1>5. /\ granted' \in Seq(SUBSET Nat) /\ Len(granted') = N
      /\ granted'[t] = granted[t] \cup {p}
      /\ \A u \in 1 .. N : u # t => granted'[u] = granted[u]
  <2>1. PICK S, e : S = Nat /\ e = {p}
    OBVIOUS
  <2>2. granted \in Seq(SUBSET S) /\ t \in 1 .. Len(granted) /\ e \in SUBSET S
    BY <1>1, <1>3, <2>1
  <2>3. granted' = [granted EXCEPT ![t] = @ \cup e]
    BY <2>1, Zenon
  <2>4. /\ granted' \in Seq(SUBSET S) /\ Len(granted') = Len(granted) /\ granted'[t] = granted[t] \cup e
        /\ \A u \in 1 .. Len(granted) : u # t => granted'[u] = granted[u]
    BY <2>2, <2>3, Given
  <2> QED BY <1>3, <2>1, <2>4
<1>6. /\ eax' \in Seq(Int) /\ Len(eax') = N /\ eax'[t] = p
      /\ \A u \in 1 .. N : u # t => eax'[u] = eax[u]
  <2>1. p \in Int
    BY <1>1
  <2> QED BY <1>3, <2>1, Changed
<1>7. /\ tab_user' \in Seq(SUBSET (0 .. TAB_PAG_LEN - 1)) /\ Len(tab_user') = N
      /\ tab_user'[t] = tab_user[t] \cup (IF p < TAB_PAG_LEN THEN {p} ELSE {})
      /\ \A u \in 1 .. N : u # t => tab_user'[u] = tab_user[u]
  <2>1. CASE p < TAB_PAG_LEN
    <3>1. PICK S, e : S = 0 .. TAB_PAG_LEN - 1 /\ e = {p}
      OBVIOUS
    <3>2. p \in S
      BY <1>1, <2>1, <3>1, Sizes
    <3>3. tab_user \in Seq(SUBSET S) /\ t \in 1 .. Len(tab_user) /\ e \in SUBSET S
      BY <1>3, <3>1, <3>2
    <3>4. tab_user' = [tab_user EXCEPT ![t] = @ \cup e]
      BY <2>1, <3>1, Zenon
    <3>5. /\ tab_user' \in Seq(SUBSET S) /\ Len(tab_user') = Len(tab_user) /\ tab_user'[t] = tab_user[t] \cup e
          /\ \A u \in 1 .. Len(tab_user) : u # t => tab_user'[u] = tab_user[u]
      BY <3>3, <3>4, Given
    <3> QED BY <1>3, <2>1, <3>1, <3>5
  <2>2. CASE ~(p < TAB_PAG_LEN)
    BY <1>3, <2>2
  <2> QED BY <2>1, <2>2
<1>8. shared' = shared \cup (IF p < TAB_PAG_LEN THEN {} ELSE {p})
  OBVIOUS
<1>9. TypeOK'
  <2>1. mem_map' \subseteq AddressSpace
    BY DEF MemInv, TypeOK
  <2>2. shared' \subseteq AddressSpace \ (0 .. TAB_PAG_LEN - 1)
    <3>1. ~(p < TAB_PAG_LEN) => p \notin 0 .. TAB_PAG_LEN - 1
      BY <1>1, Sizes
    <3> QED BY <1>8, <3>1 DEF MemInv, TypeOK
  <2>3. tasks' \in Seq([mem : Seq(Nat), dir : Nat, tab : Nat, stack : Nat]) /\ Len(tasks') = N
        /\ step' \in {"mem_off", "ini_mm", "ini_pag", "exec", "run"}
    BY <1>2 DEF MemInv, TypeOK
  <2> QED BY <1>4, <1>5, <1>6, <1>7, <2>1, <2>2, <2>3 DEF TypeOK
<1>10. Room' /\ FindsAllMemory'
  BY <1>1 DEF MemInv, Room, FindsAllMemory
<1>11. ImagesApart'
  BY ImagesStay DEF MemInv
<1>12. KernelIni .. Top - 1 \subseteq mem_map /\ mem_map \subseteq AddressSpace
  BY DEF MemInv, Marked
<1>13. Marked'
  <2>1. KernelIni .. Top' - 1 \subseteq mem_map' /\ mem_map' \subseteq AddressSpace
    BY <1>1, <1>12
  <2> QED BY <2>1 DEF Marked, AddressSpace
<1>14. Placed'
  <2>1. mods = << >>
    BY DEF MemInv, Placed
  <2> QED BY <2>1, PlacedStays DEF MemInv
<1>15. /\ \A u \in Loaded : granted[u] \subseteq mem_map \cap AddressSpace
       /\ \A u \in Loaded : granted[u] \cap (KernelIni .. Top - 1) = {}
       /\ \A s, u \in Loaded : s # u => granted[s] \cap granted[u] = {}
       /\ \A u \in Loaded :
            /\ dir_user[u] = {0} \cup {q \div TAB_PAG_LEN : q \in granted[u]}
            /\ tab_user[u] = {V_USER + i - 1 : i \in DOMAIN tasks[u].mem} \cup {V_STACK}
                                 \cup {q \in granted[u] : q < TAB_PAG_LEN}
       /\ shared = {q \in UNION {granted[u] : u \in Loaded} : q >= TAB_PAG_LEN}
  BY DEF MemInv, Granted
<1>16. p \notin KernelIni .. Top - 1 /\ \A u \in Loaded : p \notin granted[u]
  BY <1>12, <1>15
<1>17. \A u \in Loaded : granted'[u] \subseteq mem_map' \cap AddressSpace'
  BY <1>3, <1>5, <1>15 DEF AddressSpace
<1>18. \A u \in Loaded : granted'[u] \cap (KernelIni .. Top - 1) = {}
  BY <1>3, <1>5, <1>15, <1>16
<1>19. \A s, u \in Loaded : s # u => granted'[s] \cap granted'[u] = {}
  BY <1>3, <1>5, <1>15, <1>16
<1>20. ASSUME NEW u \in Loaded
       PROVE  dir_user'[u] = {0} \cup {q \div TAB_PAG_LEN : q \in granted'[u]}
  BY <1>3, <1>4, <1>5, <1>15
<1>21. ASSUME NEW u \in Loaded
       PROVE  tab_user'[u] = {V_USER + i - 1 : i \in DOMAIN tasks[u].mem} \cup {V_STACK}
                                 \cup {q \in granted'[u] : q < TAB_PAG_LEN}
  <2>1. PICK own : own = {V_USER + i - 1 : i \in DOMAIN tasks[u].mem} \cup {V_STACK}
    OBVIOUS
  <2>2. tab_user[u] = own \cup {q \in granted[u] : q < TAB_PAG_LEN}
    BY <1>15, <2>1
  <2>3. tab_user'[u] = own \cup {q \in granted'[u] : q < TAB_PAG_LEN}
    BY <1>3, <1>5, <1>7, <2>2
  <2> QED BY <2>1, <2>3
<1>22. shared' = {q \in UNION {granted'[u] : u \in Loaded} : q >= TAB_PAG_LEN}
  <2>2. p < TAB_PAG_LEN <=> ~(p >= TAB_PAG_LEN)
    BY <1>1, Sizes
  <2>3. PICK all, all2 : all = UNION {granted[u] : u \in Loaded} /\ all2 = UNION {granted'[u] : u \in Loaded}
    OBVIOUS
  <2>4. shared = {q \in all : q >= TAB_PAG_LEN}
    BY <1>15, <2>3, Zenon
  <2>5. all2 = all \cup {p}
    BY <1>3, <1>5, <2>3, UnionGrows
  <2>6. shared' = {q \in all2 : q >= TAB_PAG_LEN}
    BY <1>8, <2>2, <2>4, <2>5
  <2> QED BY <2>3, <2>6, Zenon
<1>23. Granted'
  BY <1>1, <1>17, <1>18, <1>19, <1>20, <1>21, <1>22 DEF Granted
<1>24. GivesUpWhenFull'
  <2>1. ASSUME NEW u \in Loaded, eax'[u] = -1
        PROVE  mem_off .. SEC_MEM * (mem_max \div SEC_MEM) - 1 \subseteq mem_map'
    <3>1. u # t
      BY <1>1, <1>6, <2>1
    <3>2. eax[u] = -1
      BY <1>3, <1>6, <2>1, <3>1
    <3> QED BY <3>2 DEF MemInv, GivesUpWhenFull
  <2> QED BY <1>1, <2>1 DEF GivesUpWhenFull
<1> QED BY <1>9, <1>10, <1>11, <1>13, <1>14, <1>23, <1>24 DEF MemInv

LEMMA MemStepOfTask == ASSUME MemInv, NEW t \in Loaded, NEW ebx \in Requests, sys_mem(t, ebx) PROVE MemInv'
<1>1. PICK p : p = Pedido(ebx)
  OBVIOUS
<1>2. step = "run" /\ UNCHANGED <<step, ram, mem_max, mem_off, mods, tables, g_dir, tasks>>
  BY DEF sys_mem, boot
<1>3. \/ /\ p = 0
         /\ eax' = [eax EXCEPT ![t] = -1]
         /\ UNCHANGED <<mem_map, dir_user, tab_user, shared, granted>>
      \/ /\ p # 0 /\ p \in mem_map
         /\ eax' = [eax EXCEPT ![t] = -3]
         /\ UNCHANGED <<mem_map, dir_user, tab_user, shared, granted>>
      \/ /\ p # 0 /\ p \notin mem_map
         /\ mem_map' = mem_map \cup {p}
         /\ dir_user' = [dir_user EXCEPT ![t] = @ \cup {p \div TAB_PAG_LEN}]
         /\ IF p < TAB_PAG_LEN
            THEN tab_user' = [tab_user EXCEPT ![t] = @ \cup {p}] /\ shared' = shared
            ELSE shared' = shared \cup {p} /\ tab_user' = tab_user
         /\ granted' = [granted EXCEPT ![t] = @ \cup {p}]
         /\ eax' = [eax EXCEPT ![t] = p]
  BY <1>1, Zenon DEF sys_mem, Pedido, CanSet
<1>4. \/ p = 0 /\ mem_off .. SEC_MEM * (mem_max \div SEC_MEM) - 1 \subseteq mem_map
      \/ p \in AddressSpace \ {0}
  BY <1>1, <1>2, PedidoIs
<1>5. CASE /\ p = 0
           /\ eax' = [eax EXCEPT ![t] = -1]
           /\ UNCHANGED <<mem_map, dir_user, tab_user, shared, granted>>
  <2>1. mem_off .. SEC_MEM * (mem_max \div SEC_MEM) - 1 \subseteq mem_map
    BY <1>4, <1>5
  <2>2. PICK code \in {-1, -3} : code = -1
    OBVIOUS
  <2> QED BY <1>2, <1>5, <2>1, <2>2, DeniedStep
<1>6. CASE /\ p # 0 /\ p \in mem_map
           /\ eax' = [eax EXCEPT ![t] = -3]
           /\ UNCHANGED <<mem_map, dir_user, tab_user, shared, granted>>
  <2>1. PICK code \in {-1, -3} : code = -3 /\ code # -1
    OBVIOUS
  <2> QED BY <1>2, <1>6, <2>1, DeniedStep
<1>7. CASE /\ p # 0 /\ p \notin mem_map
           /\ mem_map' = mem_map \cup {p}
           /\ dir_user' = [dir_user EXCEPT ![t] = @ \cup {p \div TAB_PAG_LEN}]
           /\ IF p < TAB_PAG_LEN
              THEN tab_user' = [tab_user EXCEPT ![t] = @ \cup {p}] /\ shared' = shared
              ELSE shared' = shared \cup {p} /\ tab_user' = tab_user
           /\ granted' = [granted EXCEPT ![t] = @ \cup {p}]
           /\ eax' = [eax EXCEPT ![t] = p]
  <2>1. p \in AddressSpace \ {0}
    BY <1>4, <1>7
  <2> QED BY <1>2, <1>7, <2>1, GrantStep
<1> QED BY <1>3, <1>5, <1>6, <1>7

-----------------------------------------------------------------------------
(* The theorems                                                            *)

LEMMA MemStep == MemInv /\ [Next]_vars => MemInv'
<1> SUFFICES ASSUME MemInv, [Next]_vars PROVE MemInv'
  OBVIOUS
<1>1. CASE set_mem_off
  BY <1>1, OffStep
<1>2. CASE ini_mm
  BY <1>2, MapStep
<1>3. CASE ini_pag
  BY <1>3, PagStep
<1>4. CASE Load
  BY <1>4, LoadStep
<1>5. CASE task_control
  BY <1>5, ControlStep
<1>6. CASE \E t \in Loaded, ebx \in Requests : sys_mem(t, ebx)
  BY <1>6, MemStepOfTask
<1>7. CASE UNCHANGED vars
  <2>1. /\ UNCHANGED <<step, ram, mods, mem_max, mem_off, mem_map, tables, g_dir, tasks>>
        /\ UNCHANGED <<dir_user, tab_user, shared, granted, eax>>
    BY <1>7 DEF vars
  <2>2. Top' = Top /\ Loaded' = Loaded
    BY <2>1 DEF Top, Loaded
  <2>3. TypeOK' /\ Room' /\ FindsAllMemory'
    BY <2>1, <2>2 DEF MemInv, TypeOK, Room, FindsAllMemory
  <2>4. ImagesApart'
    <3>1. ImagesApart
      BY DEF MemInv
    <3> QED BY <2>1, <2>2, <3>1 DEF ImagesApart
  <2>5. Marked'
    BY <2>1, <2>2, Zenon DEF MemInv, Marked
  <2>6. Placed'
    <3>1. Placed
      BY DEF MemInv
    <3> QED BY <2>1, <2>2, <3>1 DEF Placed
  <2>7. Granted'
    <3>1. Granted
      BY DEF MemInv
    <3> QED BY <2>1, <2>2, <3>1 DEF Granted
  <2>8. GivesUpWhenFull'
    BY <2>1, <2>2 DEF MemInv, GivesUpWhenFull
  <2> QED BY <2>1, <2>3, <2>4, <2>5, <2>6, <2>7, <2>8 DEF MemInv
<1> QED BY <1>1, <1>2, <1>3, <1>4, <1>5, <1>6, <1>7 DEF Next

\* Boot and SYS_MEM keep the bitmap, the page tables and what the tasks hold in step.
THEOREM MemoryKept == Spec => []MemInv
<1>1. Init => MemInv
  BY MemInit
<1>2. MemInv /\ [Next]_vars => MemInv'
  BY MemStep
<1> QED BY <1>1, <1>2, PTL DEF Spec

\* mm.c, exec.c: testmem counts every frame, and SYS_MEM fails with -1 only when
\* none is left.
THEOREM NothingIsLost == Spec => []NothingLost
<1>1. MemInv => NothingLost
  BY DEF MemInv, NothingLost
<1> QED BY <1>1, MemoryKept, PTL

\* The holders of frames, by the part of the memory they hold: the kernel, what is
\* loaded behind it, the kernel's tables, three frames for each task, and the rest.
First(t) == mem_off + CAN_TAB_PAG + 1 + 3 * (t - 1)
OfKernel(h) == \E p \in KernelIni .. KernelFin : h = <<"kernel", 0, p>>
OfModule(h) == \E i \in DOMAIN mods : \E p \in Image(mods[i]) : h = <<"module", mods[i].start, p>>
OfImage(h) == \E t \in Loaded : \E p \in SetOf(tasks[t].mem) : h = <<"image", t, p>>
OfTables(h) == \/ h = <<"g_dir", 0, mem_off>>
               \/ \E i \in 0 .. CAN_TAB_PAG - 1 : h = <<"table", i, mem_off + 1 + i>>
OfTask(h) == \E t \in Loaded : \/ h = <<"dir", t, First(t)>>
                               \/ h = <<"tab", t, First(t) + 1>>
                               \/ h = <<"stack", t, First(t) + 2>>
OfGrant(h) == \E t \in Loaded : \E p \in granted[t] : h = <<"grant", t, p>>

LEMMA Holders ==
    ASSUME MemInv, NEW h \in Holdings
    PROVE  OfKernel(h) \/ OfModule(h) \/ OfImage(h) \/ OfTask(h) \/ OfGrant(h)
           \/ (tables # << >> /\ OfTables(h))
<1> DEFINE K == {<<"kernel", 0, p>> : p \in KernelIni .. KernelFin}
           M == UNION {{<<"module", m.start, p>> : p \in Image(m)} : m \in SetOf(mods)}
           T == IF tables = << >> THEN {}
                ELSE {<<"g_dir", 0, g_dir>>} \cup {<<"table", i, tables[i]>> : i \in DOMAIN tables}
           U == UNION {TaskHoldings(t) : t \in Loaded}
<1>1. CASE h \in K
  BY <1>1 DEF OfKernel
<1>2. CASE h \in M
  <2>1. PICK m \in SetOf(mods) : h \in {<<"module", m.start, p>> : p \in Image(m)}
    BY <1>2
  <2>2. PICK i \in DOMAIN mods : m = mods[i]
    BY DEF SetOf
  <2> QED BY <2>1, <2>2 DEF OfModule
<1>3. CASE h \in T
  <2>1. tables # << >> /\ h \in {<<"g_dir", 0, g_dir>>} \cup {<<"table", i, tables[i]>> : i \in DOMAIN tables}
    BY <1>3
  <2>2. g_dir = mem_off /\ tables = [i \in 0 .. CAN_TAB_PAG - 1 |-> mem_off + 1 + i]
    BY <2>1 DEF MemInv, Placed
  <2>3. CASE h = <<"g_dir", 0, g_dir>>
    BY <2>1, <2>2, <2>3 DEF OfTables
  <2>4. CASE h \in {<<"table", i, tables[i]>> : i \in DOMAIN tables}
    <3>1. PICK i \in 0 .. CAN_TAB_PAG - 1 : h = <<"table", i, mem_off + 1 + i>>
      BY <2>2, <2>4
    <3> QED BY <2>1, <3>1 DEF OfTables
  <2> QED BY <2>1, <2>3, <2>4
<1>4. CASE h \in U
  <2>1. PICK t \in Loaded : h \in TaskHoldings(t)
    BY <1>4
  <2>2. tasks[t].dir = First(t) /\ tasks[t].tab = First(t) + 1 /\ tasks[t].stack = First(t) + 2
    BY DEF MemInv, Placed, First
  <2>3. CASE h \in {<<"dir", t, tasks[t].dir>>, <<"tab", t, tasks[t].tab>>, <<"stack", t, tasks[t].stack>>}
    BY <2>2, <2>3 DEF OfTask
  <2>4. CASE h \in {<<"image", t, p>> : p \in SetOf(tasks[t].mem)}
    BY <2>4 DEF OfImage
  <2>5. CASE h \in {<<"grant", t, p>> : p \in granted[t]}
    BY <2>5 DEF OfGrant
  <2> QED BY <2>1, <2>3, <2>4, <2>5 DEF TaskHoldings
<1>5. Holdings = K \cup M \cup T \cup U
  BY DEF Holdings
<1> HIDE DEF K, M, T, U
<1> QED BY <1>1, <1>2, <1>3, <1>4, <1>5

LEMMA Third == ASSUME NEW a, NEW b, NEW c PROVE <<a, b, c>>[3] = c
OBVIOUS

\* Where those parts are.
LEMMA Parts ==
    ASSUME MemInv, step \notin {"mem_off", "ini_mm"}, NEW h \in Holdings
    PROVE  /\ h[3] \in mem_map /\ h[3] \in Int
           /\ OfKernel(h) => h[3] \in KernelIni .. KernelFin
           /\ OfModule(h) \/ OfImage(h) => h[3] \in KernelFin + 1 .. mem_off - 1
           /\ OfTables(h) => h[3] \in mem_off .. mem_off + CAN_TAB_PAG
           /\ OfTask(h) => h[3] \in mem_off + CAN_TAB_PAG + 1 .. Top - 1
           /\ OfGrant(h) => h[3] \notin KernelIni .. Top - 1
<1>1. /\ ram \in RamBytes /\ mem_off \in Nat /\ Room /\ Len(mods) \in Nat /\ Len(tasks) \in Nat /\ step # "mem_off"
      /\ ImagesApart /\ Granted /\ Placed /\ Marked /\ step \in {"ini_pag", "exec", "run"}
  BY DEF MemInv, TypeOK
<1>2. Top \in Nat /\ KernelFin + 2 <= mem_off /\ mem_off + CAN_TAB_PAG + 1 <= Top
  BY <1>1, RoomInMemory
<1>3. KernelIni .. mem_off - 1 \subseteq mem_map /\ (step # "ini_pag" => KernelIni .. Top - 1 \subseteq mem_map)
  <2>1. CASE step = "ini_pag"
    BY <1>1, <2>1 DEF Marked
  <2>2. CASE step \in {"exec", "run"}
    <3>1. KernelIni .. Top - 1 \subseteq mem_map
      BY <1>1, <2>2 DEF Marked
    <3> QED BY <1>1, <1>2, <2>2, <3>1, Sizes
  <2> QED BY <1>1, <2>1, <2>2
<1>4. OfKernel(h) => h[3] \in KernelIni .. KernelFin
  BY Third DEF OfKernel
<1>5. OfModule(h) \/ OfImage(h) => h[3] \in KernelFin + 1 .. mem_off - 1
  <2>1. ASSUME OfModule(h) PROVE h[3] \in KernelFin + 1 .. mem_off - 1
    <3>1. PICK i \in DOMAIN mods : \E p \in Image(mods[i]) : h[3] = p
      BY <2>1, Third DEF OfModule
    <3> QED BY <1>1, <3>1 DEF ImagesApart
  <2>2. ASSUME OfImage(h) PROVE h[3] \in KernelFin + 1 .. mem_off - 1
    <3>1. PICK t \in Loaded : \E p \in SetOf(tasks[t].mem) : h[3] = p
      BY <2>2, Third DEF OfImage
    <3> QED BY <1>1, <3>1 DEF ImagesApart
  <2> QED BY <2>1, <2>2
<1>6. OfTables(h) => h[3] \in mem_off .. mem_off + CAN_TAB_PAG
  <2>1. ASSUME OfTables(h) PROVE h[3] \in mem_off .. mem_off + CAN_TAB_PAG
    <3>1. h[3] = mem_off \/ \E i \in 0 .. CAN_TAB_PAG - 1 : h[3] = mem_off + 1 + i
      BY <2>1, Third DEF OfTables
    <3> QED BY <1>1, <3>1, Sizes
  <2> QED BY <2>1
<1>7. OfTask(h) => h[3] \in mem_off + CAN_TAB_PAG + 1 .. Top - 1
  <2>1. ASSUME OfTask(h) PROVE h[3] \in mem_off + CAN_TAB_PAG + 1 .. Top - 1
    <3>1. PICK t \in Loaded : h[3] = First(t) \/ h[3] = First(t) + 1 \/ h[3] = First(t) + 2
      BY <2>1, Third DEF OfTask
    <3>2. t \in 1 .. Len(tasks)
      BY DEF Loaded
    <3> QED BY <1>1, <3>1, <3>2, Sizes DEF Top, First
  <2> QED BY <2>1
<1>8. ASSUME OfGrant(h) PROVE h[3] \notin KernelIni .. Top - 1 /\ h[3] \in mem_map /\ h[3] \in Int
  <2>1. PICK t \in Loaded : \E p \in granted[t] : h[3] = p
    BY <1>8, Third DEF OfGrant
  <2>2. h[3] \in granted[t] /\ h[3] \in mem_map /\ h[3] \in AddressSpace
    BY <1>1, <2>1 DEF Granted
  <2>3. h[3] \in Int
    <3>1. PICK a \in Nat : a = CAN_TAB_PAG * TAB_PAG_LEN
      BY Sizes
    <3> QED BY <2>2, <3>1 DEF AddressSpace
  <2> QED BY <1>1, <2>2, <2>3 DEF Granted
<1>9. (tables # << >> => step # "ini_pag") /\ (OfTask(h) => step # "ini_pag")
  <2>1. ASSUME step = "ini_pag" PROVE tables = << >> /\ tasks = << >>
    BY <1>1, <2>1 DEF Placed
  <2>2. ASSUME tasks = << >> PROVE ~OfTask(h)
    <3>1. Len(tasks) = 0
      BY <2>2
    <3> QED BY <3>1 DEF OfTask, Loaded
  <2> QED BY <2>1, <2>2
<1>10. h[3] \in mem_map /\ h[3] \in Int
  <2>1. CASE OfKernel(h) \/ OfModule(h) \/ OfImage(h)
    <3>1. h[3] \in KernelIni .. mem_off - 1
      BY <1>1, <1>2, <1>4, <1>5, <2>1, Sizes
    <3> QED BY <1>1, <1>3, <3>1, Sizes
  <2>2. CASE OfTask(h) \/ (tables # << >> /\ OfTables(h))
    <3>1. h[3] \in KernelIni .. Top - 1
      BY <1>1, <1>2, <1>6, <1>7, <2>2, Sizes
    <3> QED BY <1>2, <1>3, <1>9, <2>2, <3>1, Sizes
  <2> QED BY <1>8, <2>1, <2>2, Holders
<1> QED BY <1>4, <1>5, <1>6, <1>7, <1>8, <1>10

\* No two of those frames are one.
LEMMA Apart ==
    ASSUME MemInv, step \notin {"mem_off", "ini_mm"}, NEW g \in Holdings, NEW h \in Holdings, g[3] = h[3]
    PROVE  g = h
<1>1. /\ ram \in RamBytes /\ mem_off \in Nat /\ Room /\ Len(mods) \in Nat /\ Len(tasks) \in Nat /\ step # "mem_off"
      /\ ImagesApart /\ Granted
  BY DEF MemInv, TypeOK
<1>2. Top \in Nat /\ KernelFin + 2 <= mem_off /\ mem_off + CAN_TAB_PAG + 1 <= Top
  BY <1>1, RoomInMemory
<1>3. /\ g[3] \in Int
      /\ OfKernel(g) => g[3] \in KernelIni .. KernelFin
      /\ OfModule(g) \/ OfImage(g) => g[3] \in KernelFin + 1 .. mem_off - 1
      /\ OfTables(g) => g[3] \in mem_off .. mem_off + CAN_TAB_PAG
      /\ OfTask(g) => g[3] \in mem_off + CAN_TAB_PAG + 1 .. Top - 1
      /\ OfGrant(g) => g[3] \notin KernelIni .. Top - 1
  BY Parts
<1>4. /\ h[3] \in Int
      /\ OfKernel(h) => h[3] \in KernelIni .. KernelFin
      /\ OfModule(h) \/ OfImage(h) => h[3] \in KernelFin + 1 .. mem_off - 1
      /\ OfTables(h) => h[3] \in mem_off .. mem_off + CAN_TAB_PAG
      /\ OfTask(h) => h[3] \in mem_off + CAN_TAB_PAG + 1 .. Top - 1
      /\ OfGrant(h) => h[3] \notin KernelIni .. Top - 1
  BY Parts
<1>5. OfKernel(g) \/ OfModule(g) \/ OfImage(g) \/ OfTables(g) \/ OfTask(g) \/ OfGrant(g)
  BY Holders
<1>6. OfKernel(h) \/ OfModule(h) \/ OfImage(h) \/ OfTables(h) \/ OfTask(h) \/ OfGrant(h)
  BY Holders
<1>7. \/ OfKernel(g) /\ OfKernel(h)
      \/ (OfModule(g) \/ OfImage(g)) /\ (OfModule(h) \/ OfImage(h))
      \/ OfTables(g) /\ OfTables(h)
      \/ OfTask(g) /\ OfTask(h)
      \/ OfGrant(g) /\ OfGrant(h)
  BY <1>1, <1>2, <1>3, <1>4, <1>5, <1>6, Sizes
<1>8. CASE OfKernel(g) /\ OfKernel(h)
  BY <1>8, Third DEF OfKernel
<1>9. CASE OfModule(g) /\ OfModule(h)
  <2>1. PICK i \in DOMAIN mods : \E p \in Image(mods[i]) : g = <<"module", mods[i].start, p>>
    BY <1>9 DEF OfModule
  <2>2. PICK j \in DOMAIN mods : \E p \in Image(mods[j]) : h = <<"module", mods[j].start, p>>
    BY <1>9 DEF OfModule
  <2>3. PICK p \in Image(mods[i]) : g = <<"module", mods[i].start, p>> /\ g[3] = p
    BY <2>1, Third
  <2>4. PICK q \in Image(mods[j]) : h = <<"module", mods[j].start, q>> /\ h[3] = q
    BY <2>2, Third
  <2>5. p = q /\ i = j
    <3>1. p = q
      BY <2>3, <2>4
    <3>2. i # j => Image(mods[i]) \cap Image(mods[j]) = {}
      BY <1>1 DEF ImagesApart
    <3> QED BY <3>1, <3>2
  <2> QED BY <2>3, <2>4, <2>5
<1>10. CASE OfImage(g) /\ OfImage(h)
  <2>1. PICK s \in Loaded : \E p \in SetOf(tasks[s].mem) : g = <<"image", s, p>>
    BY <1>10 DEF OfImage
  <2>2. PICK t \in Loaded : \E p \in SetOf(tasks[t].mem) : h = <<"image", t, p>>
    BY <1>10 DEF OfImage
  <2>3. PICK p \in SetOf(tasks[s].mem) : g = <<"image", s, p>> /\ g[3] = p
    BY <2>1, Third
  <2>4. PICK q \in SetOf(tasks[t].mem) : h = <<"image", t, q>> /\ h[3] = q
    BY <2>2, Third
  <2>5. p = q /\ s = t
    <3>1. p = q
      BY <2>3, <2>4
    <3>2. s # t => SetOf(tasks[s].mem) \cap SetOf(tasks[t].mem) = {}
      BY <1>1 DEF ImagesApart
    <3> QED BY <3>1, <3>2
  <2> QED BY <2>3, <2>4, <2>5
<1>11. ASSUME NEW a, NEW b, a[3] = b[3], OfImage(a), OfModule(b) PROVE FALSE
  <2>1. PICK t \in Loaded : \E p \in SetOf(tasks[t].mem) : a[3] = p
    BY <1>11, Third DEF OfImage
  <2>2. PICK i \in DOMAIN mods : \E p \in Image(mods[i]) : b[3] = p
    BY <1>11, Third DEF OfModule
  <2>3. SetOf(tasks[t].mem) \cap Image(mods[i]) = {}
    BY <1>1 DEF ImagesApart
  <2> QED BY <1>11, <2>1, <2>2, <2>3
<1>12. CASE OfTables(g) /\ OfTables(h)
  <2>1. \/ g = <<"g_dir", 0, mem_off>> /\ g[3] = mem_off
        \/ \E i \in 0 .. CAN_TAB_PAG - 1 : g = <<"table", i, mem_off + 1 + i>> /\ g[3] = mem_off + 1 + i
    BY <1>12, Third DEF OfTables
  <2>2. \/ h = <<"g_dir", 0, mem_off>> /\ h[3] = mem_off
        \/ \E i \in 0 .. CAN_TAB_PAG - 1 : h = <<"table", i, mem_off + 1 + i>> /\ h[3] = mem_off + 1 + i
    BY <1>12, Third DEF OfTables
  <2>3. CASE g[3] = mem_off
    <3>1. g = <<"g_dir", 0, mem_off>>
      BY <1>1, <2>1, <2>3, Sizes
    <3>2. h = <<"g_dir", 0, mem_off>>
      BY <1>1, <2>2, <2>3, Sizes
    <3> QED BY <3>1, <3>2
  <2>4. CASE g[3] # mem_off
    <3>1. PICK i \in 0 .. CAN_TAB_PAG - 1 : g = <<"table", i, mem_off + 1 + i>> /\ g[3] = mem_off + 1 + i
      BY <2>1, <2>4
    <3>2. PICK j \in 0 .. CAN_TAB_PAG - 1 : h = <<"table", j, mem_off + 1 + j>> /\ h[3] = mem_off + 1 + j
      BY <2>2, <2>4
    <3>3. i = j
      BY <1>1, <3>1, <3>2, Sizes
    <3> QED BY <3>1, <3>2, <3>3
  <2> QED BY <2>3, <2>4
<1>13. CASE OfTask(g) /\ OfTask(h)
  <2>1. PICK s \in Loaded : \/ g = <<"dir", s, First(s)>> /\ g[3] = First(s)
                            \/ g = <<"tab", s, First(s) + 1>> /\ g[3] = First(s) + 1
                            \/ g = <<"stack", s, First(s) + 2>> /\ g[3] = First(s) + 2
    BY <1>13, Third DEF OfTask
  <2>2. PICK t \in Loaded : \/ h = <<"dir", t, First(t)>> /\ h[3] = First(t)
                            \/ h = <<"tab", t, First(t) + 1>> /\ h[3] = First(t) + 1
                            \/ h = <<"stack", t, First(t) + 2>> /\ h[3] = First(t) + 2
    BY <1>13, Third DEF OfTask
  <2>3. s \in Int /\ t \in Int
    BY <1>1 DEF Loaded
  <2>4. s = t
    <3>1. \E j \in 0 .. 2 : \E k \in 0 .. 2 : 3 * (s - 1) + j = 3 * (t - 1) + k
      <4>1. PICK base \in Int : base = mem_off + CAN_TAB_PAG + 1
        BY <1>1, Sizes
      <4>2. PICK j \in 0 .. 2 : g[3] = base + 3 * (s - 1) + j
        BY <2>1, <2>3, <4>1 DEF First
      <4>3. PICK k \in 0 .. 2 : h[3] = base + 3 * (t - 1) + k
        BY <2>2, <2>3, <4>1 DEF First
      <4>4. 3 * (s - 1) + j = 3 * (t - 1) + k
        <5>1. PICK a \in Int, b \in Int : a = 3 * (s - 1) /\ b = 3 * (t - 1)
          BY <2>3
        <5>2. base + a + j = base + b + k
          BY <4>2, <4>3, <5>1
        <5>3. a + j = b + k
          BY <5>2
        <5> QED BY <5>1, <5>3
      <4> QED BY <4>4
    <3> QED BY <2>3, <3>1
  <2>5. First(s) \in Int
    BY <1>1, <2>3, Sizes DEF First
  <2> QED BY <2>1, <2>2, <2>4, <2>5
<1>14. CASE OfGrant(g) /\ OfGrant(h)
  <2>1. PICK s \in Loaded : \E p \in granted[s] : g = <<"grant", s, p>>
    BY <1>14 DEF OfGrant
  <2>2. PICK t \in Loaded : \E p \in granted[t] : h = <<"grant", t, p>>
    BY <1>14 DEF OfGrant
  <2>3. PICK p \in granted[s] : g = <<"grant", s, p>> /\ g[3] = p
    BY <2>1, Third
  <2>4. PICK q \in granted[t] : h = <<"grant", t, q>> /\ h[3] = q
    BY <2>2, Third
  <2>5. p = q /\ s = t
    <3>1. p = q
      BY <2>3, <2>4
    <3>2. s # t => granted[s] \cap granted[t] = {}
      BY <1>1 DEF Granted
    <3> QED BY <3>1, <3>2
  <2> QED BY <2>3, <2>4, <2>5
<1> QED BY <1>7, <1>8, <1>9, <1>10, <1>11, <1>12, <1>13, <1>14

\* mm.c, exec.c: whatever boot and SYS_MEM do, a frame in use is marked in the
\* bitmap and has one holder.
THEOREM NoFrameHeldTwice == Spec => []NoFrameTwice
<1>1. MemInv => NoFrameTwice
  BY Parts, Apart DEF NoFrameTwice
<1> QED BY <1>1, MemoryKept, PTL

\* ini_pag: since the frames follow each other, a table holds what its number says.
LEMMA ContentIs ==
    ASSUME MemInv, step \in {"exec", "run"}, NEW i \in 0 .. CAN_TAB_PAG - 1, NEW j \in Nat
    PROVE  DOMAIN tables = 0 .. CAN_TAB_PAG - 1 /\ Content(tables[i], j) = i * TAB_PAG_LEN + j
<1>1. tables = [k \in 0 .. CAN_TAB_PAG - 1 |-> mem_off + 1 + k] /\ mem_off \in Nat
  BY DEF MemInv, Placed
<1>2. 0 \in 0 .. CAN_TAB_PAG - 1
  BY Sizes
<1>3. tables[i] = mem_off + 1 + i /\ tables[0] = mem_off + 1 + 0
  BY <1>1, <1>2
<1>4. tables[i] - tables[0] = i
  BY <1>1, <1>3, Sizes
<1> QED BY <1>1, <1>4 DEF Content

\* The frames behind the program and the stack are never granted.
LEMMA WindowNotGranted ==
    ASSUME MemInv, NEW t \in Loaded, NEW p \in granted[t]
    PROVE  /\ p \in AddressSpace /\ p \in Nat /\ step = "run"
           /\ p - V_USER + 1 \notin DOMAIN tasks[t].mem /\ p # V_STACK
<1>1. /\ ram \in RamBytes /\ mem_off \in Nat /\ Room /\ Len(mods) \in Nat /\ Len(tasks) \in Nat
      /\ step = "run" /\ p \in AddressSpace /\ p \notin KernelIni .. Top - 1
  <2>1. ram \in RamBytes /\ mem_off \in Nat /\ Room /\ Len(mods) \in Nat /\ Len(tasks) \in Nat
    BY DEF MemInv, TypeOK
  <2>2. Granted
    BY DEF MemInv
  <2>3. step = "run"
    BY <2>2 DEF Granted
  <2>4. granted[t] \subseteq mem_map \cap AddressSpace /\ granted[t] \cap (KernelIni .. Top - 1) = {}
    BY <2>2 DEF Granted
  <2> QED BY <2>1, <2>3, <2>4
<1>2. Top \in Nat /\ KernelFin + 2 <= mem_off /\ mem_off + CAN_TAB_PAG + 1 <= Top
  BY <1>1, RoomInMemory
<1>3. p \in Nat
  <2>1. PICK a \in Nat : a = CAN_TAB_PAG * TAB_PAG_LEN
    BY Sizes
  <2> QED BY <1>1, <2>1 DEF AddressSpace
<1>4. PICK pag \in 0 .. MAX_PAG_DRIVER : DOMAIN tasks[t].mem = 1 .. pag
  BY DEF MemInv, Placed
<1>5. p \notin V_USER .. V_STACK
  BY <1>1, <1>2, <1>3, Sizes
<1>6. p - V_USER + 1 \notin 1 .. pag /\ p # V_STACK
  BY <1>3, <1>4, <1>5, Sizes
<1> QED BY <1>1, <1>3, <1>4, <1>6

\* exec.c, mm.c: a frame that SYS_MEM reported is at its own number for the task, and
\* the kernel finds every frame at its own number.
THEOREM FramesStayInPlace == Spec => []FramesInPlace
<1>1. ASSUME MemInv PROVE KernelMapIsIdentity
  <2>1. CASE step \in {"exec", "run"}
    <3>1. DOMAIN tables = 0 .. CAN_TAB_PAG - 1
      BY <1>1, <2>1, Sizes DEF MemInv, Placed
    <3>2. \A j \in 0 .. TAB_PAG_LEN - 1 : j \in Nat
      BY Sizes
    <3> QED BY <1>1, <2>1, <3>1, <3>2, ContentIs DEF KernelMapIsIdentity
  <2>2. CASE step \notin {"exec", "run"}
    <3>1. tables = << >>
      BY <1>1, <2>2 DEF MemInv, Placed
    <3>2. DOMAIN tables = {}
      BY <3>1
    <3> QED BY <3>2 DEF KernelMapIsIdentity
  <2> QED BY <2>1, <2>2
<1>2. ASSUME MemInv, NEW t \in Loaded, NEW p \in granted[t]
      PROVE  Accessible(t, p) /\ Frame(t, p) = p /\ check_addr(t, p)
  <2>1. /\ p \in AddressSpace /\ p \in Nat /\ step = "run"
        /\ p - V_USER + 1 \notin DOMAIN tasks[t].mem /\ p # V_STACK
    BY <1>2, WindowNotGranted
  <2>2. /\ dir_user[t] = {0} \cup {q \div TAB_PAG_LEN : q \in granted[t]}
        /\ tab_user[t] = {V_USER + i - 1 : i \in DOMAIN tasks[t].mem} \cup {V_STACK}
                             \cup {q \in granted[t] : q < TAB_PAG_LEN}
        /\ shared = {q \in UNION {granted[u] : u \in Loaded} : q >= TAB_PAG_LEN}
    BY <1>2 DEF MemInv, Granted
  <2>3. EntryUser(t, p)
    <3>1. CASE p < TAB_PAG_LEN
      BY <2>2, <3>1 DEF EntryUser
    <3>2. CASE ~(p < TAB_PAG_LEN)
      <4>1. p >= TAB_PAG_LEN
        BY <2>1, <3>2, Sizes
      <4>2. granted[t] \in {granted[u] : u \in Loaded}
        OBVIOUS
      <4> QED BY <2>2, <3>2, <4>1, <4>2 DEF EntryUser
    <3> QED BY <3>1, <3>2
  <2>4. p \div TAB_PAG_LEN \in dir_user[t]
    BY <2>2
  <2>5. Frame(t, p) = p
    <3>1. CASE p < TAB_PAG_LEN
      BY <2>1, <3>1 DEF Frame, Target
    <3>2. CASE ~(p < TAB_PAG_LEN)
      <4>1. PICK k \in Int, r \in 0 .. TAB_PAG_LEN - 1 :
                k = p \div TAB_PAG_LEN /\ r = p % TAB_PAG_LEN /\ p = (TAB_PAG_LEN * k) + r
        <5>1. p \in Int /\ TAB_PAG_LEN \in Nat \ {0}
          BY <2>1, Sizes
        <5>2. PICK k \in Int, r \in 0 .. TAB_PAG_LEN - 1 : Quotient(p, TAB_PAG_LEN, k, r)
          BY <5>1, Euclid
        <5> QED BY <5>2 DEF Quotient
      <4>2. k \in 0 .. CAN_TAB_PAG - 1
        <5>1. p <= CAN_TAB_PAG * TAB_PAG_LEN - 1
          BY <2>1 DEF AddressSpace
        <5>2. PICK x \in Int, y \in Int : x = TAB_PAG_LEN * k /\ y = TAB_PAG_LEN * CAN_TAB_PAG
          BY <4>1, Sizes
        <5>3. p <= y - 1
          BY <5>1, <5>2, Sizes
        <5>4. ~(CAN_TAB_PAG <= k)
          <6>1. p = x + r /\ p \in Int /\ r \in Nat
            BY <2>1, <4>1, <5>2, Sizes
          <6>2. ~(y <= x)
            BY <5>2, <5>3, <6>1
          <6> QED BY <4>1, <5>2, <6>2, Scaled, Sizes
        <5>5. 0 <= k
          <6>1. k = p \div TAB_PAG_LEN /\ TAB_PAG_LEN \in Nat \ {0} /\ p \in Nat
            BY <2>1, <4>1, Sizes
          <6> QED BY <6>1
        <5> QED BY <4>1, <5>4, <5>5, Sizes
      <4>3. Content(tables[k], r) = k * TAB_PAG_LEN + r
        <5>1. r \in Nat
          BY <4>1, Sizes
        <5> QED BY <1>2, <2>1, <4>2, <5>1, ContentIs
      <4>4. k * TAB_PAG_LEN = TAB_PAG_LEN * k
        BY <4>1, Sizes
      <4>5. Frame(t, p) = Content(tables[k], r)
        BY <3>2, <4>1 DEF Frame
      <4> QED BY <4>1, <4>3, <4>4, <4>5
    <3> QED BY <3>1, <3>2
  <2> QED BY <2>3, <2>4, <2>5 DEF Accessible, check_addr
<1>3. MemInv => FramesInPlace
  BY <1>1, <1>2 DEF FramesInPlace, GrantIsReachable
<1> QED BY <1>3, MemoryKept, PTL

\* check_addr: what it accepts in a task's own table is the task's own.
THEOREM OwnTableIsOwn == Spec => []OwnTableChecksOwnFrames
<1>1. ASSUME MemInv, NEW t \in Loaded, NEW v \in 0 .. TAB_PAG_LEN - 1, check_addr(t, v)
      PROVE  Frame(t, v) \in SetOf(tasks[t].mem) \cup {tasks[t].stack} \cup granted[t]
  <2>1. v < TAB_PAG_LEN /\ v \in Int
    BY Sizes
  <2>2. v \in tab_user[t] /\ Frame(t, v) = Target(t, v)
    BY <1>1, <2>1 DEF check_addr, EntryUser, Frame
  <2>3. tab_user[t] = {V_USER + i - 1 : i \in DOMAIN tasks[t].mem} \cup {V_STACK}
                          \cup {q \in granted[t] : q < TAB_PAG_LEN}
    BY <1>1 DEF MemInv, Granted
  <2>4. PICK pag \in 0 .. MAX_PAG_DRIVER : DOMAIN tasks[t].mem = 1 .. pag
    BY <1>1 DEF MemInv, Placed
  <2>5. CASE v - V_USER + 1 \in DOMAIN tasks[t].mem
    BY <2>2, <2>5 DEF Target, SetOf
  <2>6. CASE v - V_USER + 1 \notin DOMAIN tasks[t].mem /\ v = V_STACK
    BY <2>2, <2>6 DEF Target
  <2>7. CASE v - V_USER + 1 \notin DOMAIN tasks[t].mem /\ v # V_STACK
    <3>1. Frame(t, v) = v
      BY <2>2, <2>7 DEF Target
    <3>2. v \notin {V_USER + i - 1 : i \in DOMAIN tasks[t].mem}
      BY <2>1, <2>4, <2>7, Sizes
    <3> QED BY <2>2, <2>3, <2>7, <3>1, <3>2
  <2> QED BY <2>5, <2>6, <2>7
<1>2. MemInv => OwnTableChecksOwnFrames
  BY <1>1 DEF OwnTableChecksOwnFrames
<1> QED BY <1>2, MemoryKept, PTL
=============================================================================
