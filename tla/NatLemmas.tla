----------------------------- MODULE NatLemmas -----------------------------
(***************************************************************************)
(* Facts about the naturals that the proofs of several components need:    *)
(* induction and recursion, for sets and functions, and division.          *)
(***************************************************************************)
EXTENDS Integers, WellFoundedInduction, TLAPS

\* Every non-empty set of naturals has a least element: the loops that search
\* a table upwards stop at one.
LEMMA LeastNat ==
    ASSUME NEW T \in SUBSET Nat, T # {}
    PROVE  \E x \in T : \A y \in T : x <= y
<1> DEFINE R == {ss \in Nat \X Nat : ss[1] < ss[2]}
<1>1. IsWellFoundedOn(R, Nat)
  BY NatLessThanWellFounded DEF OpToRel
<1>2. PICK x \in T : \A y \in T : ~ (<<y, x>> \in R)
  <2> HIDE DEF R
  <2> QED BY <1>1, WFMin, Zenon
<1>3. \A y \in T : ~ (y < x)
  BY <1>2
<1> QED BY <1>3

\* A set that holds 0 and with every number the next one holds all naturals.
LEMMA Inductive ==
    ASSUME NEW T, 0 \in T, \A n \in Nat : n \in T => n + 1 \in T
    PROVE  \A n \in Nat : n \in T
<1> DEFINE U == {n \in Nat : n \notin T}
<1> SUFFICES ASSUME U # {} PROVE FALSE
  OBVIOUS
<1>1. PICK x \in U : \A y \in U : x <= y
  <2>1. U \in SUBSET Nat
    OBVIOUS
  <2> HIDE DEF U
  <2> QED BY <2>1, LeastNat
<1>2. x # 0 /\ x \in Nat /\ x \notin T
  BY <1>1
<1>3. x - 1 \in Nat /\ x - 1 \in T
  <2>1. x - 1 \in Nat /\ ~(x <= x - 1)
    BY <1>2
  <2> QED BY <1>1, <2>1
<1> QED BY <1>2, <1>3

\* The first n + 1 values of a recursion that starts with a and goes on with h.
Begins(g, n, S, a, h) ==
    /\ g \in [0 .. n -> S] /\ g[0] = a
    /\ \A k \in 0 .. n - 1 : g[k + 1] = h[<<k, g[k]>>]

\* There are such values, for every n,
LEMMA BeginsExists ==
    ASSUME NEW S, NEW a \in S, NEW h \in [Nat \X S -> S]
    PROVE  \A n \in Nat : \E g : Begins(g, n, S, a, h)
<1> DEFINE T == {n \in Nat : \E g : Begins(g, n, S, a, h)}
<1>1. 0 \in T
  <2>1. Begins([k \in 0 .. 0 |-> a], 0, S, a, h)
    BY DEF Begins
  <2> QED BY <2>1
<1>2. ASSUME NEW n \in Nat, n \in T PROVE n + 1 \in T
  <2>1. PICK g : Begins(g, n, S, a, h)
    BY <1>2
  <2> DEFINE e == [k \in 0 .. n + 1 |-> IF k = n + 1 THEN h[<<n, g[n]>>] ELSE g[k]]
  <2>2. g \in [0 .. n -> S] /\ h[<<n, g[n]>>] \in S
    BY <2>1 DEF Begins
  <2>3. e \in [0 .. n + 1 -> S]
    BY <2>2
  <2>4. e[0] = a
    BY <2>1 DEF Begins
  <2>5. ASSUME NEW k \in 0 .. n PROVE e[k + 1] = h[<<k, e[k]>>]
    <3>1. CASE k = n
      <4>1. n \in 0 .. n + 1 /\ n + 1 \in 0 .. n + 1 /\ n # n + 1
        OBVIOUS
      <4>2. e[n] = g[n] /\ e[n + 1] = h[<<n, g[n]>>]
        BY <4>1
      <4> QED BY <3>1, <4>2
    <3>2. CASE k # n
      <4>1. k \in 0 .. n - 1 /\ k + 1 \in 0 .. n + 1 /\ k + 1 # n + 1 /\ k \in 0 .. n + 1 /\ k # n + 1
        BY <3>2
      <4>2. g[k + 1] = h[<<k, g[k]>>]
        BY <4>1, <2>1 DEF Begins
      <4> QED BY <4>1, <4>2
    <3> QED BY <3>1, <3>2
  <2> HIDE DEF e
  <2>6. Begins(e, n + 1, S, a, h)
    BY <2>3, <2>4, <2>5 DEF Begins
  <2> QED BY <2>6
<1> HIDE DEF T
<1>3. \A n \in Nat : n \in T
  BY <1>1, <1>2, Inductive
<1> QED BY <1>3 DEF T

\* and a longer beginning goes on from a shorter one.
LEMMA BeginsAgree ==
    ASSUME NEW S, NEW a \in S, NEW h \in [Nat \X S -> S],
           NEW n \in Nat, NEW m \in Nat, n <= m, NEW g, NEW e,
           Begins(g, n, S, a, h), Begins(e, m, S, a, h)
    PROVE  \A k \in 0 .. n : g[k] = e[k]
<1> DEFINE T == {k \in Nat : k <= n => g[k] = e[k]}
<1>1. 0 \in T
  BY DEF Begins
<1>2. ASSUME NEW k \in Nat, k \in T PROVE k + 1 \in T
  <2> SUFFICES ASSUME k + 1 <= n PROVE g[k + 1] = e[k + 1]
    OBVIOUS
  <2>1. k \in 0 .. n - 1 /\ k \in 0 .. m - 1 /\ g[k] = e[k]
    BY <1>2
  <2> QED BY <2>1 DEF Begins
<1> HIDE DEF T
<1>3. \A k \in Nat : k \in T
  BY <1>1, <1>2, Inductive
<1> QED BY <1>3 DEF T

\* A function with that first value and that step.
Recurs(f, S, a, h) ==
    /\ f \in [Nat -> S] /\ f[0] = a
    /\ \A n \in Nat : f[n + 1] = h[<<n, f[n]>>]

\* A function of the naturals can be defined by its first value and its step.
LEMMA Recursion ==
    ASSUME NEW S, NEW a \in S, NEW h \in [Nat \X S -> S]
    PROVE  \E f : Recurs(f, S, a, h)
<1> DEFINE G(n) == CHOOSE g : Begins(g, n, S, a, h)
           f == [n \in Nat |-> G(n)[n]]
<1>1. ASSUME NEW n \in Nat PROVE Begins(G(n), n, S, a, h)
  BY BeginsExists
<1> HIDE DEF G
<1>2. f \in [Nat -> S] /\ f[0] = a
  <2>1. \A n \in Nat : G(n)[n] \in S
    BY <1>1 DEF Begins
  <2>2. G(0)[0] = a
    BY <1>1 DEF Begins
  <2> QED BY <2>1, <2>2
<1>3. ASSUME NEW n \in Nat PROVE f[n + 1] = h[<<n, f[n]>>]
  <2>1. Begins(G(n + 1), n + 1, S, a, h) /\ Begins(G(n), n, S, a, h)
    BY <1>1
  <2>2. G(n)[n] = G(n + 1)[n]
    <3>1. n + 1 \in Nat /\ n <= n + 1 /\ n \in 0 .. n
      OBVIOUS
    <3>2. PICK g : g = G(n)
      OBVIOUS
    <3>3. PICK e : e = G(n + 1)
      OBVIOUS
    <3>4. Begins(g, n, S, a, h) /\ Begins(e, n + 1, S, a, h)
      BY <2>1, <3>2, <3>3
    <3>5. \A k \in 0 .. n : g[k] = e[k]
      BY <3>1, <3>4, BeginsAgree
    <3> QED BY <3>1, <3>2, <3>3, <3>5
  <2>3. G(n + 1)[n + 1] = h[<<n, G(n + 1)[n]>>]
    BY <2>1 DEF Begins
  <2> QED BY <2>2, <2>3
<1> HIDE DEF f
<1>4. Recurs(f, S, a, h)
  BY <1>2, <1>3 DEF Recurs
<1> QED BY <1>4

-----------------------------------------------------------------------------
(* Division                                                                *)

\* Division and its rest, for a positive divisor.
LEMMA Divided ==
    ASSUME NEW c \in Int, NEW q \in Nat \ {0}
    PROVE  /\ c = (q * (c \div q)) + (c % q)
           /\ c \div q \in Int /\ c % q \in 0 .. q - 1
OBVIOUS

\* k and r are the quotient and the rest of c by q.
Quotient(c, q, k, r) ==
    c = (q * k) + r /\ k = c \div q /\ r = c % q

\* Every number has them.
LEMMA Euclid ==
    ASSUME NEW c \in Int, NEW q \in Nat \ {0}
    PROVE  \E k \in Int, r \in 0 .. q - 1 : Quotient(c, q, k, r)
<1>1. Quotient(c, q, c \div q, c % q) /\ c \div q \in Int /\ c % q \in 0 .. q - 1
  BY Divided DEF Quotient
<1> QED BY <1>1

\* The only multiple of q below q and above -q is 0.
LEMMA Multiple ==
    ASSUME NEW q \in Nat \ {0}, NEW d \in Int, q * d < q, -q < q * d
    PROVE  d = 0
<1>1. CASE d >= 1
  <2>1. q * d >= q * 1
    BY <1>1
  <2> QED BY <2>1
<1>2. CASE d <= -1
  <2>1. q * d <= q * (-1)
    BY <1>2
  <2> QED BY <2>1
<1> QED BY <1>1, <1>2

\* Whatever splits c into a multiple of q and a rest is the division.
LEMMA DivUnique ==
    ASSUME NEW q \in Nat \ {0}, NEW k \in Int, NEW r \in 0 .. q - 1, NEW c \in Int, c = q * k + r
    PROVE  c \div q = k /\ c % q = r
<1>1. PICK e \in Int : e = c \div q
  BY Divided
<1>2. PICK s \in 0 .. q - 1 : s = c % q
  BY Divided
<1>3. c = q * e + s
  BY <1>1, <1>2, Divided
<1>4. q * (k - e) = s - r
  BY <1>3
<1>5. k - e = 0
  BY <1>4, Multiple
<1> QED BY <1>1, <1>2, <1>3, <1>5

\* Products keep the order.
LEMMA Scaled ==
    ASSUME NEW p \in Nat \ {0}, NEW a \in Int, NEW b \in Int
    PROVE  a <= b <=> p * a <= p * b
<1>1. ASSUME a <= b PROVE p * a <= p * b
  <2>1. PICK d \in Nat : b = a + d
    <3>1. b - a \in Nat /\ b = a + (b - a)
      BY <1>1
    <3> QED BY <3>1
  <2>2. p * b = p * a + p * d
    BY <2>1
  <2> QED BY <2>2
<1>2. ASSUME ~(a <= b) PROVE ~(p * a <= p * b)
  <2>1. PICK d \in Nat \ {0} : a = b + d
    <3>1. a - b \in Nat \ {0} /\ a = b + (a - b)
      BY <1>2
    <3> QED BY <3>1
  <2>2. p * a = p * b + p * d
    BY <2>1
  <2>3. p * d >= 1
    OBVIOUS
  <2> QED BY <2>2, <2>3
<1> QED BY <1>1, <1>2

\* Powers of two, as a recursive function defines them.
LEMMA Doubling ==
    ASSUME NEW p, p = CHOOSE g : g = [n \in Nat |-> IF n = 0 THEN 1 ELSE 2 * g[n - 1]]
    PROVE  /\ p \in [Nat -> Nat \ {0}]
           /\ p[0] = 1
           /\ \A n \in Nat : p[n + 1] = 2 * p[n]
<1> DEFINE S == Nat \ {0}
           h == [x \in Nat \X S |-> 2 * x[2]]
<1>1. h \in [Nat \X S -> S]
  OBVIOUS
<1>2. \A n \in Nat, x \in S : h[<<n, x>>] = 2 * x
  OBVIOUS
<1> HIDE DEF h
<1>3. PICK f : Recurs(f, S, 1, h)
  <2>1. 1 \in S
    OBVIOUS
  <2> HIDE DEF S
  <2> QED BY <1>1, <2>1, Recursion
<1>4. f = [n \in Nat |-> IF n = 0 THEN 1 ELSE 2 * f[n - 1]]
  <2>1. ASSUME NEW n \in Nat, n # 0 PROVE f[n] = 2 * f[n - 1]
    <3>1. n - 1 \in Nat /\ (n - 1) + 1 = n
      BY <2>1
    <3>2. f[(n - 1) + 1] = h[<<n - 1, f[n - 1]>>] /\ f[n - 1] \in S
      BY <1>3, <3>1 DEF Recurs
    <3>3. h[<<n - 1, f[n - 1]>>] = 2 * f[n - 1]
      BY <1>2, <3>1, <3>2
    <3> QED BY <3>1, <3>2, <3>3
  <2>2. \A n \in Nat : f[n] = IF n = 0 THEN 1 ELSE 2 * f[n - 1]
    BY <1>3, <2>1 DEF Recurs
  <2> QED BY <1>3, <2>2 DEF Recurs
<1>5. p = [n \in Nat |-> IF n = 0 THEN 1 ELSE 2 * p[n - 1]]
  BY <1>4, Zenon
<1>6. p[0] = 1 /\ \A n \in Nat : p[n + 1] = 2 * p[n]
  <2>1. p[0] = 1
    BY <1>5
  <2>2. ASSUME NEW n \in Nat PROVE p[n + 1] = 2 * p[n]
    <3>1. n + 1 \in Nat /\ n + 1 # 0 /\ (n + 1) - 1 = n
      OBVIOUS
    <3>2. p[n + 1] = 2 * p[(n + 1) - 1]
      BY <1>5, <3>1
    <3> QED BY <3>1, <3>2
  <2> QED BY <2>1, <2>2
<1>7. \A n \in Nat : p[n] \in S
  <2> DEFINE T == {n \in Nat : p[n] \in S}
  <2>1. 0 \in T
    BY <1>6
  <2>2. \A n \in Nat : n \in T => n + 1 \in T
    BY <1>6
  <2> HIDE DEF T
  <2>3. \A n \in Nat : n \in T
    BY <2>1, <2>2, Inductive
  <2> QED BY <2>3 DEF T
<1>8. p \in [Nat -> S]
  <2>1. DOMAIN p = Nat /\ p = [n \in Nat |-> p[n]]
    <3> DEFINE e(n) == IF n = 0 THEN 1 ELSE 2 * p[n - 1]
    <3> HIDE DEF e
    <3>1. p = [n \in Nat |-> e(n)]
      BY <1>5 DEF e
    <3>2. DOMAIN p = Nat /\ \A n \in Nat : p[n] = e(n)
      BY <3>1
    <3> QED BY <3>1, <3>2
  <2> QED BY <1>7, <2>1
<1> QED BY <1>6, <1>8

\* The first b numbers are among the first a.
LEMMA Fewer == ASSUME NEW a \in Int, NEW b \in Int, b <= a PROVE 0 .. b - 1 \subseteq 0 .. a - 1
OBVIOUS
=============================================================================
