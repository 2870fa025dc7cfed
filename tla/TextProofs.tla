----------------------------- MODULE TextProofs -----------------------------
(***************************************************************************)
(* Theorems about Console, for every size of the screen and every text,    *)
(* and about Format and CString, for every text, argument, string and      *)
(* number.  The two share no state: they are here together because both    *)
(* need induction over numbers, which comes first.                         *)
(***************************************************************************)
EXTENDS Console, CString, SequenceTheorems, FiniteSetTheorems, WellFoundedInduction, TLAPS

(* Induction over the natural numbers, for sets. *)

LEMMA LeastNumber ==
  ASSUME NEW T, T \subseteq Nat, T # {}
  PROVE  \E n \in T : \A m \in T : n <= m
<1> DEFINE R == OpToRel(<, Nat)
<1>1. IsWellFoundedOn(R, Nat)
  BY NatLessThanWellFounded, Zenon
<1>2. \A n \in Nat, m \in Nat : m < n => <<m, n>> \in R
  BY Zenon DEF OpToRel
<1> HIDE DEF R
<1>3. PICK n \in T : \A m \in T : ~ (<<m, n>> \in R)
  BY <1>1, WFMin
<1>4. ASSUME NEW m \in T PROVE n <= m
  <2>1. n \in Nat /\ m \in Nat
    OBVIOUS
  <2>2. ~(m < n)
    BY <1>2, <1>3, <2>1, Zenon
  <2> QED
    BY <2>1, <2>2
<1> QED
  BY <1>4

LEMMA Induction ==
  ASSUME NEW S, 0 \in S, \A n \in Nat : n \in S => n + 1 \in S
  PROVE  Nat \subseteq S
<1> DEFINE T == Nat \ S
<1>1. CASE T # {}
  <2>1. PICK n \in T : \A m \in T : n <= m
    BY <1>1, LeastNumber
  <2>2. n - 1 \in Nat /\ n - 1 \notin T
    BY <2>1
  <2> QED
    BY <2>1, <2>2
<1> QED
  BY <1>1

LEMMA StrongInduction ==
  ASSUME NEW S, \A n \in Nat : (\A m \in 0 .. n - 1 : m \in S) => n \in S
  PROVE  Nat \subseteq S
<1> DEFINE T == {n \in Nat : \A m \in 0 .. n : m \in S}
<1>1. 0 \in T
  BY Z3
<1>2. ASSUME NEW n \in Nat, n \in T PROVE n + 1 \in T
  <2>1. \A m \in 0 .. (n + 1) - 1 : m \in S
    BY <1>2
  <2>2. n + 1 \in S
    BY <2>1
  <2> QED
    BY <1>2, <2>2
<1>3. \A n \in T : n \in S
  OBVIOUS
<1> HIDE DEF T
<1> QED
  BY <1>1, <1>2, <1>3, Induction

-----------------------------------------------------------------------------
(* Recursion: a value for 0, and a step from the value at an earlier place. *)

Steps(n, a, h, d, f) ==
    /\ f[0] = a
    /\ \A k \in 1 .. n : f[k] = h[k][f[d[k]]]

Earlier(d) == d \in [Nat -> Nat] /\ \A k \in Nat \ {0} : d[k] < k

LEMMA RecursionExists ==
  ASSUME NEW V, NEW a \in V, NEW h \in [Nat -> [V -> V]],
         NEW d, Earlier(d), NEW n \in Nat
  PROVE  \E f \in [0 .. n -> V] : Steps(n, a, h, d, f)
<1> DEFINE S == {m \in Nat : \E f \in [0 .. m -> V] : Steps(m, a, h, d, f)}
<1>1. 0 \in S
  <2> DEFINE f == [k \in 0 .. 0 |-> a]
  <2>1. f \in [0 .. 0 -> V] /\ Steps(0, a, h, d, f)
    BY DEF Steps
  <2> QED
    BY <2>1, Zenon
<1>2. ASSUME NEW m \in Nat, m \in S
      PROVE  m + 1 \in S
  <2>1. PICK f \in [0 .. m -> V] : Steps(m, a, h, d, f)
    BY <1>2
  <2> DEFINE v == h[m + 1][f[d[m + 1]]]
             g == [k \in 0 .. m + 1 |-> IF k = m + 1 THEN v ELSE f[k]]
  <2>2. d[m + 1] \in 0 .. m
    <3>1. m + 1 \in Nat \ {0}
      OBVIOUS
    <3>2. d[m + 1] \in Nat /\ d[m + 1] < m + 1
      BY <3>1 DEF Earlier
    <3> QED
      BY <3>2
  <2>3. v \in V
    <3>1. f[d[m + 1]] \in V /\ m + 1 \in Nat
      BY <2>2
    <3> QED
      BY <3>1
  <2> HIDE DEF v
  <2>4. g \in [0 .. m + 1 -> V]
    BY <2>3
  <2>5. g[0] = a /\ g[m + 1] = v /\ \A k \in 0 .. m : g[k] = f[k]
    BY <2>1 DEF Steps
  <2> HIDE DEF g
  <2>6. ASSUME NEW k \in 1 .. m + 1
        PROVE  g[k] = h[k][g[d[k]]]
    <3>1. CASE k = m + 1
      <4>1. g[d[m + 1]] = f[d[m + 1]]
        BY <2>2, <2>5
      <4> QED
        BY <2>5, <3>1, <4>1 DEF v
    <3>2. CASE k \in 1 .. m
      <4>1. k \in Nat \ {0}
        OBVIOUS
      <4>2. d[k] \in Nat /\ d[k] < k
        BY <4>1 DEF Earlier
      <4>3. d[k] \in 0 .. m /\ k \in 0 .. m
        BY <3>2, <4>2
      <4>4. g[d[k]] = f[d[k]] /\ g[k] = f[k]
        BY <2>5, <4>3
      <4>5. f[k] = h[k][f[d[k]]]
        BY <2>1, <3>2 DEF Steps
      <4> QED
        BY <4>4, <4>5
    <3> QED
      BY <3>1, <3>2
  <2>7. Steps(m + 1, a, h, d, g)
    BY <2>5, <2>6 DEF Steps
  <2>8. \E u \in [0 .. m + 1 -> V] : Steps(m + 1, a, h, d, u)
    BY <2>4, <2>7, Zenon
  <2> QED
    BY <2>8
<1> HIDE DEF S
<1>3. Nat \subseteq S
  BY <1>1, <1>2, Induction
<1> QED
  BY <1>3 DEF S

\* The same on all of Nat.
Recursion(V, a, h, d) == a \in V /\ h \in [Nat -> [V -> V]] /\ Earlier(d)

Solves(V, a, h, d, f) ==
    /\ f \in [Nat -> V]
    /\ f[0] = a
    /\ \A k \in Nat \ {0} : f[d[k]] \in V /\ f[k] = h[k][f[d[k]]]

LEMMA RecursionOnNat ==
  ASSUME NEW V, NEW a, NEW h, NEW d, Recursion(V, a, h, d)
  PROVE  \E f : Solves(V, a, h, d, f)
<1> DEFINE Upto(n) == CHOOSE f \in [0 .. n -> V] : Steps(n, a, h, d, f)
           f == [n \in Nat |-> Upto(n)[n]]
<1>1. ASSUME NEW n \in Nat
      PROVE  Upto(n) \in [0 .. n -> V] /\ Steps(n, a, h, d, Upto(n))
  <2>1. \E g \in [0 .. n -> V] : Steps(n, a, h, d, g)
    BY RecursionExists DEF Recursion
  <2> QED
    BY <2>1, Zenon
<1> HIDE DEF Upto
<1>2. f \in [Nat -> V]
  <2>1. \A n \in Nat : Upto(n)[n] \in V
    BY <1>1
  <2> QED
    BY <2>1
<1>3. f[0] = a
  BY <1>1 DEF Steps
<1>4. ASSUME NEW n \in Nat, NEW N \in Nat, n <= N
      PROVE  Upto(n)[n] = Upto(N)[n]
  <2> DEFINE S == {m \in Nat : \A k \in 0 .. m : k <= n => Upto(n)[k] = Upto(N)[k]}
  <2>0. Steps(n, a, h, d, Upto(n)) /\ Steps(N, a, h, d, Upto(N))
    BY <1>1
  <2>1. 0 \in S
    BY <2>0 DEF Steps
  <2>2. ASSUME NEW m \in Nat, m \in S
        PROVE  m + 1 \in S
    <3> SUFFICES ASSUME m + 1 <= n PROVE Upto(n)[m + 1] = Upto(N)[m + 1]
      BY <2>2
    <3>1. m + 1 \in Nat \ {0} /\ m + 1 \in 1 .. n /\ m + 1 \in 1 .. N
      BY <1>4
    <3>2. d[m + 1] \in Nat /\ d[m + 1] < m + 1
      BY <3>1 DEF Earlier, Recursion
    <3>3. d[m + 1] \in 0 .. m /\ d[m + 1] <= n
      BY <3>2
    <3>4. Upto(n)[d[m + 1]] = Upto(N)[d[m + 1]]
      BY <2>2, <3>3
    <3>5. /\ Upto(n)[m + 1] = h[m + 1][Upto(n)[d[m + 1]]]
          /\ Upto(N)[m + 1] = h[m + 1][Upto(N)[d[m + 1]]]
      BY <2>0, <3>1 DEF Steps
    <3> QED
      BY <3>4, <3>5
  <2> HIDE DEF S
  <2>3. Nat \subseteq S
    BY <2>1, <2>2, Induction
  <2>4. n \in S /\ n \in 0 .. n
    BY <2>3
  <2> QED
    BY <2>4 DEF S
<1>5. ASSUME NEW k \in Nat \ {0}
      PROVE  f[d[k]] \in V /\ f[k] = h[k][f[d[k]]]
  <2>1. d[k] \in Nat /\ d[k] <= k /\ k \in 1 .. k
    BY DEF Earlier, Recursion
  <2>2. Upto(k)[k] = h[k][Upto(k)[d[k]]]
    BY <1>1, <2>1 DEF Steps
  <2>3. Upto(k)[d[k]] = Upto(d[k])[d[k]]
    BY <1>4, <2>1
  <2> QED
    BY <1>2, <2>1, <2>2, <2>3
<1> HIDE DEF f
<1>6. Solves(V, a, h, d, f)
  BY <1>2, <1>3, <1>5 DEF Solves
<1> QED
  BY <1>6, Zenon

\* Recursion from the place before.
Before == [k \in Nat |-> IF k = 0 THEN 0 ELSE k - 1]

LEMMA BeforeIs == Earlier(Before) /\ \A k \in Nat \ {0} : Before[k] = k - 1
  BY DEF Before, Earlier

-----------------------------------------------------------------------------
(* Powers and quotients. *)

LEMMA DivIs ==
  ASSUME NEW n \in Nat, NEW b \in Nat \ {0}
  PROVE  /\ n \div b \in Nat /\ n % b \in 0 .. b - 1 /\ n = b * (n \div b) + (n % b)
         /\ b * (n \div b) \in Nat
<1>1. n \div b \in Nat /\ n % b \in 0 .. b - 1 /\ n = b * (n \div b) + (n % b)
  BY SMT
<1> QED
  BY <1>1, SMT

LEMMA Product == 
  ASSUME NEW a \in Nat, NEW b \in Nat
  PROVE  a * b \in Nat /\ a * b = b * a
  OBVIOUS

LEMMA Distributes ==
  ASSUME NEW a \in Int, NEW b \in Int, NEW c \in Int
  PROVE  a * (b + c) = a * b + a * c /\ a * b \in Int /\ a * c \in Int
  OBVIOUS

LEMMA Grows ==
  ASSUME NEW a \in Nat, NEW b \in Nat, NEW c \in Nat, a <= b
  PROVE  c * a <= c * b
<1>1. b - a \in Nat
  OBVIOUS
<1>2. c * (b - a) \in Nat
  BY <1>1, Product
<1>3. c * b = c * a + c * (b - a)
  <2>1. b = a + (b - a)
    OBVIOUS
  <2> QED
    BY <1>1, <2>1, Distributes
<1>4. c * a \in Nat
  BY Product
<1> QED
  BY <1>2, <1>3, <1>4

LEMMA DivUnique ==
  ASSUME NEW n \in Nat, NEW b \in Nat \ {0}, NEW q \in Nat, NEW r \in 0 .. b - 1,
         n = b * q + r
  PROVE  n \div b = q /\ n % b = r
<1>1. PICK p \in Nat, t \in 0 .. b - 1 :
         n \div b = p /\ n % b = t /\ n = b * p + t
  BY DivIs
<1>2. PICK bp \in Nat, bq \in Nat : bp = b * p /\ bq = b * q
  BY Product
<1>3. ASSUME p < q PROVE FALSE
  <2>1. b * (p + 1) <= b * q
    BY <1>3, Grows
  <2>2. b * (p + 1) = b * p + b
    <3>1. b * (p + 1) = b * p + b * 1 /\ b * 1 = b
      BY Distributes
    <3> QED
      BY <3>1
  <2>3. bp + b <= bq /\ n = bp + t /\ n = bq + r
    BY <1>1, <1>2, <2>1, <2>2
  <2> QED
    BY <2>3
<1>4. ASSUME q < p PROVE FALSE
  <2>1. b * (q + 1) <= b * p
    BY <1>4, Grows
  <2>2. b * (q + 1) = b * q + b
    <3>1. b * (q + 1) = b * q + b * 1 /\ b * 1 = b
      BY Distributes
    <3> QED
      BY <3>1
  <2>3. bq + b <= bp /\ n = bp + t /\ n = bq + r
    BY <1>1, <1>2, <2>1, <2>2
  <2> QED
    BY <2>3
<1>5. p = q
  BY <1>3, <1>4
<1>6. n = bq + t /\ n = bq + r
  BY <1>1, <1>2, <1>5
<1> QED
  BY <1>1, <1>5, <1>6

\* Dividing twice is dividing by the product.
LEMMA DivTwice ==
  ASSUME NEW n \in Nat, NEW a \in Nat \ {0}, NEW b \in Nat \ {0}
  PROVE  (n \div a) \div b = n \div (b * a) /\ b * a \in Nat \ {0}
<1>1. PICK q \in Nat, r \in 0 .. a - 1 : n \div a = q /\ n = a * q + r
  BY DivIs
<1>2. PICK p \in Nat, t \in 0 .. b - 1 : q \div b = p /\ q = b * p + t
  BY DivIs
<1>3. b * a \in Nat \ {0}
  <2>1. b * 1 <= b * a /\ b * 1 = b /\ b * a \in Nat
    BY Grows, Product
  <2> QED
    BY <2>1
<1>4. n = (b * a) * p + (a * t + r)
  <2>1. a * q = a * (b * p) + a * t
    <3>1. b * p \in Nat
      BY Product
    <3> QED
      BY <1>2, <3>1, Distributes
  <2>2. a * (b * p) = (b * a) * p
    BY SMT
  <2>3. PICK v \in Nat, w \in Nat : v = (b * a) * p /\ w = a * t
    BY <1>3, Product
  <2>4. n = (v + w) + r
    BY <1>1, <2>1, <2>2, <2>3
  <2>5. n = v + (w + r)
    BY <2>4
  <2> QED
    BY <2>3, <2>5
<1>5. a * t + r \in 0 .. b * a - 1
  <2>1. PICK w \in Nat, z \in Nat : w = a * t /\ z = b * a
    BY <1>3, Product
  <2>2. a * (t + 1) <= a * b
    BY Grows
  <2>3. a * (t + 1) = a * t + a
    <3>1. a * (t + 1) = a * t + a * 1 /\ a * 1 = a
      BY Distributes
    <3> QED
      BY <3>1
  <2>4. w + a <= z
    BY <2>1, <2>2, <2>3, Product
  <2>5. w + r \in 0 .. z - 1
    BY <2>4
  <2> QED
    BY <2>1, <2>5
<1>6. p \in Nat /\ n \div (b * a) = p
  <2>1. PICK z \in Nat \ {0} : z = b * a
    BY <1>3
  <2>2. PICK u \in 0 .. z - 1 : u = a * t + r
    BY <1>5, <2>1
  <2>3. n = z * p + u
    BY <1>4, <2>1, <2>2
  <2>4. n \div z = p
    BY <2>3, DivUnique
  <2> QED
    BY <2>1, <2>4
<1> QED
  BY <1>1, <1>2, <1>3, <1>6


LEMMA PowerIs ==
  ASSUME NEW b \in Nat \ {0}
  PROVE  /\ Power(b, 0) = 1
         /\ \A k \in Nat : /\ Power(b, k) \in Nat \ {0}
                          /\ Power(b, k + 1) = b * Power(b, k)
<1> DEFINE h == [k \in Nat |-> [c \in Nat \ {0} |-> b * c]]
           P(f) == f = [j \in Nat |-> IF j = 0 THEN 1 ELSE b * f[j - 1]]
           power == CHOOSE power : power = [j \in Nat |-> IF j = 0 THEN 1 ELSE b * power[j - 1]]
<1>1. \E f : P(f)
  <2>1. h \in [Nat -> [Nat \ {0} -> Nat \ {0}]]
    <3>1. \A c \in Nat \ {0} : b * c \in Nat \ {0}
      BY DivTwice
    <3> QED
      BY <3>1
  <2>2. \A k \in Nat, c \in Nat \ {0} : h[k][c] = b * c
    OBVIOUS
  <2> HIDE DEF h
  <2>3. PICK f : Solves(Nat \ {0}, 1, h, Before, f)
    <3>1. Recursion(Nat \ {0}, 1, h, Before)
      BY <2>1, BeforeIs DEF Recursion
    <3> QED
      BY <3>1, RecursionOnNat, Zenon
  <2>4. \A k \in Nat \ {0} : f[k] = b * f[k - 1]
    <3> SUFFICES ASSUME NEW k \in Nat \ {0} PROVE f[k] = b * f[k - 1]
      OBVIOUS
    <3>1. Before[k] = k - 1
      BY BeforeIs
    <3>2. f[k] = h[k][f[k - 1]] /\ f[k - 1] \in Nat \ {0}
      BY <2>3, <3>1 DEF Solves
    <3> QED
      BY <2>2, <3>2
  <2>5. P(f)
    BY <2>3, <2>4 DEF Solves
  <2> QED
    BY <2>5, Zenon
<1>2. P(power)
  BY <1>1, Zenon
<1>3. \A k \in Nat : Power(b, k) = power[k]
  BY Zenon DEF Power
<1> HIDE DEF power
<1>4. power[0] = 1 /\ \A k \in Nat : power[k + 1] = b * power[k]
  BY <1>2
<1>5. \A k \in Nat : power[k] \in Nat \ {0}
  <2> DEFINE S == {k \in Nat : power[k] \in Nat \ {0}}
  <2>1. 0 \in S
    BY <1>4
  <2>2. ASSUME NEW k \in Nat, k \in S PROVE k + 1 \in S
    <3>1. power[k + 1] = b * power[k]
      BY <1>4
    <3>2. b * power[k] \in Nat \ {0}
      BY <2>2, DivTwice
    <3> QED
      BY <3>1, <3>2
  <2> HIDE DEF S
  <2> QED
    BY <2>1, <2>2, Induction DEF S
<1> QED
  BY <1>3, <1>4, <1>5

-----------------------------------------------------------------------------
(* Numerals. *)

\* Recursion from the quotient.
Quotient(b) == [k \in Nat |-> k \div b]

LEMMA QuotientIs ==
  ASSUME NEW b \in Nat, b >= 2
  PROVE  /\ Earlier(Quotient(b))
         /\ \A k \in Nat : Quotient(b)[k] = k \div b /\ k \div b \in Nat
         /\ \A k \in Nat \ {0} : k \div b < k
<1>1. \A k \in Nat : k \div b \in Nat
  BY DivIs
<1>2. ASSUME NEW k \in Nat \ {0} PROVE k \div b < k
  <2>1. PICK q \in Nat : q = k \div b
    BY <1>1
  <2>2. b * q \in Nat /\ k >= b * q
    BY <2>1, DivIs
  <2>3. 2 * q <= b * q
    BY Grows, Product
  <2> QED
    BY <2>1, <2>2, <2>3
<1> QED
  BY <1>1, <1>2 DEF Quotient, Earlier

LEMMA DivMonotone ==
  ASSUME NEW n \in Nat, NEW m \in Nat, NEW b \in Nat \ {0}, NEW c \in Nat \ {0},
         n <= m, c <= b
  PROVE  n \div b <= m \div c
<1>1. PICK p \in Nat, t \in 0 .. b - 1 : n \div b = p /\ n = b * p + t
  BY DivIs
<1>2. PICK q \in Nat, u \in 0 .. c - 1 : m \div c = q /\ m = c * q + u
  BY DivIs
<1>3. ASSUME q < p PROVE FALSE
  <2>1. c * (q + 1) <= c * p
    BY <1>3, Grows
  <2>2. c * (q + 1) = c * q + c
    <3>1. c * (q + 1) = c * q + c * 1 /\ c * 1 = c
      BY Distributes
    <3> QED
      BY <3>1
  <2>3. p * c <= p * b
    BY Grows
  <2>4. PICK v \in Nat, w \in Nat, z \in Nat : v = c * q /\ w = c * p /\ z = b * p
    BY Product
  <2>5. v + c <= w /\ w <= z /\ n = z + t /\ m = v + u
    BY <1>1, <1>2, <2>1, <2>2, <2>3, <2>4, Product
  <2> QED
    BY <2>5
<1> QED
  BY <1>1, <1>2, <1>3

LEMMA NumlenIs ==
  /\ numlen(0) = 0
  /\ \A n \in Nat : numlen(n) \in Nat
  /\ \A n \in Nat \ {0} : numlen(n) = 1 + numlen(n \div 10)
<1> DEFINE h == [k \in Nat |-> [c \in Nat |-> 1 + c]]
           P(f) == f = [k \in Nat |-> IF k = 0 THEN 0 ELSE 1 + f[k \div 10]]
           len == CHOOSE len : len = [k \in Nat |-> IF k = 0 THEN 0 ELSE 1 + len[k \div 10]]
<1>1. \E f : P(f)
  <2>1. h \in [Nat -> [Nat -> Nat]]
    OBVIOUS
  <2>2. \A k \in Nat, c \in Nat : h[k][c] = 1 + c
    OBVIOUS
  <2> HIDE DEF h
  <2>3. PICK f : Solves(Nat, 0, h, Quotient(10), f)
    <3>1. Recursion(Nat, 0, h, Quotient(10))
      BY <2>1, QuotientIs DEF Recursion
    <3> QED
      BY <3>1, RecursionOnNat, Zenon
  <2>4. \A k \in Nat \ {0} : f[k] = 1 + f[k \div 10]
    <3> SUFFICES ASSUME NEW k \in Nat \ {0} PROVE f[k] = 1 + f[k \div 10]
      OBVIOUS
    <3>1. Quotient(10)[k] = k \div 10
      BY DEF Quotient
    <3>2. f[k] = h[k][f[k \div 10]] /\ f[k \div 10] \in Nat
      BY <2>3, <3>1 DEF Solves
    <3> QED
      BY <2>2, <3>2
  <2>5. P(f)
    BY <2>3, <2>4 DEF Solves
  <2> QED
    BY <2>5, Zenon
<1>2. P(len)
  BY <1>1, Zenon
<1>3. \A n \in Nat : numlen(n) = len[n]
  BY Zenon DEF numlen
<1> HIDE DEF len
<1>4. len[0] = 0 /\ \A k \in Nat \ {0} : len[k] = 1 + len[k \div 10]
  BY <1>2
<1>5. \A k \in Nat \ {0} : k \div 10 \in Nat /\ k \div 10 < k
  BY QuotientIs
<1>6. \A k \in Nat : len[k] \in Nat
  <2> DEFINE S == {k \in Nat : len[k] \in Nat}
  <2>1. ASSUME NEW k \in Nat, \A m \in 0 .. k - 1 : m \in S PROVE k \in S
    <3>1. CASE k = 0
      BY <1>4, <3>1
    <3>2. CASE k # 0
      <4>1. k \div 10 \in 0 .. k - 1
        BY <1>5, <3>2
      <4> QED
        BY <1>4, <2>1, <3>2, <4>1
    <3> QED
      BY <3>1, <3>2
  <2> HIDE DEF S
  <2> QED
    BY <2>1, StrongInduction DEF S
<1> QED
  BY <1>3, <1>4, <1>5, <1>6

LEMMA NumlenMonotone ==
  ASSUME NEW m \in Nat
  PROVE  \A n \in 0 .. m : numlen(n) <= numlen(m)
<1> DEFINE S == {k \in Nat : \A n \in 0 .. k : numlen(n) <= numlen(k)}
<1>1. ASSUME NEW k \in Nat, \A j \in 0 .. k - 1 : j \in S PROVE k \in S
  <2> SUFFICES ASSUME NEW n \in 0 .. k PROVE numlen(n) <= numlen(k)
    OBVIOUS
  <2>1. CASE n = 0
    BY <2>1, NumlenIs
  <2>2. CASE n # 0
    <3>1. n \in Nat \ {0} /\ k \in Nat \ {0} /\ n <= k
      BY <2>2
    <3>2. k \div 10 \in 0 .. k - 1 /\ n \div 10 \in Nat
      BY <3>1, QuotientIs
    <3>3. n \div 10 <= k \div 10
      BY <3>1, DivMonotone
    <3>4. numlen(n \div 10) <= numlen(k \div 10)
      BY <1>1, <3>2, <3>3
    <3>5. numlen(n) = 1 + numlen(n \div 10) /\ numlen(k) = 1 + numlen(k \div 10)
      BY <3>1, NumlenIs
    <3>6. numlen(n \div 10) \in Nat /\ numlen(k \div 10) \in Nat
      BY <3>2, NumlenIs
    <3> QED
      BY <3>4, <3>5, <3>6
  <2> QED
    BY <2>1, <2>2
<1> HIDE DEF S
<1>2. m \in S
  BY <1>1, StrongInduction
<1> QED
  BY <1>2 DEF S

LEMMA DigitsAre ==
  ASSUME NEW b \in Nat, b >= 2
  PROVE  /\ digits(0, b) = <<>>
         /\ \A n \in Nat : digits(n, b) \in Seq(0 .. b - 1)
         /\ \A n \in Nat \ {0} : digits(n, b) = <<n % b>> \o digits(n \div b, b)
<1> DEFINE D == 0 .. b - 1
           h == [k \in Nat |-> [s \in Seq(D) |-> <<k % b>> \o s]]
           P(f) == f = [k \in Nat |-> IF k = 0 THEN <<>> ELSE <<k % b>> \o f[k \div b]]
           low == CHOOSE low : low = [k \in Nat |-> IF k = 0 THEN <<>> ELSE <<k % b>> \o low[k \div b]]
<1>0. \A k \in Nat : \A s \in Seq(D) : <<k % b>> \o s \in Seq(D)
  <2> SUFFICES ASSUME NEW k \in Nat, NEW s \in Seq(D) PROVE <<k % b>> \o s \in Seq(D)
    OBVIOUS
  <2>1. k % b \in D
    BY DivIs
  <2> HIDE DEF D
  <2>2. <<k % b>> \in Seq(D)
    BY <2>1
  <2> QED
    BY <2>2
<1>1. \E f : P(f)
  <2>1. h \in [Nat -> [Seq(D) -> Seq(D)]]
    BY <1>0
  <2>2. \A k \in Nat, s \in Seq(D) : h[k][s] = <<k % b>> \o s
    OBVIOUS
  <2> HIDE DEF h
  <2>3. PICK f : Solves(Seq(D), <<>>, h, Quotient(b), f)
    <3>1. <<>> \in Seq(D)
      BY EmptySeq
    <3> HIDE DEF D
    <3>2. Recursion(Seq(D), <<>>, h, Quotient(b))
      BY <2>1, <3>1, QuotientIs DEF Recursion
    <3> QED
      BY <3>2, RecursionOnNat, Zenon
  <2>4. \A k \in Nat \ {0} : f[k] = <<k % b>> \o f[k \div b]
    <3> SUFFICES ASSUME NEW k \in Nat \ {0} PROVE f[k] = <<k % b>> \o f[k \div b]
      OBVIOUS
    <3>1. Quotient(b)[k] = k \div b
      BY DEF Quotient
    <3> HIDE DEF D
    <3>2. f[k] = h[k][f[k \div b]] /\ f[k \div b] \in Seq(D)
      BY <2>3, <3>1 DEF Solves
    <3> QED
      BY <2>2, <3>2
  <2>5. P(f)
    <3> HIDE DEF D
    <3> QED
      BY <2>3, <2>4 DEF Solves
  <2> QED
    BY <2>5, Zenon
<1>2. P(low)
  BY <1>1, Zenon
<1>3. \A n \in Nat : digits(n, b) = low[n]
  BY Zenon DEF digits
<1> HIDE DEF low
<1>4. low[0] = <<>> /\ \A k \in Nat \ {0} : low[k] = <<k % b>> \o low[k \div b]
  BY <1>2
<1>5. \A k \in Nat \ {0} : k \div b \in Nat /\ k \div b < k
  BY QuotientIs
<1>6. \A k \in Nat : low[k] \in Seq(D)
  <2> DEFINE S == {k \in Nat : low[k] \in Seq(D)}
  <2>1. ASSUME NEW k \in Nat, \A m \in 0 .. k - 1 : m \in S PROVE k \in S
    <3>1. CASE k = 0
      <4>1. <<>> \in Seq(D)
        BY EmptySeq
      <4> HIDE DEF D
      <4> QED
        BY <1>4, <3>1, <4>1
    <3>2. CASE k # 0
      <4>1. k \div b \in 0 .. k - 1
        BY <1>5, <3>2
      <4>2. low[k \div b] \in Seq(D)
        BY <2>1, <4>1
      <4> HIDE DEF D
      <4>3. low[k] \in Seq(D)
        BY <1>0, <1>4, <3>2, <4>2
      <4> QED
        BY <4>3
    <3> QED
      BY <3>1, <3>2
  <2> HIDE DEF S, D
  <2> QED
    BY <2>1, StrongInduction DEF S
<1> QED
  BY <1>3, <1>4, <1>5, <1>6

\* A number has no more digits than decimal ones, from base ten on.
LEMMA DigitsFit ==
  ASSUME NEW b \in Nat, b >= 10
  PROVE  \A n \in Nat : Len(digits(n, b)) <= numlen(n)
<1> DEFINE S == {n \in Nat : Len(digits(n, b)) <= numlen(n)}
<1>1. ASSUME NEW k \in Nat, \A m \in 0 .. k - 1 : m \in S PROVE k \in S
  <2>1. CASE k = 0
    BY <2>1, DigitsAre, NumlenIs
  <2>2. CASE k # 0
    <3>0. k \in Nat \ {0}
      BY <2>2
    <3>1. /\ k \div b \in Nat /\ k \div b < k /\ k \div 10 \in Nat
          /\ k \div b \in 0 .. k - 1
      <4>1. 10 >= 2 /\ b >= 2
        OBVIOUS
      <4>2. k \div b \in Nat /\ k \div b < k
        BY <3>0, <4>1, QuotientIs
      <4>3. k \div 10 \in Nat
        BY <3>0, <4>1, QuotientIs
      <4> QED
        BY <4>2, <4>3
    <3>2. k \div b <= k \div 10
      <4>1. k <= k /\ 10 <= b /\ b \in Nat \ {0} /\ 10 \in Nat \ {0}
        OBVIOUS
      <4> QED
        BY <4>1, DivMonotone
    <3>3. Len(digits(k \div b, b)) <= numlen(k \div b)
      BY <1>1, <3>1
    <3>4. numlen(k \div b) <= numlen(k \div 10)
      BY <3>1, <3>2, NumlenMonotone
    <3>5. numlen(k) = 1 + numlen(k \div 10) /\ digits(k, b) = <<k % b>> \o digits(k \div b, b)
      <4>1. numlen(k) = 1 + numlen(k \div 10)
        BY <3>0, NumlenIs
      <4>2. digits(k, b) = <<k % b>> \o digits(k \div b, b)
        <5>1. b >= 2
          OBVIOUS
        <5> QED
          BY <3>0, <5>1, DigitsAre, Zenon
      <4> QED
        BY <4>1, <4>2
    <3>6. digits(k \div b, b) \in Seq(0 .. b - 1)
      BY <3>1, DigitsAre
    <3>7. Len(digits(k, b)) = 1 + Len(digits(k \div b, b)) /\ Len(digits(k \div b, b)) \in Nat
      BY <3>5, <3>6
    <3>8. numlen(k \div b) \in Nat /\ numlen(k \div 10) \in Nat
      BY <3>1, NumlenIs
    <3> QED
      BY <3>3, <3>4, <3>5, <3>7, <3>8
  <2> QED
    BY <2>1, <2>2
<1> HIDE DEF S
<1> QED
  BY <1>1, StrongInduction DEF S

Extended(s, c, n) == [k \in 1 .. n + 1 |-> IF k = n + 1 THEN c ELSE s[k]]

LEMMA AppendIs ==
  ASSUME NEW V, NEW s \in Seq(V), NEW c \in V, NEW n, n = Len(s)
  PROVE  /\ n \in Nat
         /\ Append(s, c) \in Seq(V) /\ Len(Append(s, c)) = n + 1
         /\ Append(s, c)[n + 1] = c
         /\ \A k \in 1 .. n : Append(s, c)[k] = s[k]
<1>1. n \in Nat
  OBVIOUS
<1>2. Append(s, c) \in Seq(V) /\ Len(Append(s, c)) = n + 1
  OBVIOUS
<1>3. Append(s, c)[n + 1] = c
  OBVIOUS
<1>4. \A k \in 1 .. n : Append(s, c)[k] = s[k]
  OBVIOUS
<1> QED
  BY <1>1, <1>2, <1>3, <1>4

LEMMA AppendExtends ==
  ASSUME NEW V, NEW s \in Seq(V), NEW c \in V
  PROVE  Append(s, c) = Extended(s, c, Len(s))
<1>1. PICK n \in Nat : n = Len(s)
  OBVIOUS
<1>2. PICK t \in Seq(V) : t = Append(s, c) /\ Len(t) = n + 1
  <2>1. Append(s, c) \in Seq(V) /\ Len(Append(s, c)) = n + 1
    BY <1>1
  <2> QED
    BY <2>1, Zenon
<1>3. t[n + 1] = c /\ \A k \in 1 .. n : t[k] = s[k]
  BY <1>1, <1>2
<1>4. t = [k \in 1 .. n + 1 |-> t[k]]
  <2>1. t \in [1 .. n + 1 -> V]
    BY <1>2, LenProperties
  <2> QED
    BY <2>1, Zenon
<1>5. \A k \in 1 .. n + 1 : k = n + 1 \/ k \in 1 .. n
  BY <1>1
<1>6. \A k \in 1 .. n + 1 : t[k] = IF k = n + 1 THEN c ELSE s[k]
  BY <1>3, <1>5, Zenon
<1>7. t = Extended(s, c, n)
  BY <1>4, <1>6, Zenon DEF Extended
<1> QED
  BY <1>1, <1>2, <1>7

LEMMA PrependIs ==
  ASSUME NEW V, NEW s \in Seq(V), NEW c \in V, NEW n, n = Len(s)
  PROVE  /\ <<c>> \o s \in Seq(V) /\ Len(<<c>> \o s) = n + 1
         /\ (<<c>> \o s)[1] = c
         /\ \A k \in 1 .. n : (<<c>> \o s)[k + 1] = s[k]
<1>1. <<c>> \in Seq(V) /\ Len(<<c>>) = 1 /\ <<c>>[1] = c /\ n \in Nat
  OBVIOUS
<1>2. <<c>> \o s \in Seq(V) /\ Len(<<c>> \o s) = n + 1
  BY <1>1
<1>3. (<<c>> \o s)[1] = c
  BY <1>1
<1>4. \A k \in 1 .. n : (<<c>> \o s)[k + 1] = s[k]
  BY <1>1
<1> QED
  BY <1>2, <1>3, <1>4

Read(s, b, f) ==
    f = [k \in 0 .. Len(s) |->
          IF k = 0 THEN 0
          ELSE IF Value(s[k]) = Null THEN f[k - 1]
          ELSE f[k - 1] * b + Value(s[k])]

LEMMA ValueIs == \A c : Value(c) \in Nat \/ Value(c) = Null
  BY DEF Value, Null

LEMMA StrnumIs ==
  ASSUME NEW s, Len(s) \in Nat, NEW b \in Nat
  PROVE  \E f : Read(s, b, f) /\ strnum(s, b) = f[Len(s)]
<1> DEFINE ret == CHOOSE ret :
                    ret = [k \in 0 .. Len(s) |->
                            IF k = 0 THEN 0
                            ELSE IF Value(s[k]) = Null THEN ret[k - 1]
                            ELSE ret[k - 1] * b + Value(s[k])]
           h == [k \in Nat |-> [c \in Nat |->
                  IF Value(s[k]) = Null THEN c ELSE c * b + Value(s[k])]]
<1>1. \E f : Read(s, b, f)
  <2>1. h \in [Nat -> [Nat -> Nat]]
    <3> SUFFICES ASSUME NEW k \in Nat, NEW c \in Nat
                 PROVE  (IF Value(s[k]) = Null THEN c ELSE c * b + Value(s[k])) \in Nat
      OBVIOUS
    <3>1. c * b \in Nat
      BY Product
    <3> QED
      BY <3>1, ValueIs
  <2>2. \A k \in Nat, c \in Nat :
           h[k][c] = IF Value(s[k]) = Null THEN c ELSE c * b + Value(s[k])
    OBVIOUS
  <2> HIDE DEF h
  <2>3. PICK g : Solves(Nat, 0, h, Before, g)
    <3>1. Recursion(Nat, 0, h, Before)
      BY <2>1, BeforeIs DEF Recursion
    <3> QED
      BY <3>1, RecursionOnNat, Zenon
  <2> DEFINE f == [k \in 0 .. Len(s) |-> g[k]]
  <2>4. \A k \in 1 .. Len(s) :
          f[k] = IF Value(s[k]) = Null THEN f[k - 1] ELSE f[k - 1] * b + Value(s[k])
    <3> SUFFICES ASSUME NEW k \in 1 .. Len(s)
                 PROVE  f[k] = IF Value(s[k]) = Null THEN f[k - 1]
                               ELSE f[k - 1] * b + Value(s[k])
      OBVIOUS
    <3>1. k \in Nat \ {0} /\ Before[k] = k - 1
      BY BeforeIs
    <3>2. g[k] = h[k][g[k - 1]] /\ g[k - 1] \in Nat
      BY <2>3, <3>1 DEF Solves
    <3>3. f[k] = g[k] /\ f[k - 1] = g[k - 1]
      OBVIOUS
    <3> HIDE DEF f
    <3> QED
      BY <2>2, <3>1, <3>2, <3>3
  <2>5. f[0] = 0
    BY <2>3 DEF Solves
  <2>6. f = [k \in 0 .. Len(s) |-> f[k]]
    OBVIOUS
  <2> HIDE DEF f
  <2>7. \A k \in 0 .. Len(s) :
          f[k] = IF k = 0 THEN 0
                 ELSE IF Value(s[k]) = Null THEN f[k - 1]
                 ELSE f[k - 1] * b + Value(s[k])
    <3>1. \A k \in 0 .. Len(s) : k # 0 => k \in 1 .. Len(s)
      OBVIOUS
    <3> QED
      BY <2>4, <2>5, <3>1
  <2>8. Read(s, b, f)
    BY <2>6, <2>7, Zenon DEF Read
  <2> QED
    BY <2>8, Zenon
<1>2. Read(s, b, ret)
  BY <1>1, Zenon DEF Read
<1>3. strnum(s, b) = ret[Len(s)]
  BY Zenon DEF strnum
<1> HIDE DEF ret
<1> QED
  BY <1>2, <1>3

LEMMA StrnumAppend ==
  ASSUME NEW s \in Seq(Nat), NEW c \in Nat, NEW b \in Nat
  PROVE  /\ strnum(<<>>, b) = 0
         /\ Value(c) # Null => strnum(Append(s, c), b) = strnum(s, b) * b + Value(c)
<1>1. strnum(<<>>, b) = 0
  <2>1. Len(<<>>) = 0
    OBVIOUS
  <2>2. PICK f : Read(<<>>, b, f) /\ strnum(<<>>, b) = f[0]
    BY <2>1, StrnumIs
  <2> QED
    BY <2>1, <2>2 DEF Read
<1> SUFFICES ASSUME Value(c) # Null
             PROVE  strnum(Append(s, c), b) = strnum(s, b) * b + Value(c)
  BY <1>1
<1>2. PICK t \in Seq(Nat), n \in Nat :
         /\ t = Append(s, c) /\ n = Len(s) /\ Len(t) = n + 1
         /\ t[n + 1] = c /\ \A k \in 1 .. n : t[k] = s[k]
  <2>1. PICK n : n = Len(s)
    OBVIOUS
  <2>2. /\ n \in Nat
        /\ Append(s, c) \in Seq(Nat) /\ Len(Append(s, c)) = n + 1
        /\ Append(s, c)[n + 1] = c
        /\ \A k \in 1 .. n : Append(s, c)[k] = s[k]
    BY <2>1, AppendIs
  <2> QED
    BY <2>1, <2>2, Zenon
<1>3. PICK f : Read(s, b, f) /\ strnum(s, b) = f[n]
  BY <1>2, StrnumIs
<1>4. PICK g : Read(t, b, g) /\ strnum(t, b) = g[n + 1]
  <2>1. Len(t) = n + 1 /\ Len(t) \in Nat
    BY <1>2
  <2>2. \E g : Read(t, b, g) /\ strnum(t, b) = g[Len(t)]
    BY <2>1, StrnumIs
  <2> QED
    BY <2>1, <2>2
<1>5. f[n] = g[n]
  <2> DEFINE S == {k \in Nat : k <= n => f[k] = g[k]}
  <2>1. 0 \in S
    BY <1>2, <1>3, <1>4 DEF Read
  <2>2. ASSUME NEW k \in Nat, k \in S PROVE k + 1 \in S
    <3> SUFFICES ASSUME k + 1 <= n PROVE f[k + 1] = g[k + 1]
      OBVIOUS
    <3>1. f[k] = g[k] /\ t[k + 1] = s[k + 1]
      BY <1>2, <2>2
    <3>2. f[k + 1] = IF Value(s[k + 1]) = Null THEN f[k] ELSE f[k] * b + Value(s[k + 1])
      BY <1>2, <1>3 DEF Read
    <3>3. g[k + 1] = IF Value(t[k + 1]) = Null THEN g[k] ELSE g[k] * b + Value(t[k + 1])
      BY <1>2, <1>4 DEF Read
    <3> QED
      BY <3>1, <3>2, <3>3
  <2> HIDE DEF S
  <2>3. Nat \subseteq S
    BY <2>1, <2>2, Induction
  <2> QED
    BY <2>3 DEF S
<1>6. g[n + 1] = g[n] * b + Value(c)
  BY <1>2, <1>4 DEF Read
<1> QED
  BY <1>2, <1>3, <1>4, <1>5, <1>6

\* A digit is read as itself, from a small letter or a capital.
Capital(c) == IF c > 96 THEN c - 32 ELSE c

LEMMA DigitIsRead ==
  ASSUME NEW r \in 0 .. 35
  PROVE  /\ Code(r) \in Nat /\ Value(Code(r)) = r
         /\ Capital(Code(r)) \in Nat /\ Value(Capital(Code(r))) = r
         /\ r # Null
  BY DEF Code, Value, Capital, Null

LEMMA SmallDigit ==
  ASSUME NEW b \in 2 .. 36, NEW r \in 0 .. b - 1
  PROVE  r \in 0 .. 35
  OBVIOUS

\* The text of digits in turn, and the same in capitals.
Written(low) == [k \in DOMAIN low |-> Code(low[Len(low) + 1 - k])]

LEMMA WrittenIs ==
  ASSUME NEW b \in 2 .. 36, NEW low \in Seq(0 .. b - 1), NEW r \in 0 .. b - 1
  PROVE  /\ Written(low) \in Seq(Nat) /\ Capitals(Written(low)) \in Seq(Nat)
         /\ Len(Written(low)) = Len(low)
         /\ Written(<<r>> \o low) = Append(Written(low), Code(r))
         /\ Capitals(Written(<<r>> \o low)) =
               Append(Capitals(Written(low)), Capital(Code(r)))
<1>1. PICK n \in Nat : n = Len(low) /\ DOMAIN low = 1 .. n
  OBVIOUS
<1>2. \A k \in 1 .. n : /\ Code(low[n + 1 - k]) \in Nat
                        /\ Capital(Code(low[n + 1 - k])) \in Nat
  <2> SUFFICES ASSUME NEW k \in 1 .. n
               PROVE  /\ Code(low[n + 1 - k]) \in Nat
                      /\ Capital(Code(low[n + 1 - k])) \in Nat
    OBVIOUS
  <2>1. n + 1 - k \in 1 .. n
    OBVIOUS
  <2>2. low[n + 1 - k] \in 0 .. 35
    <3>1. low[n + 1 - k] \in 0 .. b - 1
      BY <1>1, <2>1
    <3> QED
      BY <3>1, SmallDigit, Zenon
  <2> QED
    BY <2>2, DigitIsRead
<1>3. Written(low) = [k \in 1 .. n |-> Code(low[n + 1 - k])]
  BY <1>1 DEF Written
<1>4. Written(low) \in Seq(Nat) /\ Len(Written(low)) = n
  BY <1>2, <1>3
<1>5. Capitals(Written(low)) = [k \in 1 .. n |-> Capital(Code(low[n + 1 - k]))]
  BY <1>3 DEF Capitals, Capital
<1>6. Capitals(Written(low)) \in Seq(Nat) /\ Len(Capitals(Written(low))) = n
  BY <1>2, <1>5
<1>7. PICK t \in Seq(0 .. b - 1) :
        /\ t = <<r>> \o low /\ Len(t) = n + 1 /\ DOMAIN t = 1 .. n + 1
        /\ t[1] = r /\ \A k \in 1 .. n : t[k + 1] = low[k]
  <2>1. PICK V : V = 0 .. b - 1
    OBVIOUS
  <2>2. low \in Seq(V) /\ r \in V
    BY <2>1
  <2>3. PICK t : t = <<r>> \o low
    OBVIOUS
  <2>4. t \in Seq(V) /\ Len(t) = n + 1 /\ t[1] = r /\ \A k \in 1 .. n : t[k + 1] = low[k]
    BY <1>1, <2>2, <2>3, PrependIs
  <2>5. DOMAIN t = 1 .. n + 1
    BY <2>4
  <2> QED
    BY <2>1, <2>3, <2>4, <2>5, Zenon
<1>8. Written(t) = [k \in 1 .. n + 1 |-> Code(t[n + 1 + 1 - k])]
  BY <1>7 DEF Written
<1>9. \A k \in 1 .. n : t[n + 1 + 1 - k] = low[n + 1 - k]
  <2> SUFFICES ASSUME NEW k \in 1 .. n PROVE t[n + 1 + 1 - k] = low[n + 1 - k]
    OBVIOUS
  <2>1. n + 1 - k \in 1 .. n /\ n + 1 + 1 - k = (n + 1 - k) + 1
    OBVIOUS
  <2> QED
    BY <1>7, <2>1
<1>10. t[n + 1 + 1 - (n + 1)] = r
  <2>1. n + 1 + 1 - (n + 1) = 1
    OBVIOUS
  <2> QED
    BY <1>7, <2>1
<1>11. Written(t) = Append(Written(low), Code(r))
  <2>1. \A k \in 1 .. n + 1 : Written(t)[k] = IF k = n + 1 THEN Code(r) ELSE Written(low)[k]
    <3> SUFFICES ASSUME NEW k \in 1 .. n + 1
                 PROVE  Written(t)[k] = IF k = n + 1 THEN Code(r) ELSE Written(low)[k]
      OBVIOUS
    <3>1. CASE k = n + 1
      BY <1>8, <1>10, <3>1
    <3>2. CASE k \in 1 .. n
      BY <1>3, <1>8, <1>9, <3>2
    <3> QED
      BY <3>1, <3>2
  <2>2. Append(Written(low), Code(r))
          = Extended(Written(low), Code(r), n)
    <3>1. r \in 0 .. 35
      OBVIOUS
    <3>2. Code(r) \in Nat
      BY <3>1, DigitIsRead
    <3>3. Append(Written(low), Code(r)) = Extended(Written(low), Code(r), Len(Written(low)))
      BY <1>4, <3>2, AppendExtends
    <3> QED
      BY <1>4, <3>3
  <2> QED
    BY <1>8, <2>1, <2>2 DEF Extended
<1>12. Capitals(Written(t)) = Append(Capitals(Written(low)), Capital(Code(r)))
  <2>1. Capitals(Append(Written(low), Code(r)))
          = [k \in 1 .. n + 1 |-> Capital(Append(Written(low), Code(r))[k])]
    BY <1>4 DEF Capitals, Capital
  <2>2. \A k \in 1 .. n : Append(Written(low), Code(r))[k] = Written(low)[k]
    BY <1>4
  <2>3. Append(Written(low), Code(r))[n + 1] = Code(r)
    BY <1>4
  <2>4. \A k \in 1 .. n : Capitals(Written(low))[k] = Capital(Written(low)[k])
    BY <1>4 DEF Capitals, Capital
  <2>5. Append(Capitals(Written(low)), Capital(Code(r)))
          = Extended(Capitals(Written(low)), Capital(Code(r)), n)
    <3>1. r \in 0 .. 35
      OBVIOUS
    <3>2. Capital(Code(r)) \in Nat
      BY <3>1, DigitIsRead
    <3>3. Append(Capitals(Written(low)), Capital(Code(r)))
            = Extended(Capitals(Written(low)), Capital(Code(r)), Len(Capitals(Written(low))))
      BY <1>6, <3>2, AppendExtends
    <3> QED
      BY <1>6, <3>3
  <2>6. \A k \in 1 .. n + 1 :
          Capital(Append(Written(low), Code(r))[k])
            = IF k = n + 1 THEN Capital(Code(r)) ELSE Capitals(Written(low))[k]
    <3>1. \A k \in 1 .. n + 1 : k = n + 1 \/ k \in 1 .. n
      OBVIOUS
    <3> QED
      BY <2>2, <2>3, <2>4, <3>1
  <2> QED
    BY <1>11, <2>1, <2>5, <2>6 DEF Extended
<1> QED
  BY <1>1, <1>4, <1>6, <1>7, <1>11, <1>12

\* The heart of NumbersReadBack, by recursion from the number's quotient.
LEMMA ReadsBack ==
  ASSUME NEW b \in 2 .. 36
  PROVE  \A n \in Nat : /\ strnum(Written(digits(n, b)), b) = n
                       /\ strnum(Capitals(Written(digits(n, b))), b) = n
<1> DEFINE S == {n \in Nat : /\ strnum(Written(digits(n, b)), b) = n
                           /\ strnum(Capitals(Written(digits(n, b))), b) = n}
<1>0. b \in Nat \ {0} /\ b >= 2
  OBVIOUS
<1>1. ASSUME NEW k \in Nat, \A m \in 0 .. k - 1 : m \in S PROVE k \in S
  <2>1. CASE k = 0
    <3>1. Written(<<>>) = <<>> /\ Capitals(<<>>) = <<>>
      BY DEF Written, Capitals
    <3>2. strnum(<<>>, b) = 0
      <4>1. <<>> \in Seq(Nat) /\ 0 \in Nat
        OBVIOUS
      <4> QED
        BY <1>0, <4>1, StrnumAppend
    <3>3. digits(0, b) = <<>>
      BY <1>0, DigitsAre
    <3> QED
      BY <2>1, <3>1, <3>2, <3>3
  <2>2. CASE k # 0
    <3>1. k \in Nat \ {0}
      BY <2>2
    <3>2. PICK q \in Nat, r \in 0 .. b - 1 :
            k \div b = q /\ k % b = r /\ k = b * q + r /\ q < k
      BY <1>0, <3>1, DivIs, QuotientIs
    <3>3. q \in S
      BY <1>1, <3>2
    <3>4. PICK low \in Seq(0 .. b - 1) : low = digits(q, b) /\ digits(k, b) = <<r>> \o low
      BY <1>0, <3>1, <3>2, DigitsAre
    <3>5. r \in 0 .. 35
      OBVIOUS
    <3>6. /\ Written(low) \in Seq(Nat) /\ Capitals(Written(low)) \in Seq(Nat)
          /\ Written(<<r>> \o low) = Append(Written(low), Code(r))
          /\ Capitals(Written(<<r>> \o low)) = Append(Capitals(Written(low)), Capital(Code(r)))
      BY WrittenIs
    <3>7. /\ Code(r) \in Nat /\ Value(Code(r)) = r
          /\ Capital(Code(r)) \in Nat /\ Value(Capital(Code(r))) = r
          /\ r # Null
      BY <3>5, DigitIsRead
    <3>8. strnum(Append(Written(low), Code(r)), b) = strnum(Written(low), b) * b + r
      BY <1>0, <3>6, <3>7, StrnumAppend
    <3>9. strnum(Append(Capitals(Written(low)), Capital(Code(r))), b)
            = strnum(Capitals(Written(low)), b) * b + r
      BY <1>0, <3>6, <3>7, StrnumAppend
    <3>10. strnum(Written(low), b) = q /\ strnum(Capitals(Written(low)), b) = q
      BY <3>3, <3>4
    <3>11. q * b + r = k
      BY <1>0, <3>2, Product
    <3>12. /\ strnum(Written(digits(k, b)), b) = k
           /\ strnum(Capitals(Written(digits(k, b))), b) = k
      BY <3>4, <3>6, <3>8, <3>9, <3>10, <3>11
    <3> QED
      BY <3>12
  <2> QED
    BY <2>1, <2>2
<1> HIDE DEF S
<1> QED
  BY <1>1, StrongInduction DEF S

-----------------------------------------------------------------------------
(* Calls of the string functions. *)

\* The characters of a number's text.
LEMMA NumstrIs ==
  ASSUME NEW b \in 2 .. 36, NEW n \in Nat
  PROVE  /\ strnum(numstr(n, b).chars, b) = n
         /\ strnum(Capitals(numstr(n, b).chars), b) = n
         /\ b >= 10 => ~(Len(numstr(n, b).chars) + 1 > numstr(n, b).holds)
<1>0. b \in Nat \ {0} /\ b >= 2 /\ 0 \in 0 .. b - 1
  OBVIOUS
<1>1. CASE n = 0
  <2>1. numstr(n, b).chars = Written(<<0>>) /\ numstr(n, b).holds = 2
    BY <1>1 DEF numstr, Built, Written
  <2>2. Written(<<0>>) = Append(<<>>, Code(0)) /\ Len(Written(<<0>>)) = 1
    BY DEF Written
  <2>3. Capitals(Written(<<0>>)) = Append(<<>>, Capital(Code(0)))
    BY DEF Written, Capitals, Capital
  <2>4. /\ Code(0) \in Nat /\ Value(Code(0)) = 0
        /\ Capital(Code(0)) \in Nat /\ Value(Capital(Code(0))) = 0
        /\ 0 # Null
    BY DigitIsRead
  <2>5. <<>> \in Seq(Nat) /\ 0 \in Nat
    OBVIOUS
  <2>6. strnum(<<>>, b) = 0
    BY <1>0, <2>5, StrnumAppend
  <2>7. ASSUME NEW c \in Nat, Value(c) = 0
        PROVE  strnum(Append(<<>>, c), b) = strnum(<<>>, b) * b + 0
    <3>1. b \in Nat /\ Value(c) # Null
      BY <2>4, <2>7
    <3>2. strnum(Append(<<>>, c), b) = strnum(<<>>, b) * b + Value(c)
      BY <2>5, <3>1, StrnumAppend, Zenon
    <3> QED
      BY <2>7, <3>2
  <2>8. /\ strnum(Append(<<>>, Code(0)), b) = strnum(<<>>, b) * b + 0
        /\ strnum(Append(<<>>, Capital(Code(0))), b) = strnum(<<>>, b) * b + 0
    BY <2>4, <2>7, Zenon
  <2>9. 0 * b + 0 = 0
    OBVIOUS
  <2>10. ~(Len(Written(<<0>>)) + 1 > 2)
    <3>1. Len(Written(<<0>>)) = 1
      BY <2>2
    <3>2. ~(1 + 1 > 2)
      OBVIOUS
    <3> QED
      BY <3>1, <3>2, Zenon
  <2> QED
    BY <1>1, <2>1, <2>2, <2>3, <2>6, <2>8, <2>9, <2>10
<1>2. CASE n # 0
  <2>1. numstr(n, b).chars = Written(digits(n, b)) /\ numstr(n, b).holds = numlen(n) + 1
    BY <1>2 DEF numstr, Built, Written
  <2>2. /\ strnum(Written(digits(n, b)), b) = n
        /\ strnum(Capitals(Written(digits(n, b))), b) = n
    BY ReadsBack
  <2>3. ASSUME b >= 10 PROVE ~(Len(Written(digits(n, b))) + 1 > numlen(n) + 1)
    <3>1. digits(n, b) \in Seq(0 .. b - 1)
      BY <1>0, DigitsAre
    <3>2. Len(Written(digits(n, b))) = Len(digits(n, b))
      BY <1>0, <3>1, WrittenIs
    <3>3. Len(digits(n, b)) <= numlen(n)
      BY <1>0, <2>3, DigitsFit
    <3>4. Len(digits(n, b)) \in Nat /\ numlen(n) \in Nat
      BY <3>1, NumlenIs
    <3> QED
      BY <3>2, <3>3, <3>4
  <2> QED
    BY <2>1, <2>2, <2>3
<1> QED
  BY <1>1, <1>2

Keeps(s, del, f) ==
    f = [k \in 0 .. Len(s) |->
          IF k = 0 THEN <<>>
          ELSE f[k - 1] \o IF \E j \in DOMAIN del : s[k] = del[j] THEN <<>> ELSE <<s[k]>>]

LEMMA StrdelsIs ==
  ASSUME NEW s \in Seq(1 .. 127), NEW del
  PROVE  /\ strdels(s, del).chars \in Seq(Nat) /\ strdels(s, del).holds = Len(s) - Len(del)
         /\ \E f : Keeps(s, del, f) /\ strdels(s, del).chars = f[Len(s)]
<1> DEFINE kept == CHOOSE kept :
             kept = [k \in 0 .. Len(s) |->
                      IF k = 0 THEN <<>>
                      ELSE kept[k - 1] \o IF \E j \in DOMAIN del : s[k] = del[j]
                                          THEN <<>> ELSE <<s[k]>>]
           Adds(k) == IF k \in 1 .. Len(s) /\ ~ \E j \in DOMAIN del : s[k] = del[j]
                      THEN <<s[k]>> ELSE <<>>
           h == [k \in Nat |-> [c \in Seq(Nat) |-> c \o Adds(k)]]
<1>0. Len(s) \in Nat
  OBVIOUS
<1>1. \A k \in Nat : Adds(k) \in Seq(Nat)
  <2> SUFFICES ASSUME NEW k \in Nat PROVE Adds(k) \in Seq(Nat)
    OBVIOUS
  <2>1. k \in 1 .. Len(s) => s[k] \in Nat
    <3>1. \A c \in 1 .. 127 : c \in Nat
      OBVIOUS
    <3>2. k \in 1 .. Len(s) => s[k] \in 1 .. 127
      BY ElementOfSeq, Zenon
    <3> QED
      BY <3>1, <3>2, Zenon
  <2>2. \A c \in Nat : <<c>> \in Seq(Nat)
    OBVIOUS
  <2>3. <<>> \in Seq(Nat)
    OBVIOUS
  <2> QED
    BY <2>1, <2>2, <2>3
<1>2. \A k \in 1 .. Len(s) :
        Adds(k) = IF \E j \in DOMAIN del : s[k] = del[j] THEN <<>> ELSE <<s[k]>>
  OBVIOUS
<1> HIDE DEF Adds
<1>3. \E f : Keeps(s, del, f) /\ f[Len(s)] \in Seq(Nat)
  <2>1. h \in [Nat -> [Seq(Nat) -> Seq(Nat)]]
    BY <1>1
  <2>2. \A k \in Nat, c \in Seq(Nat) : h[k][c] = c \o Adds(k)
    OBVIOUS
  <2> HIDE DEF h
  <2>3. PICK g : Solves(Seq(Nat), <<>>, h, Before, g)
    <3>1. <<>> \in Seq(Nat)
      OBVIOUS
    <3>2. Recursion(Seq(Nat), <<>>, h, Before)
      BY <2>1, <3>1, BeforeIs DEF Recursion
    <3> QED
      BY <3>2, RecursionOnNat, Zenon
  <2> DEFINE f == [k \in 0 .. Len(s) |-> g[k]]
  <2>4. \A k \in 1 .. Len(s) :
          f[k] = f[k - 1] \o IF \E j \in DOMAIN del : s[k] = del[j] THEN <<>> ELSE <<s[k]>>
    <3> SUFFICES ASSUME NEW k \in 1 .. Len(s)
                 PROVE  f[k] = f[k - 1] \o IF \E j \in DOMAIN del : s[k] = del[j]
                                            THEN <<>> ELSE <<s[k]>>
      OBVIOUS
    <3>1. k \in Nat \ {0} /\ Before[k] = k - 1
      BY <1>0, BeforeIs
    <3>2. g[k] = h[k][g[k - 1]] /\ g[k - 1] \in Seq(Nat)
      BY <2>3, <3>1 DEF Solves
    <3>3. f[k] = g[k] /\ f[k - 1] = g[k - 1]
      BY <1>0
    <3> HIDE DEF f
    <3>4. g[k] = g[k - 1] \o Adds(k)
      BY <2>2, <3>1, <3>2
    <3> QED
      BY <1>2, <3>3, <3>4
  <2>5. f[0] = <<>>
    BY <1>0, <2>3 DEF Solves
  <2>6. f = [k \in 0 .. Len(s) |-> f[k]]
    OBVIOUS
  <2>7. f[Len(s)] \in Seq(Nat)
    BY <1>0, <2>3 DEF Solves
  <2> HIDE DEF f
  <2>8. \A k \in 0 .. Len(s) :
          f[k] = IF k = 0 THEN <<>>
                 ELSE f[k - 1] \o IF \E j \in DOMAIN del : s[k] = del[j]
                                  THEN <<>> ELSE <<s[k]>>
    <3>1. \A k \in 0 .. Len(s) : k # 0 => k \in 1 .. Len(s)
      BY <1>0
    <3> QED
      BY <2>4, <2>5, <3>1
  <2>9. Keeps(s, del, f)
    BY <2>6, <2>8, Zenon DEF Keeps
  <2> QED
    BY <2>7, <2>9, Zenon
<1>4. Keeps(s, del, kept)
  BY <1>3, Zenon DEF Keeps
<1>5. strdels(s, del).chars = kept[Len(s)] /\ strdels(s, del).holds = Len(s) - Len(del)
  <2>1. strdels(s, del) = Built(kept[Len(s)], Len(s) - Len(del))
    BY Zenon DEF strdels
  <2> HIDE DEF kept
  <2> QED
    BY <2>1 DEF Built
<1> HIDE DEF kept
<1>6. PICK f : Keeps(s, del, f) /\ f[Len(s)] \in Seq(Nat)
  BY <1>3, Zenon
<1>7. kept[Len(s)] = f[Len(s)]
  <2> DEFINE S == {k \in Nat : k <= Len(s) => kept[k] = f[k]}
  <2>1. 0 \in S
    BY <1>0, <1>4, <1>6 DEF Keeps
  <2>2. ASSUME NEW k \in Nat, k \in S PROVE k + 1 \in S
    <3> SUFFICES ASSUME k + 1 <= Len(s) PROVE kept[k + 1] = f[k + 1]
      OBVIOUS
    <3>1. k + 1 \in 0 .. Len(s) /\ k + 1 # 0 /\ (k + 1) - 1 = k
      BY <1>0
    <3>2. kept[k] = f[k]
      BY <1>0, <2>2
    <3>3. PICK a : a = IF \E j \in DOMAIN del : s[k + 1] = del[j] THEN <<>> ELSE <<s[k + 1]>>
      OBVIOUS
    <3>4. kept[k + 1] = kept[k] \o a
      BY <1>4, <3>1, <3>3 DEF Keeps
    <3>5. f[k + 1] = f[k] \o a
      BY <1>6, <3>1, <3>3 DEF Keeps
    <3> QED
      BY <3>2, <3>4, <3>5
  <2> HIDE DEF S
  <2>3. Len(s) \in S
    BY <1>0, <2>1, <2>2, Induction
  <2> QED
    BY <1>0, <2>3 DEF S
<1> QED
  BY <1>5, <1>6, <1>7

LEMMA ReadsQuietly ==
  ASSUME NEW f, NEW s, NEW t, NEW n, NEW answer, Reads(f, s, t, n, answer)
  PROVE  /\ pc' = "answered" /\ ruin' = ruin
         /\ call'.of = f
  BY DEF Reads, Calls

LEMMA BuildsFits ==
  ASSUME NEW f, NEW s, NEW t, NEW n, NEW built, Builds(f, s, t, n, built)
  PROVE  /\ pc' = "answered"
         /\ call'.of = f /\ call'.s = s /\ call'.t = t /\ call'.n = n
         /\ out' = built.chars /\ ruin' # "behind"
         /\ ruin' = "overrun" => Len(built.chars) + 1 > built.holds
  BY DEF Builds, Calls

LEMMA TailIs ==
  ASSUME NEW s \in Seq(1 .. 127), NEW k \in Nat, NEW j \in k .. Len(s)
  PROVE  Len(SubSeq(s, k + 1, j)) = j - k /\ SubSeq(s, k + 1, j) \in Seq(1 .. 127)
<1>1. j \in Nat /\ j <= Len(s) /\ k + 1 <= j + 1 /\ k + 1 \in Nat
  BY LenProperties
<1>2. \A r \in k + 1 .. j : s[r] \in 1 .. 127
  <2>1. \A r \in k + 1 .. j : r \in 1 .. Len(s)
    BY <1>1
  <2>2. \A r \in 1 .. Len(s) : s[r] \in 1 .. 127
    BY ElementOfSeq
  <2> QED
    BY <2>1, <2>2, Zenon
<1> QED
  BY <1>1, <1>2, SubSeqProperties

\* A string function leaves what RuinExplained says of it.
LEMMA StringCallExplained ==
  ASSUME pc = "ready" => ruin = "none", StringCall
  PROVE  RuinExplained' /\ NumbersReadBack' /\ pc = "ready" /\ pc' = "answered"
<1> DEFINE Fine == /\ pc' = "answered"
                   /\ call'.of # "numstr"
                   /\ ruin' \notin {"overrun", "behind"}
<1>0. pc = "ready" /\ ruin = "none"
  BY DEF StringCall
<1>8. Fine => RuinExplained' /\ NumbersReadBack' /\ pc = "ready" /\ pc' = "answered"
  BY <1>0 DEF RuinExplained, NumbersReadBack
<1>1. CASE \E s, t \in Strings : Compare(s, t)
  <2>1. Fine
    BY <1>0, <1>1, ReadsQuietly DEF Compare
  <2> QED
    BY <1>8, <2>1
<1>2. CASE \E s, t \in Strings : Search(s, t)
  <2>1. Fine
    BY <1>0, <1>2, ReadsQuietly DEF Search
  <2> QED
    BY <1>8, <2>1
<1>3. CASE \E s, t \in Strings : Split(s, t)
  <2>1. Fine
    BY <1>0, <1>3, ReadsQuietly DEF Split
  <2> QED
    BY <1>8, <2>1
<1>4. CASE \E s \in Strings : Copy(s)
  <2>1. Fine
    BY <1>0, <1>4, ReadsQuietly DEF Copy
  <2> QED
    BY <1>8, <2>1
<1>5. CASE \E s, t \in Strings : Concatenate(s, t)
  <2>1. PICK d \in Seq(1 .. 127), s \in Seq(1 .. 127) : Concatenate(d, s)
    BY <1>5, CStringAssumption DEF CStringAssumption
  <2>2. PICK k \in Nat, l \in Nat : k = Len(d) /\ l = Len(s)
    OBVIOUS
  <2>3. CASE l < k
    <3>1. /\ Calls("strcat", d, s, 0) \/ \E n \in 0 .. 3 : Calls("strncat", d, s, n)
          /\ ruin' = "behind"
      <4>1. ~(Len(s) >= Len(d))
        BY <2>2, <2>3
      <4> QED
        BY <2>1, <4>1, Zenon DEF Concatenate
    <3>2. /\ pc' = "answered" /\ call'.of \in {"strcat", "strncat"}
          /\ call'.s = d /\ call'.t = s
      BY <3>1 DEF Calls
    <3>3. Len(call'.t) < Len(call'.s)
      BY <2>2, <2>3, <3>2
    <3> QED
      BY <1>0, <3>1, <3>2, <3>3 DEF RuinExplained, NumbersReadBack
  <2>4. CASE k <= l
    <3>1. \A j \in k .. l : Len(d \o SubSeq(s, k + 1, j)) = j
      <4> SUFFICES ASSUME NEW j \in k .. l PROVE Len(d \o SubSeq(s, k + 1, j)) = j
        OBVIOUS
      <4>1. Len(SubSeq(s, k + 1, j)) = j - k /\ SubSeq(s, k + 1, j) \in Seq(1 .. 127)
        BY <2>2, TailIs
      <4> QED
        BY <2>2, <4>1
    <3>2. CASE Builds("strcat", d, s, 0, strcat(d, s))
      <4>1. strcat(d, s).chars = d \o SubSeq(s, k + 1, l) /\ strcat(d, s).holds = k + l + 1
        BY <2>2 DEF strcat, Built
      <4>2. Len(strcat(d, s).chars) = l
        <5>1. l \in k .. l
          BY <2>4
        <5> QED
          BY <3>1, <4>1, <5>1
      <4>3. Fine
        BY <3>2, <4>1, <4>2, BuildsFits
      <4> QED
        BY <1>8, <4>3
    <3>3. ASSUME NEW n \in 0 .. 3, Builds("strncat", d, s, n, strncat(d, s, n))
          PROVE  Fine
      <4>1. PICK j \in Int : j = IF n < l THEN n ELSE l
        OBVIOUS
      <4>2. /\ strncat(d, s, n).chars = d \o SubSeq(s, k + 1, j)
            /\ strncat(d, s, n).holds = k + n + 1
        BY <2>2, <4>1 DEF strncat, Built
      <4>3. CASE j >= k
        <5>1. Len(strncat(d, s, n).chars) = j
          BY <3>1, <4>1, <4>2, <4>3
        <5> QED
          BY <3>3, <4>1, <4>2, <5>1, BuildsFits
      <4>4. CASE j < k
        <5>1. SubSeq(s, k + 1, j) = <<>>
          BY <4>4
        <5>2. Len(strncat(d, s, n).chars) = k
          <6>1. d \o <<>> = d
            OBVIOUS
          <6> QED
            BY <2>2, <4>2, <5>1, <6>1
        <5> QED
          BY <3>3, <4>2, <5>2, BuildsFits
      <4> QED
        BY <4>1, <4>3, <4>4
    <3>4. ~(Len(s) < Len(d))
      BY <2>2, <2>4
    <3> HIDE DEF Fine
    <3>5. Builds("strcat", d, s, 0, strcat(d, s))
            \/ \E n \in 0 .. 3 : Builds("strncat", d, s, n, strncat(d, s, n))
      BY <2>1, <3>4, Zenon DEF Concatenate
    <3>6. CASE \E n \in 0 .. 3 : Builds("strncat", d, s, n, strncat(d, s, n))
      BY <1>8, <3>3, <3>6, Zenon
    <3> QED
      BY <3>2, <3>5, <3>6, Zenon
  <2> QED
    BY <2>3, <2>4
<1>6. CASE \E s, t \in Strings : Delete(s, t)
  <2>1. PICK s \in Seq(1 .. 127), t \in Seq(1 .. 127) : Delete(s, t)
    BY <1>6, CStringAssumption DEF CStringAssumption
  <2>2. CASE Builds("strdels", s, t, 0, strdels(s, t))
    <3>1. /\ pc' = "answered" /\ ruin' # "behind"
          /\ call'.of = "strdels" /\ call'.s = s /\ call'.t = t
          /\ out' = strdels(s, t).chars
          /\ ruin' = "overrun" => Len(strdels(s, t).chars) + 1 > strdels(s, t).holds
      BY <2>2, BuildsFits
    <3>2. PICK l \in Nat, k \in Nat, m \in Nat :
            /\ l = Len(s) /\ k = Len(t) /\ m = Len(strdels(s, t).chars)
            /\ strdels(s, t).holds = l - k
      <4>1. strdels(s, t).chars \in Seq(Nat) /\ strdels(s, t).holds = Len(s) - Len(t)
        BY StrdelsIs
      <4>2. Len(s) \in Nat /\ Len(t) \in Nat /\ Len(strdels(s, t).chars) \in Nat
        BY <4>1
      <4> QED
        BY <4>1, <4>2, Zenon
    <3>3. ruin' = "overrun" => l - m < k + 1
      BY <3>1, <3>2
    <3> QED
      BY <1>0, <3>1, <3>2, <3>3 DEF RuinExplained, NumbersReadBack
  <2>3. CASE t # <<>> /\ Builds("strdelc", s, t, t[1], strdelc(s, t[1]))
    <3>1. /\ pc' = "answered" /\ ruin' # "behind"
          /\ call'.of = "strdelc" /\ call'.s = s
          /\ out' = strdelc(s, t[1]).chars
          /\ ruin' = "overrun" => Len(strdelc(s, t[1]).chars) + 1 > strdelc(s, t[1]).holds
      BY <2>3, BuildsFits
    <3>2. strdels(s, <<t[1]>>).chars \in Seq(Nat)
      BY StrdelsIs
    <3>3. /\ strdelc(s, t[1]).chars = strdels(s, <<t[1]>>).chars
          /\ strdelc(s, t[1]).holds = Len(s) - 1
      BY DEF strdelc, strdels, Built
    <3>4. PICK l \in Nat, m \in Nat :
            /\ l = Len(s) /\ m = Len(strdelc(s, t[1]).chars)
            /\ strdelc(s, t[1]).holds = l - 1
      BY <3>2, <3>3
    <3>5. ruin' = "overrun" => l - m < 2
      BY <3>1, <3>4
    <3> QED
      BY <1>0, <3>1, <3>4, <3>5 DEF RuinExplained, NumbersReadBack
  <2> QED
    BY <2>1, <2>2, <2>3 DEF Delete
<1>7. CASE \E n \in Numbers : Convert(n)
  <2>1. PICK n \in Nat, b \in 2 .. 36 :
          Builds("numstr", <<>>, <<>>, [num |-> n, base |-> b], numstr(n, b))
    <3>1. PICK n \in Numbers : Convert(n)
      BY <1>7
    <3>2. n \in Nat
      BY CStringAssumption DEF CStringAssumption
    <3> QED
      BY <3>1, <3>2, Zenon DEF Convert
  <2>2. /\ pc' = "answered" /\ ruin' # "behind"
        /\ call'.of = "numstr" /\ call'.n = [num |-> n, base |-> b]
        /\ out' = numstr(n, b).chars
        /\ ruin' = "overrun" => Len(numstr(n, b).chars) + 1 > numstr(n, b).holds
    BY <2>1, BuildsFits
  <2>3. call'.n.num = n /\ call'.n.base = b /\ b \in 2 .. 36
    BY <2>2
  <2>4. /\ strnum(out', b) = n
        /\ strnum(Capitals(out'), b) = n
        /\ b >= 10 => ~(Len(numstr(n, b).chars) + 1 > numstr(n, b).holds)
    BY <2>2, <2>3, NumstrIs
  <2>5. NumbersReadBack'
    BY <2>2, <2>3, <2>4 DEF NumbersReadBack, strnum, Capitals
  <2>6. ruin' = "overrun" => b < 10
    <3>1. ruin' = "overrun" => ~(b >= 10)
      BY <2>2, <2>4, Zenon
    <3> QED
      BY <3>1
  <2> QED
    BY <1>0, <2>2, <2>3, <2>5, <2>6 DEF RuinExplained
<1> QED
  BY <1>1, <1>2, <1>3, <1>4, <1>5, <1>6, <1>7 DEF StringCall

-----------------------------------------------------------------------------
(* The numeral a number is printed as. *)

LEMMA PowerGrows ==
  ASSUME NEW b \in Nat, b >= 2
  PROVE  /\ \A k \in Nat : Power(b, k) \in Nat /\ Power(b, k) > k
         /\ \A m \in Nat : \A k \in 0 .. m : Power(b, k) <= Power(b, m)
<1>0. b \in Nat \ {0}
  OBVIOUS
<1>1. ASSUME NEW k \in Nat
      PROVE  /\ Power(b, k) \in Nat \ {0} /\ Power(b, k + 1) \in Nat
             /\ 2 * Power(b, k) <= Power(b, k + 1)
  <2>1. PICK p \in Nat \ {0} : p = Power(b, k) /\ Power(b, k + 1) = b * p
    BY <1>0, PowerIs
  <2>2. p * 2 <= p * b /\ p * b = b * p /\ p * 2 = 2 * p /\ b * p \in Nat
    BY Grows, Product
  <2> QED
    BY <2>1, <2>2
<1>2. \A k \in Nat : Power(b, k) \in Nat /\ Power(b, k) > k
  <2> DEFINE S == {k \in Nat : Power(b, k) > k}
  <2>1. 0 \in S
    BY <1>0, PowerIs
  <2>2. ASSUME NEW k \in Nat, k \in S PROVE k + 1 \in S
    <3>1. PICK p \in Nat, q \in Nat :
            p = Power(b, k) /\ q = Power(b, k + 1) /\ 2 * p <= q /\ p > k
      BY <1>1, <2>2
    <3> QED
      BY <3>1
  <2> HIDE DEF S
  <2>3. Nat \subseteq S
    BY <2>1, <2>2, Induction
  <2> QED
    BY <1>1, <2>3 DEF S
<1>3. \A m \in Nat : \A k \in 0 .. m : Power(b, k) <= Power(b, m)
  <2> DEFINE S == {m \in Nat : \A k \in 0 .. m : Power(b, k) <= Power(b, m)}
  <2>1. 0 \in S
    BY <1>2
  <2>2. ASSUME NEW m \in Nat, m \in S PROVE m + 1 \in S
    <3> SUFFICES ASSUME NEW k \in 0 .. m + 1 PROVE Power(b, k) <= Power(b, m + 1)
      OBVIOUS
    <3>1. CASE k = m + 1
      BY <1>2, <3>1
    <3>2. CASE k \in 0 .. m
      <4>1. PICK p \in Nat, q \in Nat, r \in Nat :
              /\ p = Power(b, k) /\ q = Power(b, m) /\ r = Power(b, m + 1)
              /\ p <= q /\ 2 * q <= r
        <5>1. k \in Nat /\ m + 1 \in Nat
          BY <3>2
        <5>2. /\ Power(b, k) \in Nat /\ Power(b, m) \in Nat /\ Power(b, m + 1) \in Nat
              /\ 2 * Power(b, m) <= Power(b, m + 1)
          BY <1>1, <1>2, <5>1, Zenon
        <5>3. Power(b, k) <= Power(b, m)
          BY <2>2, <3>2
        <5> QED
          BY <5>2, <5>3, Zenon
      <4> QED
        BY <4>1
    <3> QED
      BY <3>1, <3>2
  <2> HIDE DEF S
  <2>3. Nat \subseteq S
    BY <2>1, <2>2, Induction
  <2> QED
    BY <2>3 DEF S
<1> QED
  BY <1>2, <1>3

Long(n, b, l) ==
    l \in 1 .. n + 1 /\ Power(b, l) > n /\ (l > 1 => Power(b, l - 1) <= n)

\* How long a numeral is: for a digit, and for a number with a quotient.
LEMMA LongIs ==
  ASSUME NEW b \in Nat, b >= 2, NEW n \in Nat
  PROVE  /\ n < b => Long(n, b, 1)
         /\ \A m \in Nat : n >= b /\ Long(n \div b, b, m) => Long(n, b, m + 1)
         /\ \E l \in Nat : Long(n, b, l)
         /\ \A l, m \in Nat : Long(n, b, l) /\ Long(n, b, m) => l = m
<1>0. b \in Nat \ {0} /\ Power(b, 1) = b
  <2>1. b \in Nat \ {0} /\ 0 \in Nat /\ 0 + 1 = 1
    OBVIOUS
  <2>2. Power(b, 0) = 1 /\ Power(b, 0 + 1) = b * Power(b, 0)
    BY <2>1, PowerIs
  <2>3. b * 1 = b
    BY Product
  <2> QED
    BY <2>1, <2>2, <2>3
<1>1. ASSUME n < b PROVE Long(n, b, 1)
  BY <1>0, <1>1 DEF Long
<1>2. ASSUME NEW m \in Nat, n >= b, Long(n \div b, b, m) PROVE Long(n, b, m + 1)
  <2>1. PICK q \in Nat, r \in 0 .. b - 1 : q = n \div b /\ n = b * q + r
    BY <1>0, DivIs
  <2>2. PICK v \in Nat : v = b * q /\ n = v + r
    BY <2>1, Product
  <2>3. /\ m \in 1 .. q + 1 /\ Power(b, m) > q /\ (m > 1 => Power(b, m - 1) <= q)
    BY <1>2, <2>1 DEF Long
  <2>4. q < n
    <3>1. n \in Nat \ {0}
      BY <1>0, <1>2
    <3> QED
      BY <2>1, <3>1, QuotientIs
  <2>5. PICK p \in Nat, P \in Nat : p = Power(b, m) /\ P = Power(b, m + 1) /\ P = b * p
    <3>1. Power(b, m) \in Nat
      BY PowerGrows
    <3>2. Power(b, m + 1) = b * Power(b, m)
      BY <1>0, PowerIs
    <3>3. b * Power(b, m) \in Nat
      BY <3>1, Product
    <3> QED
      BY <3>1, <3>2, <3>3
  <2>6. P > n
    <3>1. b * (q + 1) <= b * p
      BY <2>3, <2>5, Grows
    <3>2. b * (q + 1) = b * q + b
      <4>1. b * (q + 1) = b * q + b * 1 /\ b * 1 = b
        BY Distributes
      <4> QED
        BY <4>1
    <3>3. v + b <= P
      BY <2>2, <2>5, <3>1, <3>2
    <3> QED
      BY <2>2, <3>3
  <2>7. p <= n
    <3>1. CASE m = 1
      BY <1>0, <1>2, <2>5, <3>1
    <3>2. CASE m > 1
      <4>1. PICK k \in Nat : k = m - 1 /\ m = k + 1
        BY <3>2
      <4>2. PICK o \in Nat : o = Power(b, k) /\ p = b * o
        <5>1. Power(b, k) \in Nat
          BY PowerGrows
        <5>2. Power(b, k + 1) = b * Power(b, k)
          BY <1>0, PowerIs
        <5> QED
          BY <2>5, <4>1, <5>1, <5>2
      <4>3. o <= q
        BY <2>3, <3>2, <4>1, <4>2
      <4>4. b * o <= b * q
        BY <4>3, Grows
      <4> QED
        BY <2>2, <4>2, <4>4
    <3> QED
      BY <2>3, <3>1, <3>2
  <2>8. m + 1 \in 1 .. n + 1 /\ (m + 1) - 1 = m
    BY <2>3, <2>4
  <2> QED
    BY <2>5, <2>6, <2>7, <2>8 DEF Long
<1>3. \E l \in Nat : Long(n, b, l)
  <2> DEFINE T == {l \in 1 .. n + 1 : Power(b, l) > n}
  <2>1. n + 1 \in T
    <3>1. Power(b, n + 1) \in Nat /\ Power(b, n + 1) > n + 1
      BY PowerGrows
    <3> QED
      BY <3>1
  <2>2. T \subseteq Nat /\ T # {}
    BY <2>1
  <2>3. PICK l \in T : \A m \in T : l <= m
    BY <2>2, LeastNumber
  <2>4. ASSUME l > 1 PROVE Power(b, l - 1) <= n
    <3>1. l - 1 \in 1 .. n + 1 /\ l - 1 \in Nat /\ l - 1 \notin T
      BY <2>3, <2>4
    <3>2. Power(b, l - 1) \in Nat
      BY <3>1, PowerGrows
    <3> QED
      BY <3>1, <3>2
  <2> QED
    BY <2>3, <2>4 DEF Long
<1>4. ASSUME NEW l \in Nat, NEW m \in Nat, Long(n, b, l), Long(n, b, m), l < m
      PROVE  FALSE
  <2>1. m > 1 /\ m - 1 \in Nat /\ l \in 0 .. m - 1
    <3>1. l < m /\ l \in 1 .. n + 1
      BY <1>4 DEF Long
    <3> QED
      BY <3>1
  <2>2. Power(b, l) > n /\ Power(b, m - 1) <= n
    BY <1>4, <2>1 DEF Long
  <2>3. Power(b, l) <= Power(b, m - 1) /\ Power(b, l) \in Nat /\ Power(b, m - 1) \in Nat
    BY <2>1, PowerGrows
  <2> QED
    BY <2>2, <2>3
<1>5. ASSUME NEW l \in Nat, NEW m \in Nat, Long(n, b, l), Long(n, b, m)
      PROVE  l = m
  BY <1>4, <1>5
<1> QED
  BY <1>1, <1>2, <1>3, <1>5

\* The characters of texts, and those the functions print of themselves, which
\* the provers do not see to be strings.
Char == STRING \cup {"%", "\n"} \cup {DigitChar[r + 1] : r \in 0 .. 15}

LEMMA CharIs ==
  /\ STRING \subseteq Char /\ Seq(STRING) \subseteq Seq(Char)
  /\ "%" \in Char /\ "\n" \in Char
  /\ \A r \in 0 .. 15 : DigitChar[r + 1] \in Char
<1>1. STRING \subseteq Char /\ "%" \in Char /\ "\n" \in Char
  BY Zenon DEF Char
<1>2. \A r \in 0 .. 15 : DigitChar[r + 1] \in Char
  BY Zenon DEF Char
<1>3. ASSUME NEW s \in Seq(STRING) PROVE s \in Seq(Char)
  <2>1. /\ Len(s) \in Nat /\ s = [k \in 1 .. Len(s) |-> s[k]]
        /\ \A k \in 1 .. Len(s) : s[k] \in STRING
    BY LenProperties, ElementOfSeq
  <2>2. \A k \in 1 .. Len(s) : s[k] \in Char
    BY <1>1, <2>1, Zenon
  <2>3. [k \in 1 .. Len(s) |-> s[k]] \in Seq(Char)
    BY <2>1, <2>2, IsASeq
  <2> QED
    BY <2>1, <2>3
<1> QED
  BY <1>1, <1>2, <1>3

\* The numeral of a number ends with its last digit, behind that of its quotient.
LEMMA NumeralIs ==
  ASSUME NEW b \in 2 .. 16, NEW n \in Nat
  PROVE  /\ n < b => Numeral(n, b) = <<DigitChar[n + 1]>>
         /\ n >= b => \A s \in Seq(Char) : Numeral(n \div b, b) = s
                         => Numeral(n, b) = Append(s, DigitChar[(n % b) + 1])
<1>0. b \in Nat /\ b \in Nat \ {0} /\ b >= 2
  OBVIOUS
<1>1. ASSUME NEW m \in Nat, NEW l \in Nat, Long(m, b, l)
      PROVE  Numeral(m, b)
               = [k \in 1 .. l |-> DigitChar[((m \div Power(b, l - k)) % b) + 1]]
  <2> DEFINE len == CHOOSE v \in 1 .. m + 1 :
                      Power(b, v) > m /\ (v > 1 => Power(b, v - 1) <= m)
  <2>1. Numeral(m, b) = [k \in 1 .. len |-> DigitChar[((m \div Power(b, len - k)) % b) + 1]]
    BY Zenon DEF Numeral
  <2>2. len \in 1 .. m + 1 /\ Power(b, len) > m /\ (len > 1 => Power(b, len - 1) <= m)
    <3>1. \E v \in 1 .. m + 1 : Power(b, v) > m /\ (v > 1 => Power(b, v - 1) <= m)
      BY <1>1 DEF Long
    <3> QED
      BY <3>1, Zenon
  <2> HIDE DEF len
  <2>3. len \in Nat /\ Long(m, b, len)
    BY <2>2 DEF Long
  <2>4. len = l
    BY <1>0, <1>1, <2>3, LongIs
  <2> QED
    BY <2>1, <2>4
<1>2. ASSUME n < b
      PROVE  Numeral(n, b) = <<DigitChar[n + 1]>>
  <2>1. Long(n, b, 1)
    BY <1>0, <1>2, LongIs
  <2>2. Numeral(n, b) = [k \in 1 .. 1 |-> DigitChar[((n \div Power(b, 1 - k)) % b) + 1]]
    BY <1>1, <2>1
  <2>3. \A k \in 1 .. 1 : (n \div Power(b, 1 - k)) % b = n
    <3>1. Power(b, 0) = 1
      BY <1>0, PowerIs
    <3>2. n \div 1 = n
      OBVIOUS
    <3>3. n % b = n
      <4>1. b * 0 = 0
        OBVIOUS
      <4>2. 0 \in Nat /\ n \in 0 .. b - 1 /\ n = b * 0 + n
        BY <1>2, <4>1
      <4> QED
        BY <1>0, <4>2, DivUnique
    <3> QED
      BY <3>1, <3>2, <3>3
  <2>4. Numeral(n, b) = [k \in 1 .. 1 |-> DigitChar[n + 1]]
    BY <2>2, <2>3
  <2> QED
    BY <2>4
<1>3. ASSUME n >= b, NEW s \in Seq(Char), Numeral(n \div b, b) = s
      PROVE  Numeral(n, b) = Append(s, DigitChar[(n % b) + 1])
  <2>1. PICK q \in Nat : q = n \div b
    BY <1>0, DivIs
  <2>2. PICK m \in Nat : Long(q, b, m)
    BY <1>0, LongIs
  <2>3. Long(n, b, m + 1) /\ m + 1 \in Nat
    <3>1. n >= b /\ Long(n \div b, b, m)
      BY <1>3, <2>1, <2>2
    <3>2. Long(n, b, m + 1)
      BY <1>0, <3>1, LongIs
    <3> QED
      BY <3>2
  <2>4. s = [k \in 1 .. m |-> DigitChar[((q \div Power(b, m - k)) % b) + 1]]
    BY <1>1, <1>3, <2>1, <2>2
  <2>5. Len(s) = m
    BY <2>4
  <2>6. Numeral(n, b)
          = [k \in 1 .. m + 1 |-> DigitChar[((n \div Power(b, (m + 1) - k)) % b) + 1]]
    BY <1>1, <2>3
  <2>7. ASSUME NEW k \in 1 .. m
        PROVE  n \div Power(b, (m + 1) - k) = q \div Power(b, m - k)
    <3>1. PICK j \in Nat : j = m - k /\ (m + 1) - k = j + 1
      OBVIOUS
    <3>2. PICK p \in Nat \ {0} : p = Power(b, j) /\ Power(b, j + 1) = b * p
      BY <1>0, PowerIs
    <3>3. (n \div b) \div p = n \div (p * b)
      BY <1>0, DivTwice
    <3>4. p * b = b * p
      BY <1>0, Product
    <3> QED
      BY <2>1, <3>1, <3>2, <3>3, <3>4
  <2>8. n \div Power(b, (m + 1) - (m + 1)) = n
    <3>1. Power(b, 0) = 1 /\ (m + 1) - (m + 1) = 0 /\ n \div 1 = n
      BY <1>0, PowerIs
    <3> QED
      BY <3>1
  <2>9. PICK c \in Char : c = DigitChar[(n % b) + 1]
    <3>1. n % b \in 0 .. 15
      <4>1. PICK r : r = n % b /\ r \in 0 .. b - 1
        BY <1>0, DivIs
      <4>2. r \in 0 .. 15
        BY <4>1
      <4> QED
        BY <4>1, <4>2
    <3> QED
      BY <3>1, CharIs
  <2>10. Append(s, c) = Extended(s, c, m)
    BY <1>3, <2>5, AppendExtends
  <2>11. \A k \in 1 .. m + 1 :
           DigitChar[((n \div Power(b, (m + 1) - k)) % b) + 1] = IF k = m + 1 THEN c ELSE s[k]
    <3> SUFFICES ASSUME NEW k \in 1 .. m + 1
                 PROVE  DigitChar[((n \div Power(b, (m + 1) - k)) % b) + 1]
                          = IF k = m + 1 THEN c ELSE s[k]
      OBVIOUS
    <3>1. CASE k = m + 1
      <4>1. n \div Power(b, (m + 1) - k) = n
        BY <2>8, <3>1
      <4> QED
        BY <2>9, <3>1, <4>1, Zenon
    <3>2. CASE k \in 1 .. m
      <4>1. k # m + 1
        BY <3>2
      <4>2. s[k] = DigitChar[((q \div Power(b, m - k)) % b) + 1]
        BY <2>4, <3>2
      <4>3. n \div Power(b, (m + 1) - k) = q \div Power(b, m - k)
        BY <2>7, <3>2
      <4> QED
        BY <4>1, <4>2, <4>3, Zenon
    <3>3. k = m + 1 \/ k \in 1 .. m
      OBVIOUS
    <3> QED
      BY <3>1, <3>2, <3>3, Zenon
  <2>12. Numeral(n, b) = Extended(s, c, m)
    BY <2>6, <2>11, Zenon DEF Extended
  <2> QED
    BY <2>9, <2>10, <2>12
<1> QED
  BY <1>2, <1>3

-----------------------------------------------------------------------------
(* Format texts. *)

\* n characters '%', no more, end at place k.
Percents(t, k, n) ==
    /\ n \in 1 .. k
    /\ \A j \in k - n + 1 .. k : t[j] = "%"
    /\ k = n \/ t[k - n] # "%"

LEMMA PercentsIs ==
  ASSUME NEW t, NEW k \in Nat \ {0}
  PROVE  /\ \A n : Percents(t, k, n) => t[k] = "%"
         /\ t[k] = "%" /\ (k = 1 \/ t[k - 1] # "%") => Percents(t, k, 1)
         /\ \A n \in Nat : t[k] = "%" /\ k > 1 /\ Percents(t, k - 1, n) => Percents(t, k, n + 1)
         /\ t[k] = "%" => \E n \in Nat : Percents(t, k, n)
         /\ \A m, n \in Nat : Percents(t, k, m) /\ Percents(t, k, n) => m = n
<1>1. ASSUME NEW n, Percents(t, k, n) PROVE t[k] = "%"
  <2>1. n \in 1 .. k /\ \A j \in k - n + 1 .. k : t[j] = "%"
    BY <1>1 DEF Percents
  <2>2. k \in k - n + 1 .. k
    BY <2>1
  <2> QED
    BY <2>1, <2>2
<1>2. ASSUME NEW l \in Nat \ {0}, t[l] = "%", l = 1 \/ t[l - 1] # "%"
      PROVE  Percents(t, l, 1)
  BY <1>2 DEF Percents
<1>3. ASSUME NEW l \in Nat \ {0}, NEW n \in Nat, t[l] = "%", l > 1, Percents(t, l - 1, n)
      PROVE  Percents(t, l, n + 1)
  <2>1. /\ n \in 1 .. l - 1 /\ \A j \in (l - 1) - n + 1 .. l - 1 : t[j] = "%"
        /\ l - 1 = n \/ t[(l - 1) - n] # "%"
    BY <1>3 DEF Percents
  <2>2. ASSUME NEW j \in l - (n + 1) + 1 .. l PROVE t[j] = "%"
    <3>1. CASE j = l
      BY <1>3, <3>1
    <3>2. CASE j # l
      <4>1. j \in (l - 1) - n + 1 .. l - 1
        BY <3>2
      <4> QED
        BY <2>1, <4>1
    <3> QED
      BY <3>1, <3>2
  <2>3. n + 1 \in 1 .. l /\ l - (n + 1) = (l - 1) - n /\ (l - 1 = n => l = n + 1)
    BY <2>1
  <2> QED
    BY <2>1, <2>2, <2>3 DEF Percents
<1>4. t[k] = "%" => \E n \in Nat : Percents(t, k, n)
  <2> DEFINE S == {l \in Nat : l > 0 /\ t[l] = "%" => \E n \in Nat : Percents(t, l, n)}
  <2>1. 0 \in S
    OBVIOUS
  <2>2. ASSUME NEW l \in Nat, l \in S PROVE l + 1 \in S
    <3> SUFFICES ASSUME t[l + 1] = "%" PROVE \E n \in Nat : Percents(t, l + 1, n)
      OBVIOUS
    <3>1. l + 1 \in Nat \ {0} /\ (l + 1) - 1 = l
      OBVIOUS
    <3>2. CASE l = 0 \/ t[l] # "%"
      <4>1. l + 1 = 1 \/ t[(l + 1) - 1] # "%"
        BY <3>1, <3>2
      <4>2. Percents(t, l + 1, 1)
        BY <1>2, <3>1, <4>1
      <4> QED
        BY <4>2
    <3>3. CASE l > 0 /\ t[l] = "%"
      <4>1. PICK n \in Nat : Percents(t, l, n)
        BY <2>2, <3>3
      <4>2. Percents(t, (l + 1) - 1, n) /\ l + 1 > 1
        BY <3>1, <3>3, <4>1
      <4>3. Percents(t, l + 1, n + 1)
        BY <1>3, <3>1, <4>2
      <4> QED
        BY <4>3
    <3> QED
      BY <3>2, <3>3
  <2> HIDE DEF S
  <2>3. k \in S
    BY <2>1, <2>2, Induction
  <2> QED
    BY <2>3 DEF S
<1>5. ASSUME NEW m \in Nat, NEW n \in Nat, Percents(t, k, m), Percents(t, k, n), m < n
      PROVE  FALSE
  <2>1. m \in 1 .. k /\ n \in 1 .. k /\ m < n
    BY <1>5 DEF Percents
  <2>2. k # m /\ k - m \in k - n + 1 .. k
    BY <2>1
  <2>3. t[k - m] # "%"
    BY <1>5, <2>2 DEF Percents
  <2>4. t[k - m] = "%"
    BY <1>5, <2>2 DEF Percents
  <2> QED
    BY <2>3, <2>4
<1>6. ASSUME NEW m \in Nat, NEW n \in Nat, Percents(t, k, m), Percents(t, k, n)
      PROVE  m = n
  <2>1. ~(m < n) /\ ~(n < m)
    BY <1>5, <1>6
  <2> QED
    BY <2>1
<1>7. t[k] = "%" /\ (k = 1 \/ t[k - 1] # "%") => Percents(t, k, 1)
  BY <1>2
<1>8. \A n \in Nat : t[k] = "%" /\ k > 1 /\ Percents(t, k - 1, n) => Percents(t, k, n + 1)
  BY <1>3
<1> QED
  BY <1>1, <1>4, <1>6, <1>7, <1>8

\* A '%' begins a directive unless the '%' before it does.
LEMMA EscapesIs ==
  ASSUME NEW t, NEW k \in Nat \ {0}
  PROVE  Escapes(t, k) <=> t[k] = "%" /\ (k > 1 => ~Escapes(t, k - 1))
<1>1. \A l \in Nat \ {0} :
        Escapes(t, l) <=> t[l] = "%" /\ \E n \in Nat : n % 2 = 1 /\ Percents(t, l, n)
  BY DEF Escapes, Percents
<1>2. ASSUME NEW n \in Nat PROVE n % 2 = 1 <=> (n + 1) % 2 # 1
  OBVIOUS
<1>3. CASE t[k] # "%"
  BY <1>1, <1>3
<1>4. CASE t[k] = "%" /\ (k = 1 \/ t[k - 1] # "%")
  <2>1. Percents(t, k, 1) /\ 1 % 2 = 1
    BY <1>4, PercentsIs
  <2>2. Escapes(t, k)
    BY <1>1, <1>4, <2>1
  <2>3. k > 1 => ~Escapes(t, k - 1)
    BY <1>4 DEF Escapes
  <2> QED
    BY <1>4, <2>2, <2>3
<1>5. CASE t[k] = "%" /\ k > 1 /\ t[k - 1] = "%"
  <2>1. k - 1 \in Nat \ {0}
    BY <1>5
  <2>2. PICK n \in Nat : Percents(t, k - 1, n)
    BY <1>5, <2>1, PercentsIs
  <2>3. Percents(t, k, n + 1) /\ n + 1 \in Nat
    BY <1>5, <2>2, PercentsIs
  <2>4. Escapes(t, k - 1) <=> n % 2 = 1
    <3>1. \A m \in Nat : Percents(t, k - 1, m) => m = n
      BY <2>1, <2>2, PercentsIs
    <3> QED
      BY <1>1, <1>5, <2>1, <2>2, <3>1
  <2>5. Escapes(t, k) <=> (n + 1) % 2 = 1
    <3>1. \A m \in Nat : Percents(t, k, m) => m = n + 1
      BY <2>3, PercentsIs
    <3> QED
      BY <1>1, <1>5, <2>3, <3>1
  <2> QED
    BY <1>2, <1>5, <2>4, <2>5
<1> QED
  BY <1>3, <1>4, <1>5

\* How many arguments the text has asked for.
LEMMA ConsumedIs ==
  ASSUME NEW t
  PROVE  /\ \A k \in Nat : Consumed(t, k) \in Nat
         /\ Consumed(t, 0) = 0
         /\ \A k \in Nat : Consumed(t, k + 1)
               = Consumed(t, k) + (IF Directive(t, k + 1) /\ t[k + 1] \in Consuming THEN 1 ELSE 0)
         /\ \A m \in Nat : \A k \in 0 .. m : Consumed(t, k) <= Consumed(t, m)
<1> DEFINE A(k) == {j \in 1 .. k : Directive(t, j) /\ t[j] \in Consuming}
<1>1. ASSUME NEW k \in Nat PROVE Consumed(t, k) = Cardinality(A(k)) /\ IsFiniteSet(A(k))
                               /\ Cardinality(A(k)) \in Nat
  <2>1. IsFiniteSet(1 .. k)
    BY FS_Interval
  <2>2. IsFiniteSet(A(k))
    BY <2>1, FS_Subset
  <2>3. Consumed(t, k) = Cardinality(A(k))
    BY DEF Consumed
  <2> QED
    BY <2>2, <2>3, FS_CardinalityType
<1>2. Consumed(t, 0) = 0
  <2>1. A(0) = {}
    OBVIOUS
  <2>2. Consumed(t, 0) = Cardinality(A(0))
    BY <1>1
  <2> QED
    BY <2>1, <2>2, FS_EmptySet
<1>3. ASSUME NEW k \in Nat
      PROVE  Consumed(t, k + 1)
               = Consumed(t, k) + (IF Directive(t, k + 1) /\ t[k + 1] \in Consuming THEN 1 ELSE 0)
  <2>1. CASE Directive(t, k + 1) /\ t[k + 1] \in Consuming
    <3>1. A(k + 1) = A(k) \cup {k + 1}
      BY <2>1
    <3>2. k + 1 \notin A(k)
      OBVIOUS
    <3> HIDE DEF A
    <3>3. Cardinality(A(k) \cup {k + 1}) = Cardinality(A(k)) + 1
      BY <1>1, <3>2, FS_AddElement
    <3>4. Consumed(t, k + 1) = Cardinality(A(k + 1)) /\ Consumed(t, k) = Cardinality(A(k))
      BY <1>1
    <3> QED
      BY <2>1, <3>1, <3>3, <3>4
  <2>2. CASE ~(Directive(t, k + 1) /\ t[k + 1] \in Consuming)
    <3>1. A(k + 1) = A(k)
      BY <2>2
    <3> HIDE DEF A
    <3>2. /\ Consumed(t, k + 1) = Cardinality(A(k + 1)) /\ Consumed(t, k) = Cardinality(A(k))
          /\ Cardinality(A(k)) \in Nat
      BY <1>1
    <3> QED
      BY <2>2, <3>1, <3>2
  <2> QED
    BY <2>1, <2>2
<1> HIDE DEF A
<1>4. \A m \in Nat : \A k \in 0 .. m : Consumed(t, k) <= Consumed(t, m)
  <2> DEFINE S == {m \in Nat : \A k \in 0 .. m : Consumed(t, k) <= Consumed(t, m)}
  <2>0. \A k \in Nat : Consumed(t, k) \in Nat
    BY <1>1
  <2>1. 0 \in S
    BY <1>2
  <2>2. ASSUME NEW m \in Nat, m \in S PROVE m + 1 \in S
    <3> SUFFICES ASSUME NEW k \in 0 .. m + 1 PROVE Consumed(t, k) <= Consumed(t, m + 1)
      OBVIOUS
    <3>1. Consumed(t, m) <= Consumed(t, m + 1)
      BY <1>3, <2>0
    <3>2. CASE k = m + 1
      BY <2>0, <3>2
    <3>3. CASE k \in 0 .. m
      <4>1. Consumed(t, k) <= Consumed(t, m)
        BY <2>2, <3>3
      <4>2. PICK v \in Nat, w \in Nat, z \in Nat :
              v = Consumed(t, k) /\ w = Consumed(t, m) /\ z = Consumed(t, m + 1)
        BY <2>0
      <4> QED
        BY <3>1, <4>1, <4>2
    <3> QED
      BY <3>2, <3>3
  <2> HIDE DEF S
  <2>3. Nat \subseteq S
    BY <2>1, <2>2, Induction
  <2> QED
    BY <2>3 DEF S
<1>5. \A k \in Nat : Consumed(t, k) \in Nat
  BY <1>1
<1> QED
  BY <1>2, <1>3, <1>4, <1>5

Flattens(ss, f) ==
    f = [k \in 1 .. Len(ss) |-> IF k = 1 THEN ss[k] ELSE f[k - 1] \o ss[k]]

LEMMA FlattensIs ==
  ASSUME NEW V, NEW ss \in Seq(Seq(V)), Len(ss) # 0
  PROVE  \E f : /\ Flattens(ss, f) /\ f \in [1 .. Len(ss) -> Seq(V)]
               /\ FlattenSeq(ss) = f[Len(ss)]
<1> DEFINE flatten == CHOOSE flatten :
             flatten = [k \in 1 .. Len(ss) |->
                          IF k = 1 THEN ss[k] ELSE flatten[k - 1] \o ss[k]]
           Adds(k) == IF k \in 1 .. Len(ss) THEN ss[k] ELSE <<>>
           h == [k \in Nat |-> [c \in Seq(V) |-> c \o Adds(k)]]
<1>0. Len(ss) \in Nat /\ \A k \in 1 .. Len(ss) : ss[k] \in Seq(V)
  BY ElementOfSeq, LenProperties
<1>1. /\ \A k \in Nat : Adds(k) \in Seq(V)
      /\ \A k \in 1 .. Len(ss) : Adds(k) = ss[k]
  BY <1>0
<1> HIDE DEF Adds
<1>2. PICK g : Solves(Seq(V), <<>>, h, Before, g)
  <2>1. h \in [Nat -> [Seq(V) -> Seq(V)]]
    BY <1>1
  <2>2. <<>> \in Seq(V)
    OBVIOUS
  <2> HIDE DEF h
  <2>3. Recursion(Seq(V), <<>>, h, Before)
    BY <2>1, <2>2, BeforeIs DEF Recursion
  <2> QED
    BY <2>3, RecursionOnNat, Zenon
<1>3. g[0] = <<>> /\ g \in [Nat -> Seq(V)]
  BY <1>2 DEF Solves
<1>4. ASSUME NEW k \in 1 .. Len(ss)
      PROVE  g[k] = IF k = 1 THEN ss[k] ELSE g[k - 1] \o ss[k]
  <2>1. k \in Nat \ {0} /\ Before[k] = k - 1
    BY <1>0, BeforeIs
  <2>2. g[k] = h[k][g[k - 1]] /\ g[k - 1] \in Seq(V)
    BY <1>2, <2>1 DEF Solves
  <2>3. g[k] = g[k - 1] \o ss[k]
    <3>1. \A c \in Seq(V) : h[k][c] = c \o Adds(k)
      BY <2>1
    <3> HIDE DEF h
    <3> QED
      BY <1>1, <2>2, <3>1
  <2>4. CASE k = 1
    <3>1. ss[k] \in Seq(V)
      BY <1>0
    <3>2. <<>> \o ss[k] = ss[k]
      BY <3>1
    <3>3. k - 1 = 0
      BY <2>4
    <3>4. g[k - 1] = <<>>
      BY <1>3, <3>3
    <3> QED
      BY <2>3, <2>4, <3>2, <3>4, Zenon
  <2>5. CASE k # 1
    BY <2>3, <2>5
  <2> QED
    BY <2>4, <2>5, Zenon
<1> DEFINE f == [k \in 1 .. Len(ss) |-> g[k]]
<1>5. f \in [1 .. Len(ss) -> Seq(V)]
  BY <1>0, <1>3
<1>6. Flattens(ss, f)
  <2>1. \A k \in 1 .. Len(ss) : f[k] = IF k = 1 THEN ss[k] ELSE f[k - 1] \o ss[k]
    <3> SUFFICES ASSUME NEW k \in 1 .. Len(ss)
                 PROVE  f[k] = IF k = 1 THEN ss[k] ELSE f[k - 1] \o ss[k]
      OBVIOUS
    <3>1. f[k] = g[k] /\ (k # 1 => f[k - 1] = g[k - 1])
      BY <1>0
    <3> HIDE DEF f
    <3> QED
      BY <1>4, <3>1, Zenon
  <2>2. f = [k \in 1 .. Len(ss) |-> f[k]]
    OBVIOUS
  <2> HIDE DEF f
  <2> QED
    BY <2>1, <2>2, Zenon DEF Flattens
<1> HIDE DEF f
<1>7. Flattens(ss, flatten)
  BY <1>6, Zenon DEF Flattens
<1>8. FlattenSeq(ss) = flatten[Len(ss)]
  BY Zenon DEF FlattenSeq
<1> HIDE DEF flatten
<1>9. flatten[Len(ss)] = f[Len(ss)]
  <2> DEFINE S == {k \in Nat : k >= 1 /\ k <= Len(ss) => flatten[k] = f[k]}
  <2>1. 0 \in S
    OBVIOUS
  <2>2. ASSUME NEW k \in Nat, k \in S PROVE k + 1 \in S
    <3> SUFFICES ASSUME k + 1 <= Len(ss) PROVE flatten[k + 1] = f[k + 1]
      OBVIOUS
    <3>1. k + 1 \in 1 .. Len(ss) /\ (k + 1) - 1 = k
      BY <1>0
    <3>2. flatten[k + 1] = IF k + 1 = 1 THEN ss[k + 1] ELSE flatten[k] \o ss[k + 1]
      BY <1>7, <3>1 DEF Flattens
    <3>3. f[k + 1] = IF k + 1 = 1 THEN ss[k + 1] ELSE f[k] \o ss[k + 1]
      BY <1>6, <3>1 DEF Flattens
    <3>4. k + 1 # 1 => flatten[k] = f[k]
      BY <1>0, <2>2
    <3> QED
      BY <3>2, <3>3, <3>4, Zenon
  <2> HIDE DEF S
  <2>3. Len(ss) \in S
    BY <1>0, <2>1, <2>2, Induction
  <2> QED
    BY <1>0, <2>3 DEF S
<1> QED
  BY <1>5, <1>6, <1>8, <1>9, Zenon

LEMMA FlattenIs ==
  ASSUME NEW V, NEW ss \in Seq(Seq(V)), NEW c \in Seq(V)
  PROVE  /\ FlattenSeq(<<>>) = <<>>
         /\ FlattenSeq(ss) \in Seq(V)
         /\ FlattenSeq(Append(ss, c)) = FlattenSeq(ss) \o c
<1>1. FlattenSeq(<<>>) = <<>>
  <2>1. Len(<<>>) = 0
    OBVIOUS
  <2> QED
    BY <2>1, Zenon DEF FlattenSeq
<1>2. PICK n : n = Len(ss)
  OBVIOUS
<1>3. PICK tt : tt = Append(ss, c)
  OBVIOUS
<1>4. /\ n \in Nat /\ tt \in Seq(Seq(V)) /\ Len(tt) = n + 1
      /\ tt[n + 1] = c /\ \A k \in 1 .. n : tt[k] = ss[k]
  BY <1>2, <1>3, AppendIs
<1>5. PICK g : Flattens(tt, g) /\ FlattenSeq(tt) = g[n + 1]
  <2>1. Len(tt) # 0
    BY <1>4
  <2> QED
    BY <1>4, <2>1, FlattensIs
<1>6. CASE n = 0
  <2>1. ss = <<>>
    BY <1>2, <1>6, EmptySeq
  <2>2. g[1] = tt[1]
    BY <1>4, <1>5, <1>6 DEF Flattens
  <2>3. <<>> \o c = c /\ <<>> \in Seq(V)
    OBVIOUS
  <2>4. FlattenSeq(tt) = c
    BY <1>4, <1>5, <1>6, <2>2
  <2> QED
    BY <1>1, <1>3, <2>1, <2>3, <2>4
<1>7. CASE n # 0
  <2>1. PICK f : /\ Flattens(ss, f) /\ f \in [1 .. n -> Seq(V)]
                 /\ FlattenSeq(ss) = f[n]
    BY <1>2, <1>7, FlattensIs
  <2>2. f[n] = g[n]
    <3> DEFINE S == {k \in Nat : k >= 1 /\ k <= n => f[k] = g[k]}
    <3>1. 0 \in S
      OBVIOUS
    <3>2. ASSUME NEW k \in Nat, k \in S PROVE k + 1 \in S
      <4> SUFFICES ASSUME k + 1 <= n PROVE f[k + 1] = g[k + 1]
        OBVIOUS
      <4>1. k + 1 \in 1 .. n /\ (k + 1) - 1 = k /\ k + 1 \in 1 .. n + 1
        BY <1>4
      <4>2. f[k + 1] = IF k + 1 = 1 THEN ss[k + 1] ELSE f[k] \o ss[k + 1]
        BY <1>2, <2>1, <4>1 DEF Flattens
      <4>3. g[k + 1] = IF k + 1 = 1 THEN tt[k + 1] ELSE g[k] \o tt[k + 1]
        BY <1>4, <1>5, <4>1 DEF Flattens
      <4>4. (k + 1 # 1 => f[k] = g[k]) /\ tt[k + 1] = ss[k + 1]
        BY <1>4, <3>2, <4>1
      <4> QED
        BY <4>2, <4>3, <4>4, Zenon
    <3> HIDE DEF S
    <3>3. n \in S
      BY <1>4, <3>1, <3>2, Induction
    <3> QED
      BY <1>4, <1>7, <3>3 DEF S
  <2>3. g[n + 1] = g[n] \o c
    <3>1. n + 1 \in 1 .. n + 1 /\ n + 1 # 1 /\ (n + 1) - 1 = n
      BY <1>4, <1>7
    <3> QED
      BY <1>4, <1>5, <3>1 DEF Flattens
  <2>4. f[n] \in Seq(V)
    BY <1>4, <1>7, <2>1
  <2> QED
    BY <1>1, <1>3, <1>5, <2>1, <2>2, <2>3, <2>4
<1> QED
  BY <1>6, <1>7

Pieces(c, n) == [k \in 1 .. n |-> Piece(c, k)]

\* What the first n characters of a call's text stand for.
Printed(c, n) == FlattenSeq(Pieces(c, n))
Printable(c, n) == \A k \in 1 .. n : Piece(c, k) \in Seq(Char)

LEMMA PrintedIs ==
  ASSUME NEW c, NEW n \in Nat, Printable(c, n)
  PROVE  /\ Printed(c, 0) = <<>>
         /\ Printed(c, n) \in Seq(Char)
         /\ \A p \in Seq(Char) : Piece(c, n + 1) = p =>
               Printable(c, n + 1) /\ Printed(c, n + 1) = Printed(c, n) \o p
<1>1. /\ Pieces(c, n) \in Seq(Seq(Char)) /\ Len(Pieces(c, n)) = n
      /\ \A k \in 1 .. n : Pieces(c, n)[k] = Piece(c, k)
  BY IsASeq DEF Pieces, Printable
<1>2. Printed(c, 0) = <<>>
  <2>1. Pieces(c, 0) = <<>>
    BY DEF Pieces
  <2>2. <<>> \in Seq(Seq(Char)) /\ <<>> \in Seq(Char)
    OBVIOUS
  <2>3. FlattenSeq(<<>>) = <<>>
    BY <2>2, FlattenIs
  <2> QED
    BY <2>1, <2>3 DEF Printed
<1>3. Printed(c, n) \in Seq(Char)
  <2>1. <<>> \in Seq(Char)
    OBVIOUS
  <2> QED
    BY <1>1, <2>1, FlattenIs DEF Printed
<1>4. ASSUME NEW p \in Seq(Char), Piece(c, n + 1) = p
      PROVE  Printable(c, n + 1) /\ Printed(c, n + 1) = Printed(c, n) \o p
  <2>1. \A k \in 1 .. n + 1 : k = n + 1 \/ k \in 1 .. n
    OBVIOUS
  <2>2. Printable(c, n + 1)
    BY <1>4, <2>1 DEF Printable
  <2>3. Append(Pieces(c, n), p) = Extended(Pieces(c, n), p, n)
    BY <1>1, AppendExtends
  <2>4. \A k \in 1 .. n + 1 : Piece(c, k) = IF k = n + 1 THEN p ELSE Pieces(c, n)[k]
    BY <1>1, <1>4, <2>1, Zenon
  <2>5. Pieces(c, n + 1) = Append(Pieces(c, n), p)
    BY <2>3, <2>4, Zenon DEF Extended, Pieces
  <2>6. FlattenSeq(Append(Pieces(c, n), p)) = FlattenSeq(Pieces(c, n)) \o p
    BY <1>1, FlattenIs
  <2> QED
    BY <2>2, <2>5, <2>6 DEF Printed
<1> QED
  BY <1>2, <1>3, <1>4

\* The first k characters have been walked past, and print as o.
Walked(c, k, a, o) ==
    /\ k \in 0 .. Len(c.text)
    /\ k > 0 => ~Escapes(c.text, k)
    /\ a = Consumed(c.text, k) + 1
    /\ Printable(c, k)
    /\ o = Printed(c, k)

LEMMA PieceIs ==
  ASSUME NEW c, NEW k \in Nat \ {0}
  PROVE  /\ Escapes(c.text, k) => Piece(c, k) = <<>>
         /\ c.text[k] # "%" /\ ~Directive(c.text, k) => Piece(c, k) = <<c.text[k]>>
         /\ Directive(c.text, k) /\ ~Escapes(c.text, k) =>
              /\ c.text[k] = "%" => Piece(c, k) = <<"%">>
              /\ c.text[k] = "s" => Piece(c, k) = c.args[Consumed(c.text, k)].chars
              /\ c.text[k] = "c" => Piece(c, k) = <<c.args[Consumed(c.text, k)].char>>
              /\ c.text[k] \in Numeric =>
                    Piece(c, k) = Numeral(c.args[Consumed(c.text, k)].num,
                                          Base(c.of.device)[c.text[k]])
              /\ c.text[k] \notin Consuming \cup {"%"} => Piece(c, k) = <<>>
<1>1. Escapes(c.text, k) => Piece(c, k) = <<>>
  BY DEF Piece
<1>2. c.text[k] # "%" => ~Escapes(c.text, k)
  BY EscapesIs
<1>3. c.text[k] # "%" /\ ~Directive(c.text, k) => Piece(c, k) = <<c.text[k]>>
  BY <1>2 DEF Piece
<1>4. ASSUME Directive(c.text, k), ~Escapes(c.text, k)
      PROVE  /\ c.text[k] = "%" => Piece(c, k) = <<"%">>
             /\ c.text[k] = "s" => Piece(c, k) = c.args[Consumed(c.text, k)].chars
             /\ c.text[k] = "c" => Piece(c, k) = <<c.args[Consumed(c.text, k)].char>>
             /\ c.text[k] \in Numeric =>
                   Piece(c, k) = Numeral(c.args[Consumed(c.text, k)].num,
                                         Base(c.of.device)[c.text[k]])
             /\ c.text[k] \notin Consuming \cup {"%"} => Piece(c, k) = <<>>
  BY <1>4 DEF Piece, Numeric, Consuming
<1> QED
  BY <1>1, <1>3, <1>4

LEMMA LiteralIs ==
  ASSUME NEW c, c.text \in Seq(STRING), NEW k, NEW a, NEW o, Walked(c, k, a, o),
         k < Len(c.text), c.text[k + 1] # "%"
  PROVE  Walked(c, k + 1, a, o \o <<c.text[k + 1]>>)
<1>1. /\ k \in Nat /\ k + 1 \in Nat \ {0} /\ k + 1 \in 0 .. Len(c.text)
      /\ (k + 1) - 1 = k
  BY DEF Walked
<1>2. ~Escapes(c.text, k + 1)
  BY <1>1, EscapesIs
<1>3. ~Directive(c.text, k + 1)
  BY <1>1 DEF Directive, Walked
<1>4. <<c.text[k + 1]>> \in Seq(Char)
  <2>1. c.text[k + 1] \in STRING
    BY <1>1, ElementOfSeq
  <2>2. c.text[k + 1] \in Char
    BY <2>1, CharIs
  <2> QED
    BY <2>2
<1>5. Piece(c, k + 1) = <<c.text[k + 1]>>
  BY <1>1, <1>3, PieceIs
<1>6. Printable(c, k + 1) /\ Printed(c, k + 1) = Printed(c, k) \o <<c.text[k + 1]>>
  BY <1>1, <1>4, <1>5, PrintedIs DEF Walked
<1>7. Consumed(c.text, k + 1) = Consumed(c.text, k)
  <2>1. Consumed(c.text, k) \in Nat /\ Consumed(c.text, k + 1) = Consumed(c.text, k) + 0
    BY <1>1, <1>3, ConsumedIs
  <2> QED
    BY <2>1
<1> QED
  BY <1>1, <1>2, <1>6, <1>7 DEF Walked

LEMMA PercentIs ==
  ASSUME NEW c, NEW k, NEW a, NEW o, Walked(c, k, a, o),
         k < Len(c.text), c.text[k + 1] = "%"
  PROVE  /\ Escapes(c.text, k + 1)
         /\ Printable(c, k + 1) /\ o = Printed(c, k + 1)
         /\ Directive(c.text, k + 2) /\ ~Escapes(c.text, k + 2)
         /\ Consumed(c.text, k + 2) \in Nat /\ a \in Nat
         /\ Consumed(c.text, k + 2) = IF c.text[k + 2] \in Consuming THEN a ELSE a - 1
<1>1. /\ k \in Nat /\ k + 1 \in Nat \ {0} /\ (k + 1) - 1 = k
      /\ k + 2 \in Nat \ {0} /\ (k + 2) - 1 = k + 1 /\ k + 2 > 1 /\ (k + 1) + 1 = k + 2
  BY DEF Walked
<1>2. Escapes(c.text, k + 1)
  BY <1>1, EscapesIs DEF Walked
<1>3. Directive(c.text, k + 2) /\ ~Escapes(c.text, k + 2)
  BY <1>1, <1>2, EscapesIs DEF Directive
<1>4. ~Directive(c.text, k + 1)
  BY <1>1 DEF Directive, Walked
<1>5. Printable(c, k + 1) /\ o = Printed(c, k + 1)
  <2>1. Piece(c, k + 1) = <<>>
    BY <1>1, <1>2, PieceIs
  <2>2. <<>> \in Seq(Char)
    OBVIOUS
  <2>3. Printable(c, k + 1) /\ Printed(c, k + 1) = Printed(c, k) \o <<>>
    BY <1>1, <2>1, <2>2, PrintedIs DEF Walked
  <2>4. Printed(c, k) \in Seq(Char)
    BY <1>1, PrintedIs DEF Walked
  <2> QED
    BY <2>3, <2>4 DEF Walked
<1>6. PICK v \in Nat : v = Consumed(c.text, k) /\ Consumed(c.text, k + 1) = v
  <2>1. Consumed(c.text, k) \in Nat /\ Consumed(c.text, k + 1) = Consumed(c.text, k) + 0
    BY <1>1, <1>4, ConsumedIs
  <2> QED
    BY <2>1
<1>7. Consumed(c.text, k + 2) = v + (IF c.text[k + 2] \in Consuming THEN 1 ELSE 0)
  <2>1. k + 1 \in Nat
    BY <1>1
  <2>2. Consumed(c.text, (k + 1) + 1) = Consumed(c.text, k + 1)
          + (IF Directive(c.text, (k + 1) + 1) /\ c.text[(k + 1) + 1] \in Consuming
             THEN 1 ELSE 0)
    BY <2>1, ConsumedIs, Zenon
  <2> QED
    BY <1>1, <1>3, <1>6, <2>2
<1>8. a = v + 1
  BY <1>6 DEF Walked
<1> QED
  BY <1>2, <1>3, <1>5, <1>7, <1>8

LEMMA DirectiveIs ==
  ASSUME NEW c, NEW k, NEW a, NEW o, Walked(c, k, a, o),
         k + 1 < Len(c.text), c.text[k + 1] = "%",
         NEW p \in Seq(Char), Piece(c, k + 2) = p
  PROVE  Walked(c, k + 2, Consumed(c.text, k + 2) + 1, o \o p)
<1>1. /\ k \in Nat /\ k + 1 \in Nat /\ (k + 1) + 1 = k + 2 /\ k < Len(c.text)
      /\ k + 2 \in 0 .. Len(c.text)
  BY DEF Walked
<1>2. Printable(c, k + 1) /\ o = Printed(c, k + 1) /\ ~Escapes(c.text, k + 2)
  BY <1>1, PercentIs
<1>3. Printable(c, k + 2) /\ Printed(c, k + 2) = o \o p
  BY <1>1, <1>2, PrintedIs
<1> QED
  BY <1>1, <1>2, <1>3 DEF Walked

-----------------------------------------------------------------------------
(* A number half converted. *)

LEMMA NumeralType ==
  ASSUME NEW b \in 2 .. 16
  PROVE  \A n \in Nat : Numeral(n, b) \in Seq(Char)
<1> DEFINE S == {n \in Nat : Numeral(n, b) \in Seq(Char)}
<1>0. b \in Nat /\ b >= 2
  OBVIOUS
<1>1. ASSUME NEW n \in Nat, \A m \in 0 .. n - 1 : m \in S PROVE n \in S
  <2>1. CASE n < b
    <3>1. Numeral(n, b) = <<DigitChar[n + 1]>>
      BY <2>1, NumeralIs
    <3>2. n \in 0 .. 15
      BY <2>1
    <3>3. DigitChar[n + 1] \in Char
      BY <3>2, CharIs
    <3>4. <<DigitChar[n + 1]>> \in Seq(Char)
      BY <3>3
    <3> QED
      BY <3>1, <3>4
  <2>2. CASE n >= b
    <3>1. n \in Nat \ {0}
      BY <2>2
    <3>2. n \div b \in 0 .. n - 1
      BY <1>0, <3>1, QuotientIs
    <3>3. PICK s \in Seq(Char) : Numeral(n \div b, b) = s
      BY <1>1, <3>2
    <3>4. Numeral(n, b) = Append(s, DigitChar[(n % b) + 1])
      BY <2>2, <3>3, NumeralIs
    <3>5. n % b \in 0 .. b - 1
      BY <1>0, DivIs
    <3>6. n % b \in 0 .. 15
      <4>1. \A r \in 0 .. b - 1 : r \in 0 .. 15
        OBVIOUS
      <4> QED
        BY <3>5, <4>1, Zenon
    <3>7. PICK c \in Char : c = DigitChar[(n % b) + 1]
      BY <3>6, CharIs
    <3>8. Append(s, c) \in Seq(Char)
      OBVIOUS
    <3> QED
      BY <3>4, <3>7, <3>8
  <2> QED
    BY <1>0, <2>1, <2>2
<1> HIDE DEF S
<1> QED
  BY <1>1, StrongInduction DEF S

\* Of n the digits s are taken, and m is left.
Halfway(n, b, m, s) ==
    /\ m \in Nat /\ s \in Seq(Char)
    /\ n = 0 => m = 0 /\ s = <<>>
    /\ n # 0 /\ m = 0 => s # <<>> /\ Numeral(n, b) = Reverse(s)
    /\ m # 0 => Numeral(n, b) = Numeral(m, b) \o Reverse(s)

LEMMA ReverseIs ==
  ASSUME NEW s \in Seq(Char), NEW c \in Char
  PROVE  /\ Reverse(s) \in Seq(Char) /\ Reverse(<<>>) = <<>>
         /\ Reverse(Append(s, c)) = <<c>> \o Reverse(s)
<1>1. PICK n \in Nat : n = Len(s)
  OBVIOUS
<1>2. \A k \in 1 .. n : s[k] \in Char
  BY <1>1, ElementOfSeq
<1>3. Reverse(s) = [k \in 1 .. n |-> s[(n - k) + 1]]
  BY <1>1 DEF Reverse
<1>4. Reverse(s) \in Seq(Char) /\ Len(Reverse(s)) = n
  <2>1. \A k \in 1 .. n : s[(n - k) + 1] \in Char
    <3>1. \A k \in 1 .. n : (n - k) + 1 \in 1 .. n
      OBVIOUS
    <3> QED
      BY <1>2, <3>1
  <2> QED
    BY <1>3, <2>1, IsASeq
<1>5. Reverse(<<>>) = <<>>
  BY DEF Reverse
<1>6. PICK t \in Seq(Char) :
        /\ t = Append(s, c) /\ Len(t) = n + 1
        /\ t[n + 1] = c /\ \A k \in 1 .. n : t[k] = s[k]
  <2>1. /\ Append(s, c) \in Seq(Char) /\ Len(Append(s, c)) = n + 1
        /\ Append(s, c)[n + 1] = c
        /\ \A k \in 1 .. n : Append(s, c)[k] = s[k]
    BY <1>1, AppendIs
  <2> QED
    BY <2>1, Zenon
<1>7. Reverse(t) = [k \in 1 .. n + 1 |-> t[((n + 1) - k) + 1]]
  BY <1>6 DEF Reverse
<1>8. PICK u \in Seq(Char) :
        /\ u = <<c>> \o Reverse(s) /\ Len(u) = n + 1
        /\ u[1] = c /\ \A k \in 1 .. n : u[k + 1] = Reverse(s)[k]
  <2>1. PICK r \in Seq(Char) : r = Reverse(s) /\ Len(r) = n
    BY <1>4
  <2>2. /\ <<c>> \o r \in Seq(Char) /\ Len(<<c>> \o r) = n + 1
        /\ (<<c>> \o r)[1] = c
        /\ \A k \in 1 .. n : (<<c>> \o r)[k + 1] = r[k]
    BY <2>1, PrependIs
  <2> QED
    BY <2>1, <2>2, Zenon
<1>9. u = [k \in 1 .. n + 1 |-> u[k]]
  <2>1. u \in [1 .. n + 1 -> Char]
    BY <1>8, LenProperties
  <2> QED
    BY <2>1, Zenon
<1>10. \A k \in 1 .. n + 1 : u[k] = t[((n + 1) - k) + 1]
  <2> SUFFICES ASSUME NEW k \in 1 .. n + 1 PROVE u[k] = t[((n + 1) - k) + 1]
    OBVIOUS
  <2>1. CASE k = 1
    <3>1. ((n + 1) - k) + 1 = n + 1
      BY <2>1
    <3> QED
      BY <1>6, <1>8, <2>1, <3>1
  <2>2. CASE k # 1
    <3>1. PICK j \in 1 .. n : k = j + 1
      BY <2>2
    <3>2. u[k] = s[(n - j) + 1]
      BY <1>3, <1>8, <3>1
    <3>3. ((n + 1) - k) + 1 = (n - j) + 1 /\ (n - j) + 1 \in 1 .. n
      BY <3>1
    <3> QED
      BY <1>6, <3>2, <3>3
  <2> QED
    BY <2>1, <2>2
<1>11. Reverse(t) = u
  BY <1>7, <1>9, <1>10, Zenon
<1> QED
  BY <1>4, <1>5, <1>6, <1>8, <1>11

LEMMA HalfwayStep ==
  ASSUME NEW b \in 2 .. 16, NEW n \in Nat, NEW m, NEW s, Halfway(n, b, m, s), m > 0
  PROVE  /\ Halfway(n, b, m \div b, Append(s, DigitChar[(m % b) + 1]))
         /\ m % b \in 0 .. b - 1
<1>0. b \in Nat \ {0} /\ b >= 2 /\ m \in Nat \ {0} /\ s \in Seq(Char) /\ n # 0
  BY DEF Halfway
<1>1. PICK q \in Nat : q = m \div b
  BY <1>0, DivIs
<1>2. PICK r \in 0 .. b - 1 : r = m % b /\ m = b * q + r
  <2>1. m \in Nat /\ b \in Nat \ {0}
    BY <1>0
  <2>2. m % b \in 0 .. b - 1 /\ m = b * (m \div b) + (m % b)
    BY <2>1, DivIs
  <2> QED
    BY <1>1, <2>2
<1>3. r \in 0 .. 15
  BY <1>2
<1>4. PICK c \in Char : c = DigitChar[r + 1]
  BY <1>3, CharIs
<1>5. /\ Append(s, c) \in Seq(Char) /\ Append(s, c) # <<>>
      /\ <<c>> \in Seq(Char)
  BY <1>0
<1>6. Reverse(Append(s, c)) = <<c>> \o Reverse(s) /\ Reverse(s) \in Seq(Char)
  BY <1>0, ReverseIs
<1>7. Numeral(n, b) = Numeral(m, b) \o Reverse(s)
  BY <1>0 DEF Halfway
<1>8. CASE m < b
  <2>1. q = 0 /\ r = m
    <3>1. 0 \in Nat /\ m \in 0 .. b - 1 /\ m = b * 0 + m
      <4>1. b * 0 = 0
        BY <1>0
      <4> QED
        BY <1>0, <1>8, <4>1
    <3>2. m \div b = 0 /\ m % b = m
      BY <1>0, <3>1, DivUnique
    <3> QED
      BY <1>1, <1>2, <3>2
  <2>2. Numeral(m, b) = <<c>>
    BY <1>0, <1>4, <1>8, <2>1, NumeralIs
  <2>3. Numeral(n, b) = Reverse(Append(s, c))
    BY <1>6, <1>7, <2>2
  <2> QED
    BY <1>0, <1>1, <1>2, <1>4, <1>5, <2>1, <2>3 DEF Halfway
<1>9. CASE m >= b
  <2>1. q # 0
    <3>1. q = 0 => m = r
      <4>1. b * 0 = 0
        BY <1>0
      <4> QED
        BY <1>0, <1>2, <4>1
    <3> QED
      BY <1>2, <1>9, <3>1
  <2>2. PICK t \in Seq(Char) : t = Numeral(q, b)
    BY NumeralType
  <2>3. Numeral(m, b) = Append(t, c)
    BY <1>0, <1>1, <1>2, <1>4, <1>9, <2>2, NumeralIs
  <2>4. \A v \in Seq(Char) : Append(t, c) \o v = t \o (<<c>> \o v)
    <3> SUFFICES ASSUME NEW v \in Seq(Char) PROVE Append(t, c) \o v = t \o (<<c>> \o v)
      OBVIOUS
    <3>1. Append(t, c) = t \o <<c>>
      OBVIOUS
    <3>2. (t \o <<c>>) \o v = t \o (<<c>> \o v)
      BY <1>5, ConcatAssociative
    <3> QED
      BY <3>1, <3>2
  <2>5. Numeral(n, b) = Numeral(q, b) \o Reverse(Append(s, c))
    BY <1>6, <1>7, <2>2, <2>3, <2>4
  <2> QED
    BY <1>0, <1>1, <1>2, <1>4, <1>5, <2>1, <2>5 DEF Halfway
<1> QED
  BY <1>0, <1>8, <1>9

\* What is left to convert, and what fits in the buffer for it.
Fits(device, b, m, s, space) ==
    IF device = "serial"
    THEN /\ b >= 8 /\ space = 999
         /\ \E k \in Nat : Len(s) + k <= 11 /\ m < Power(8, k)
    ELSE b >= 10 => Len(s) + numlen(m) <= space

LEMMA FitsStep ==
  ASSUME NEW device, NEW b \in 2 .. 16, NEW m \in Nat \ {0}, NEW s \in Seq(Char),
         NEW c \in Char, NEW space \in Nat, Fits(device, b, m, s, space)
  PROVE  Fits(device, b, m \div b, Append(s, c), space)
<1>0. b \in Nat \ {0} /\ b >= 2
  OBVIOUS
<1>1. PICK l \in Nat : l = Len(s) /\ Len(Append(s, c)) = l + 1
  OBVIOUS
<1>2. PICK q \in Nat : q = m \div b
  BY <1>0, DivIs
<1>3. CASE device = "serial"
  <2>1. PICK k \in Nat : l + k <= 11 /\ m < Power(8, k)
    BY <1>1, <1>3 DEF Fits
  <2>2. b >= 8 /\ space = 999
    BY <1>3 DEF Fits
  <2>3. k # 0
    <3>1. Power(8, 0) = 1
      BY PowerIs
    <3> QED
      BY <2>1, <3>1
  <2>4. PICK j \in Nat : k = j + 1
    BY <2>3
  <2>5. PICK p \in Nat : p = Power(8, j) /\ Power(8, k) = 8 * p
    <3>1. 8 \in Nat \ {0}
      OBVIOUS
    <3>2. Power(8, j) \in Nat \ {0} /\ Power(8, j + 1) = 8 * Power(8, j)
      BY <3>1, PowerIs
    <3> QED
      BY <2>4, <3>2
  <2>6. q <= m \div 8
    <3>1. m \in Nat /\ m <= m /\ 8 <= b /\ 8 \in Nat \ {0}
      BY <2>2
    <3>2. m \div b <= m \div 8
      BY <1>0, <3>1, DivMonotone
    <3> QED
      BY <1>2, <3>2
  <2>7. m \div 8 < p
    BY <2>1, <2>5
  <2>8. q < p
    BY <2>5, <2>6, <2>7
  <2>9. (l + 1) + j <= 11
    BY <2>1, <2>4
  <2> QED
    BY <1>1, <1>2, <1>3, <2>2, <2>5, <2>8, <2>9 DEF Fits
<1>4. CASE device # "serial"
  <2>1. SUFFICES ASSUME b >= 10 PROVE (l + 1) + numlen(q) <= space
    BY <1>1, <1>2, <1>4 DEF Fits
  <2>2. l + numlen(m) <= space
    BY <1>1, <1>4, <2>1 DEF Fits
  <2>3. PICK t \in Nat : t = m \div 10 /\ q <= t
    <3>1. m \div 10 \in Nat
      BY DivIs
    <3>2. q <= m \div 10
      <4>1. m \in Nat /\ m <= m /\ 10 <= b /\ 10 \in Nat \ {0}
        BY <2>1
      <4>2. m \div b <= m \div 10
        BY <1>0, <4>1, DivMonotone
      <4> QED
        BY <1>2, <4>2
    <3> QED
      BY <3>1, <3>2
  <2>4. numlen(m) = 1 + numlen(t)
    BY <2>3, NumlenIs
  <2>5. numlen(q) <= numlen(t)
    BY <2>3, NumlenMonotone
  <2>6. numlen(q) \in Nat /\ numlen(t) \in Nat
    BY NumlenIs
  <2> QED
    BY <2>2, <2>4, <2>5, <2>6
<1> QED
  BY <1>3, <1>4

LEMMA ConversionBegins ==
  ASSUME NEW b \in 2 .. 16, NEW n \in 0 .. Word - 1,
         NEW device, NEW space,
         device = "serial" => b >= 8 /\ space = 999,
         device # "serial" => space = numlen(n)
  PROVE  n \in Nat /\ space \in Nat /\ Halfway(n, b, n, <<>>) /\ Fits(device, b, n, <<>>, space)
<1>0. <<>> \in Seq(Char) /\ Len(<<>>) = 0 /\ n \in Nat
  OBVIOUS
<1>1. Halfway(n, b, n, <<>>)
  <2>1. PICK t \in Seq(Char) : t = Numeral(n, b)
    BY <1>0, NumeralType
  <2>2. t \o <<>> = t
    OBVIOUS
  <2>3. Reverse(<<>>) = <<>>
    BY DEF Reverse
  <2> QED
    BY <1>0, <2>1, <2>2, <2>3 DEF Halfway
<1>2. CASE device = "serial"
  <2>1. Power(8, 11) = 8589934592
    <3>1. Power(8, 0) = 1 /\ \A k \in Nat : Power(8, k + 1) = 8 * Power(8, k)
      BY PowerIs
    <3>2. /\ Power(8, 0 + 1) = 8 * Power(8, 0) /\ Power(8, 1 + 1) = 8 * Power(8, 1)
          /\ Power(8, 2 + 1) = 8 * Power(8, 2) /\ Power(8, 3 + 1) = 8 * Power(8, 3)
          /\ Power(8, 4 + 1) = 8 * Power(8, 4) /\ Power(8, 5 + 1) = 8 * Power(8, 5)
          /\ Power(8, 6 + 1) = 8 * Power(8, 6) /\ Power(8, 7 + 1) = 8 * Power(8, 7)
          /\ Power(8, 8 + 1) = 8 * Power(8, 8) /\ Power(8, 9 + 1) = 8 * Power(8, 9)
          /\ Power(8, 10 + 1) = 8 * Power(8, 10)
      BY <3>1, SMT
    <3> QED
      BY <3>1, <3>2, SMT
  <2>2. Word \in Nat /\ Word <= 65536 * 65536 + 65535
    BY FormatAssumption, SMT DEF FormatAssumption
  <2>3. n < Power(8, 11) /\ 11 \in Nat /\ 0 + 11 <= 11
    BY <2>1, <2>2, SMT
  <2>4. space = 999 /\ b >= 8
    BY <1>2
  <2>5. Fits(device, b, n, <<>>, 999)
    BY <1>0, <1>2, <2>3, <2>4 DEF Fits
  <2> QED
    BY <1>0, <1>1, <2>4, <2>5
<1>3. CASE device # "serial"
  <2>1. space = numlen(n) /\ numlen(n) \in Nat
    BY <1>0, <1>3, NumlenIs
  <2>2. 0 + numlen(n) <= numlen(n)
    BY <2>1
  <2>3. Fits(device, b, n, <<>>, numlen(n))
    BY <1>0, <1>3, <2>2 DEF Fits
  <2> QED
    BY <1>0, <1>1, <2>1, <2>3
<1> QED
  BY <1>2, <1>3

LEMMA ConversionEnds ==
  ASSUME NEW b \in 2 .. 16, NEW n \in Nat, NEW device, NEW s, NEW space \in Nat,
         Halfway(n, b, 0, s), Fits(device, b, 0, s, space)
  PROVE  /\ Numeral(n, b) = IF s = <<>> THEN <<"0">> ELSE Reverse(s)
         /\ Numeral(n, b) \in Seq(Char)
         /\ Len(s) > space => device # "serial" /\ b < 10
<1>0. s \in Seq(Char) /\ Len(s) \in Nat
  BY DEF Halfway
<1>1. Numeral(n, b) = IF s = <<>> THEN <<"0">> ELSE Reverse(s)
  <2>1. CASE n = 0
    <3>1. Numeral(0, b) = <<DigitChar[0 + 1]>>
      <4>1. 0 \in Nat /\ 0 < b
        OBVIOUS
      <4> QED
        BY <4>1, NumeralIs
    <3>2. DigitChar[0 + 1] = "0"
      BY DEF DigitChar
    <3> QED
      BY <2>1, <3>1, <3>2 DEF Halfway
  <2>2. CASE n # 0
    BY <2>2 DEF Halfway
  <2> QED
    BY <2>1, <2>2
<1>2. ASSUME Len(s) > space PROVE device # "serial" /\ b < 10
  <2>1. device # "serial"
    <3>1. ASSUME device = "serial" PROVE FALSE
      <4>1. PICK k \in Nat : Len(s) + k <= 11 /\ space = 999
        BY <3>1 DEF Fits
      <4> QED
        BY <1>0, <1>2, <4>1
    <3> QED
      BY <3>1
  <2>2. ASSUME b >= 10 PROVE FALSE
    <3>1. Len(s) + numlen(0) <= space
      BY <2>1, <2>2 DEF Fits
    <3>2. numlen(0) = 0
      BY NumlenIs
    <3> QED
      BY <1>0, <1>2, <3>1, <3>2
  <2> QED
    BY <2>1, <2>2
<1> QED
  BY <1>1, <1>2, NumeralType

-----------------------------------------------------------------------------
(* The inductive invariant. *)

Passed(c) ==
    /\ c.of \in Printers /\ c.text \in Seq(STRING) /\ c.colour = "white"
    /\ c.args = <<>> \/ c.args \in [1 .. Consumed(c.text, Len(c.text)) -> Args]

\* The text that ends with '%' is left two characters behind it.
PastEnd(c, k, o) ==
    k = Len(c.text) + 1 /\ Printable(c, Len(c.text)) /\ o = Printed(c, Len(c.text))

\* The number of the directive at place k is being converted.
Converting(c, k, a, o, n, b, m, s, space) ==
    /\ k \in 2 .. Len(c.text) /\ Walked(c, k - 2, Consumed(c.text, k - 2) + 1, o)
    /\ c.text[k - 1] = "%" /\ c.text[k] \in Numeric
    /\ a = Consumed(c.text, k) + 1
    /\ n \in Nat /\ n = c.args[Consumed(c.text, k)].num
    /\ b \in 2 .. 16 /\ b = Base(c.of.device)[c.text[k]]
    /\ space \in Nat
    /\ Halfway(n, b, m, s) /\ Fits(c.of.device, b, m, s, space)

Idle == pc = "ready" => ruin = "none" /\ fg = "white"

Coloured ==
    /\ pc \in {"walk", "digits"} =>
          Passed(call) /\ fg = IF call.of.coloured THEN "yellow" ELSE "white"

Walking ==
    pc = "walk" /\ ruin = "none" =>
        Walked(call, i - 1, arg, out) \/ PastEnd(call, i - 1, out)

Counting ==
    /\ pc = "walk" => i \in Nat \ {0}
    /\ pc = "digits" =>
          /\ ruin = "none" /\ i \in Nat \ {0}
          /\ \E n : Converting(call, i - 1, arg, out, n, base, num, str, room)

TextInv ==
    /\ pc \in {"ready", "walk", "digits", "returned", "mute", "answered"}
    /\ Idle /\ Coloured /\ Walking /\ Counting
    /\ PrintsAsAsked /\ NumbersReadBack /\ RuinExplained

LEMMA TextInvInit == PrinterInit => TextInv
  BY DEF PrinterInit, TextInv, Idle, Coloured, Walking, Counting, PrintsAsAsked,
         NumbersReadBack, RuinExplained, PrinterRuinExplained

\* A step within a call, as far as TextInv looks beyond the printer's progress.
LEMMA PrinterStep ==
  ASSUME TextInv, pc' \in {"walk", "digits"}, Coloured', Walking', Counting',
         ruin' # "none" => PrinterRuinExplained'
  PROVE  TextInv'
  BY DEF TextInv, Idle, PrintsAsAsked, NumbersReadBack, RuinExplained, PrinterRuinExplained

LEMMA EnterInv ==
  ASSUME TextInv, Enter
  PROVE  TextInv'
<1>1. pc = "ready" /\ ruin = "none" /\ fg = "white"
  BY DEF TextInv, Idle, Enter
<1>2. PICK text, of, args :
        /\ text \in Seq(STRING) /\ of \in Printers
        /\ Call(of, text, args)
        /\ args = <<>> \/ args \in [1 .. Consumed(text, Len(text)) -> Args]
  <2>1. Write \in Printers
    BY DEF Printers
  <2>2. Texts \subseteq Seq(STRING)
    BY FormatAssumption, SMT DEF FormatAssumption
  <2> QED
    BY <2>1, <2>2, SMT DEF Enter
<1>3. /\ call' = [of |-> of, text |-> text, args |-> args, colour |-> "white"]
      /\ pc' = "walk" /\ i' = 1 /\ arg' = 1 /\ out' = <<>> /\ ruin' = "none"
      /\ fg' = IF of.coloured THEN "yellow" ELSE "white"
  BY <1>1, <1>2 DEF Call
<1>4. Passed(call') /\ call'.text = text /\ call'.of = of
  BY <1>2, <1>3 DEF Passed
<1>5. Walked(call', 0, 1, <<>>)
  <2>1. 0 \in 0 .. Len(text)
    BY LenProperties
  <2>2. Consumed(text, 0) = 0
    BY ConsumedIs
  <2>3. Printable(call', 0)
    BY DEF Printable
  <2>4. Printed(call', 0) = <<>>
    BY <2>3, PrintedIs
  <2> QED
    BY <1>4, <2>1, <2>2, <2>3, <2>4 DEF Walked
<1>6. Coloured' /\ Walking' /\ Counting'
  BY <1>3, <1>4, <1>5 DEF Coloured, Walking, Counting
<1> QED
  BY <1>3, <1>6, PrinterStep

LEMMA MuteInv ==
  ASSUME TextInv, Mute
  PROVE  TextInv'
<1>1. pc' = "mute" /\ ruin' = "none"
  BY DEF TextInv, Idle, Mute
<1> QED
  BY <1>1 DEF TextInv, Idle, Coloured, Walking, Counting, PrintsAsAsked,
         NumbersReadBack, RuinExplained, PrinterRuinExplained

LEMMA LiteralInv ==
  ASSUME TextInv, Literal
  PROVE  TextInv'
<1>1. /\ pc = "walk" /\ i \in Nat \ {0} /\ i <= Len(call.text) /\ call.text[i] # "%"
      /\ pc' = "walk" /\ i' = i + 1 /\ out' = out \o <<call.text[i]>>
      /\ UNCHANGED <<call, arg, number, fg, ruin>>
  BY DEF TextInv, Counting, Literal, Emit
<1>2. Passed(call) /\ fg = IF call.of.coloured THEN "yellow" ELSE "white"
  BY <1>1 DEF TextInv, Coloured
<1>3. Coloured' /\ Counting'
  BY <1>1, <1>2 DEF Coloured, Counting
<1>4. Walking'
  <2>1. SUFFICES ASSUME ruin = "none" PROVE Walked(call, i, arg, out \o <<call.text[i]>>)
    BY <1>1 DEF Walking
  <2>2. PICK k \in Nat : k = i - 1 /\ k + 1 = i /\ k < Len(call.text) /\ k # Len(call.text) + 1
    BY <1>1, <1>2, LenProperties DEF Passed
  <2>3. Walked(call, k, arg, out)
    BY <1>1, <2>1, <2>2 DEF TextInv, Walking, PastEnd
  <2>4. Walked(call, k + 1, arg, out \o <<call.text[k + 1]>>)
    BY <1>1, <1>2, <2>2, <2>3, LiteralIs DEF Passed
  <2> QED
    BY <2>2, <2>4
<1>5. ruin' # "none" => PrinterRuinExplained'
  BY <1>1 DEF TextInv, RuinExplained, PrinterRuinExplained, number
<1> QED
  BY <1>1, <1>3, <1>4, <1>5, PrinterStep

\* Where a directive is met.
LEMMA AtDirectiveIs ==
  ASSUME TextInv, AtDirective
  PROVE  \E k \in Nat :
           /\ i = k + 1 /\ i' = k + 3 /\ Walked(call, k, arg, out)
           /\ k < Len(call.text) /\ call.text[k + 1] = "%"
           /\ Passed(call) /\ fg = IF call.of.coloured THEN "yellow" ELSE "white"
           /\ pc = "walk" /\ ruin = "none" /\ call' = call /\ fg' = fg
           /\ Letter = IF k + 1 < Len(call.text) THEN call.text[k + 2] ELSE "end"
<1>1. /\ pc = "walk" /\ i \in Nat \ {0} /\ i <= Len(call.text) /\ call.text[i] = "%"
      /\ ruin = "none" /\ i' = i + 2 /\ call' = call /\ fg' = fg
  BY DEF TextInv, Counting, AtDirective
<1>2. Passed(call) /\ fg = IF call.of.coloured THEN "yellow" ELSE "white"
  BY <1>1 DEF TextInv, Coloured
<1>3. PICK k \in Nat : /\ k = i - 1 /\ k + 1 = i /\ i + 2 = k + 3 /\ i + 1 = k + 2
                      /\ k < Len(call.text) /\ k # Len(call.text) + 1
  BY <1>1, <1>2, LenProperties DEF Passed
<1>4. Walked(call, k, arg, out)
  BY <1>1, <1>3 DEF TextInv, Walking, PastEnd
<1>5. Letter = IF k + 1 < Len(call.text) THEN call.text[k + 2] ELSE "end"
  BY <1>3 DEF Letter
<1> QED
  BY <1>1, <1>2, <1>3, <1>4, <1>5

LEMMA TakesWrongInv ==
  ASSUME TextInv, TakesWrong
  PROVE  TextInv'
<1>1. AtDirective /\ Misread /\ ruin' = "argument" /\ UNCHANGED <<pc, arg, number, out>>
  BY DEF TakesWrong
<1>2. PICK k \in Nat :
           /\ i = k + 1 /\ i' = k + 3 /\ Walked(call, k, arg, out)
           /\ k < Len(call.text) /\ call.text[k + 1] = "%"
           /\ Passed(call) /\ fg = IF call.of.coloured THEN "yellow" ELSE "white"
           /\ pc = "walk" /\ ruin = "none" /\ call' = call /\ fg' = fg
           /\ Letter = IF k + 1 < Len(call.text) THEN call.text[k + 2] ELSE "end"
  BY <1>1, AtDirectiveIs
<1>3. Coloured' /\ Walking' /\ Counting'
  BY <1>1, <1>2 DEF Coloured, Walking, Counting
<1>4. PrinterRuinExplained'
  <2>1. \/ call.of.device = "console" /\ \E j \in 1 .. Len(call.text) :
                Directive(call.text, j) /\ call.text[j] = "o"
        \/ call.args = <<>>
    <3>1. Letter \in Consuming
      BY <1>1 DEF Misread, Consuming, Numeric
    <3>2. k + 1 < Len(call.text) /\ Letter = call.text[k + 2]
      BY <1>2, <3>1 DEF Consuming, Numeric
    <3>3. /\ Directive(call.text, k + 2) /\ arg \in Nat
          /\ Consumed(call.text, k + 2) = arg
      BY <1>2, <3>1, <3>2, PercentIs
    <3>4. PICK l \in Nat : l = Len(call.text) /\ k + 2 \in 1 .. l /\ k + 2 \in 0 .. l
      BY <1>2, <3>2, LenProperties DEF Passed
    <3>5. CASE Letter = "o" /\ call.of.device = "console"
      BY <3>2, <3>3, <3>4, <3>5
    <3>6. CASE arg > Len(call.args)
      <4>1. ASSUME call.args \in [1 .. Consumed(call.text, l) -> Args]
            PROVE  FALSE
        <5>1. Consumed(call.text, l) \in Nat /\ arg <= Consumed(call.text, l)
          BY <3>3, <3>4, ConsumedIs
        <5>2. Len(call.args) = Consumed(call.text, l)
          BY <4>1, <5>1
        <5> QED
          BY <3>3, <3>6, <5>1, <5>2
      <4> QED
        BY <1>2, <3>4, <4>1 DEF Passed
    <3> QED
      BY <1>1, <3>5, <3>6 DEF Misread
  <2> QED
    BY <1>1, <1>2, <2>1 DEF PrinterRuinExplained
<1> QED
  BY <1>1, <1>2, <1>3, <1>4, PrinterStep

\* A directive that takes an argument gets its own.
LEMMA GivenIs ==
  ASSUME NEW k \in Nat, Walked(call, k, arg, out),
         k < Len(call.text), call.text[k + 1] = "%", Passed(call), ~Misread,
         Letter \in Consuming,
         Letter = IF k + 1 < Len(call.text) THEN call.text[k + 2] ELSE "end"
  PROVE  /\ k + 1 < Len(call.text) /\ k + 2 \in 2 .. Len(call.text)
         /\ Letter = call.text[k + 2]
         /\ arg \in Nat /\ Consumed(call.text, k + 2) = arg
         /\ call.args[arg].num \in 0 .. Word - 1
         /\ call.args[arg].char \in STRING /\ call.args[arg].chars \in Seq(STRING)
<1>1. k + 1 < Len(call.text) /\ Letter = call.text[k + 2]
  BY DEF Consuming, Numeric
<1>2. arg \in Nat /\ Consumed(call.text, k + 2) = arg /\ Directive(call.text, k + 2)
  BY <1>1, PercentIs
<1>3. PICK l \in Nat : l = Len(call.text) /\ k + 2 \in 0 .. l /\ k + 2 \in 2 .. l
                       /\ k + 1 \in Nat /\ (k + 1) + 1 = k + 2
  BY <1>1, LenProperties DEF Passed
<1>4. Consumed(call.text, l) \in Nat /\ arg <= Consumed(call.text, l) /\ arg >= 1
  <2>1. Consumed(call.text, l) \in Nat /\ arg <= Consumed(call.text, l)
    BY <1>2, <1>3, ConsumedIs
  <2>2. Consumed(call.text, k) \in Nat /\ arg = Consumed(call.text, k) + 1
    BY ConsumedIs DEF Walked
  <2> QED
    BY <2>1, <2>2
<1>5. ~(arg > Len(call.args))
  BY DEF Misread
<1>6. call.args # <<>>
  <2>1. ASSUME call.args = <<>> PROVE FALSE
    <3>1. Len(call.args) = 0
      BY <2>1
    <3> QED
      BY <1>2, <1>4, <1>5, <3>1
  <2> QED
    BY <2>1
<1>7. call.args \in [1 .. Consumed(call.text, l) -> Args]
  BY <1>3, <1>6 DEF Passed
<1>8. call.args[arg] \in Args
  <2>1. arg \in 1 .. Consumed(call.text, l)
    BY <1>2, <1>4
  <2> QED
    BY <1>7, <2>1, Zenon
<1>9. call.args[arg] \in [num : 0 .. Word - 1, char : STRING, chars : Seq(STRING)]
  BY <1>8, FormatAssumption, SMT DEF FormatAssumption
<1> QED
  BY <1>1, <1>2, <1>3, <1>9, SMT

LEMMA BaseIs ==
  ASSUME NEW device, NEW letter \in Numeric, letter = "o" => device # "console",
         device \in {"console", "serial"}
  PROVE  /\ Base(device)[letter] \in 2 .. 16
         /\ device = "serial" => Base(device)[letter] >= 8
  BY DEF Base, Numeric

LEMMA DeviceIs ==
  ASSUME NEW c, Passed(c)
  PROVE  c.of.device \in {"console", "serial"}
  BY DEF Passed, Printers, WriteV, Write, WriteColoured, WriteLine, WriteLineColoured,
         PrintV, SerialWriteLine, Printer

LEMMA TakesNumberInv ==
  ASSUME TextInv, TakesNumber
  PROVE  TextInv'
<1>1. /\ AtDirective /\ ~Misread /\ Letter \in Numeric /\ Letter \in Consuming
      /\ num' = call.args[arg].num /\ base' = Base(call.of.device)[Letter]
      /\ str' = <<>> /\ arg' = arg + 1 /\ pc' = "digits"
      /\ room' = IF call.of.device = "serial" THEN 999 ELSE numlen(num')
      /\ UNCHANGED <<out, ruin>>
  BY DEF TakesNumber, Consuming
<1>2. PICK k \in Nat :
           /\ i = k + 1 /\ i' = k + 3 /\ Walked(call, k, arg, out)
           /\ k < Len(call.text) /\ call.text[k + 1] = "%"
           /\ Passed(call) /\ fg = IF call.of.coloured THEN "yellow" ELSE "white"
           /\ pc = "walk" /\ ruin = "none" /\ call' = call /\ fg' = fg
           /\ Letter = IF k + 1 < Len(call.text) THEN call.text[k + 2] ELSE "end"
  BY <1>1, AtDirectiveIs
<1>3. /\ k + 1 < Len(call.text) /\ k + 2 \in 2 .. Len(call.text)
      /\ Letter = call.text[k + 2]
      /\ arg \in Nat /\ Consumed(call.text, k + 2) = arg
      /\ call.args[arg].num \in 0 .. Word - 1
  BY <1>1, <1>2, GivenIs
<1>4. PICK n \in 0 .. Word - 1 : n = call.args[arg].num /\ num' = n
  BY <1>1, <1>3
<1>5. PICK b \in 2 .. 16 : /\ b = Base(call.of.device)[Letter] /\ base' = b
                           /\ call.of.device = "serial" => b >= 8
  <2>1. Letter = "o" => call.of.device # "console"
    BY <1>1 DEF Misread
  <2> QED
    BY <1>1, <1>2, <2>1, BaseIs, DeviceIs
<1>6. /\ b \in 2 .. 16 /\ n \in 0 .. Word - 1
      /\ room' = IF call.of.device = "serial" THEN 999 ELSE numlen(n)
  BY <1>1, <1>4
<1>7. /\ n \in Nat /\ room' \in Nat
      /\ Halfway(n, b, n, <<>>) /\ Fits(call.of.device, b, n, <<>>, room')
  <2>1. PICK d, space : d = call.of.device /\ space = room'
    OBVIOUS
  <2>2. /\ b \in 2 .. 16 /\ n \in 0 .. Word - 1
        /\ d = "serial" => b >= 8 /\ space = 999
        /\ d # "serial" => space = numlen(n)
    BY <1>5, <1>6, <2>1
  <2>3. n \in Nat /\ space \in Nat /\ Halfway(n, b, n, <<>>) /\ Fits(d, b, n, <<>>, space)
    BY <2>2, ConversionBegins
  <2> QED
    BY <2>1, <2>3
<1>8. PICK j \in Nat : j = k + 2 /\ j - 2 = k /\ j - 1 = k + 1 /\ i' - 1 = j /\ i' \in Nat \ {0}
  BY <1>2
<1>9. arg = Consumed(call.text, k) + 1
  BY <1>2 DEF Walked
<1>10. Converting(call, j, arg', out, n, b, n, <<>>, room')
  BY <1>1, <1>2, <1>3, <1>4, <1>5, <1>6, <1>7, <1>8, <1>9 DEF Converting
<1>11. Converting(call', i' - 1, arg', out', n, base', num', str', room')
  BY <1>1, <1>2, <1>4, <1>5, <1>8, <1>10
<1>12. Coloured' /\ Walking' /\ Counting'
  <2>1. Counting'
    BY <1>1, <1>2, <1>8, <1>11 DEF Counting
  <2> QED
    BY <1>1, <1>2, <2>1 DEF Coloured, Walking
<1> QED
  BY <1>1, <1>2, <1>12, PrinterStep

\* What a directive prints, the walk goes on behind.
LEMMA TextIs ==
  ASSUME NEW k \in Nat, Walked(call, k, arg, out), k + 1 < Len(call.text),
         call.text[k + 1] = "%",
         NEW p \in Seq(Char), Piece(call, k + 2) = p, NEW a,
         call.text[k + 2] \in Consuming => a = arg + 1,
         call.text[k + 2] \notin Consuming => a = arg
  PROVE  Walked(call, k + 2, a, out \o p)
<1>1. Walked(call, k + 2, Consumed(call.text, k + 2) + 1, out \o p)
  BY DirectiveIs
<1>2. /\ Consumed(call.text, k + 2) \in Nat /\ arg \in Nat
      /\ Consumed(call.text, k + 2) = IF call.text[k + 2] \in Consuming THEN arg ELSE arg - 1
  <2>1. k < Len(call.text)
    BY DEF Walked
  <2> QED
    BY <2>1, PercentIs
<1>3. a = Consumed(call.text, k + 2) + 1
  BY <1>2
<1> QED
  BY <1>1, <1>3

LEMMA TakesTextInv ==
  ASSUME TextInv, TakesText
  PROVE  TextInv'
<1>1. AtDirective /\ ~Misread /\ UNCHANGED <<pc, number, ruin>>
  BY DEF TakesText
<1>2. PICK k \in Nat :
           /\ i = k + 1 /\ i' = k + 3 /\ Walked(call, k, arg, out)
           /\ k < Len(call.text) /\ call.text[k + 1] = "%"
           /\ Passed(call) /\ fg = IF call.of.coloured THEN "yellow" ELSE "white"
           /\ pc = "walk" /\ ruin = "none" /\ call' = call /\ fg' = fg
           /\ Letter = IF k + 1 < Len(call.text) THEN call.text[k + 2] ELSE "end"
  BY <1>1, AtDirectiveIs
<1>3. PICK j \in Nat \ {0} : j = k + 2 /\ i' - 1 = j /\ i' \in Nat \ {0}
  BY <1>2
<1>4. SUFFICES Walked(call, j, arg', out') \/ PastEnd(call, j, out')
  <2>1. Coloured' /\ Walking' /\ Counting'
    BY <1>1, <1>2, <1>3, <1>4 DEF Coloured, Walking, Counting
  <2> QED
    BY <1>1, <1>2, <2>1, PrinterStep
<1>5. k + 1 < Len(call.text) =>
         Letter = call.text[j] /\ Directive(call.text, j) /\ ~Escapes(call.text, j)
  BY <1>2, <1>3, PercentIs
<1>6. ASSUME Letter \in Consuming
      PROVE  /\ k + 1 < Len(call.text)
             /\ arg \in Nat /\ Consumed(call.text, j) = arg
             /\ call.args[arg].char \in STRING /\ call.args[arg].chars \in Seq(STRING)
  BY <1>1, <1>2, <1>3, <1>6, GivenIs
<1>7. CASE Letter = "s" /\ Emit(call.args[arg].chars) /\ arg' = arg + 1
  <2>1. Letter \in Consuming
    BY <1>7 DEF Consuming
  <2>2. PICK p \in Seq(Char) : p = call.args[arg].chars
    BY <1>6, <2>1, CharIs
  <2>3. Piece(call, j) = p
    BY <1>5, <1>6, <1>7, <2>1, <2>2, PieceIs
  <2>4. Walked(call, k + 2, arg', out \o p)
    BY <1>2, <1>3, <1>5, <1>6, <1>7, <2>1, <2>3, TextIs
  <2> QED
    BY <1>3, <1>7, <2>2, <2>4 DEF Emit
<1>8. CASE Letter = "c" /\ Emit(<<call.args[arg].char>>) /\ arg' = arg + 1
  <2>1. Letter \in Consuming
    BY <1>8 DEF Consuming
  <2>2. PICK d \in Char : d = call.args[arg].char
    BY <1>6, <2>1, CharIs
  <2>3. PICK p \in Seq(Char) : p = <<call.args[arg].char>>
    <3>1. <<d>> \in Seq(Char)
      OBVIOUS
    <3> QED
      BY <2>2, <3>1, Zenon
  <2>4. Piece(call, j) = p
    BY <1>5, <1>6, <1>8, <2>1, <2>3, PieceIs
  <2>5. Walked(call, k + 2, arg', out \o p)
    BY <1>2, <1>3, <1>5, <1>6, <1>8, <2>1, <2>4, TextIs
  <2> QED
    BY <1>3, <1>8, <2>3, <2>5 DEF Emit
<1>9. CASE Letter = "%" /\ Emit(<<"%">>) /\ arg' = arg
  <2>1. Letter \notin Consuming /\ k + 1 < Len(call.text)
    BY <1>2, <1>9 DEF Consuming, Numeric
  <2>2. PICK p \in Seq(Char) : p = <<"%">>
    <3>1. PICK d \in Char : d = "%"
      BY CharIs
    <3>2. <<d>> \in Seq(Char)
      OBVIOUS
    <3> QED
      BY <3>1, <3>2, Zenon
  <2>3. Piece(call, j) = p
    BY <1>5, <1>9, <2>1, <2>2, PieceIs
  <2>4. Walked(call, k + 2, arg', out \o p)
    BY <1>2, <1>3, <1>5, <1>9, <2>1, <2>3, TextIs
  <2> QED
    BY <1>3, <1>9, <2>2, <2>4 DEF Emit
<1>10. CASE Letter \notin Consuming \cup {"%"} /\ out' = out /\ arg' = arg
  <2>1. CASE k + 1 < Len(call.text)
    <3>1. PICK p \in Seq(Char) : p = <<>>
      <4>1. <<>> \in Seq(Char)
        OBVIOUS
      <4> QED
        BY <4>1, Zenon
    <3>2. Piece(call, j) = p
      BY <1>5, <1>10, <2>1, <3>1, PieceIs
    <3>3. Walked(call, k + 2, arg', out \o p)
      BY <1>2, <1>3, <1>5, <1>10, <2>1, <3>2, TextIs
    <3>4. out \o p = out
      <4>1. Printed(call, k) \in Seq(Char) /\ out = Printed(call, k)
        BY <1>2, PrintedIs DEF Walked
      <4> QED
        BY <3>1, <4>1
    <3> QED
      BY <1>3, <1>10, <3>3, <3>4
  <2>2. CASE ~(k + 1 < Len(call.text))
    <3>1. Len(call.text) \in Nat
      BY <1>2, LenProperties DEF Passed
    <3>2. k + 1 = Len(call.text) /\ j = Len(call.text) + 1
      BY <1>2, <1>3, <2>2, <3>1
    <3>3. Printable(call, k + 1) /\ out = Printed(call, k + 1)
      BY <1>2, PercentIs
    <3> QED
      BY <1>10, <3>2, <3>3 DEF PastEnd
  <2> QED
    BY <2>1, <2>2
<1> QED
  BY <1>7, <1>8, <1>9, <1>10 DEF TakesText

LEMMA DigitInv ==
  ASSUME TextInv, Digit
  PROVE  TextInv'
<1>1. /\ pc = "digits" /\ pc' = "digits" /\ num > 0
      /\ str' = Append(str, DigitChar[(num % base) + 1]) /\ num' = num \div base
      /\ UNCHANGED <<call, i, arg, base, room, out, fg, ruin>>
  BY DEF Digit
<1>2. /\ Passed(call) /\ fg = IF call.of.coloured THEN "yellow" ELSE "white"
      /\ ruin = "none" /\ i \in Nat \ {0}
  BY <1>1 DEF TextInv, Coloured, Counting
<1>3. PICK n : Converting(call, i - 1, arg, out, n, base, num, str, room)
  BY <1>1 DEF TextInv, Counting
<1>4. /\ n \in Nat /\ base \in 2 .. 16 /\ room \in Nat
      /\ Halfway(n, base, num, str) /\ Fits(call.of.device, base, num, str, room)
      /\ num \in Nat \ {0} /\ str \in Seq(Char)
  <2>1. /\ n \in Nat /\ base \in 2 .. 16 /\ room \in Nat
        /\ Halfway(n, base, num, str) /\ Fits(call.of.device, base, num, str, room)
    BY <1>3 DEF Converting
  <2>2. num \in Nat /\ str \in Seq(Char)
    BY <2>1 DEF Halfway
  <2> QED
    BY <1>1, <2>1, <2>2
<1>5. Halfway(n, base, num', str') /\ num % base \in 0 .. base - 1
  BY <1>1, <1>4, HalfwayStep
<1>6. PICK d \in Char : d = DigitChar[(num % base) + 1] /\ str' = Append(str, d)
  <2>1. num % base \in 0 .. 15
    <3>1. \A r \in 0 .. base - 1 : r \in 0 .. 15
      BY <1>4
    <3> QED
      BY <1>5, <3>1, Zenon
  <2> QED
    BY <1>1, <2>1, CharIs
<1>7. Fits(call.of.device, base, num', str', room)
  <2>1. PICK device : device = call.of.device
    OBVIOUS
  <2>2. Fits(device, base, num \div base, Append(str, d), room)
    BY <1>4, <2>1, FitsStep
  <2> QED
    BY <1>1, <1>6, <2>1, <2>2
<1>8. Converting(call, i - 1, arg, out, n, base, num', str', room)
  BY <1>3, <1>5, <1>7 DEF Converting
<1>9. Coloured' /\ Walking' /\ Counting'
  <2>1. Counting'
    BY <1>1, <1>2, <1>8 DEF Counting
  <2> QED
    BY <1>1, <1>2, <2>1 DEF Coloured, Walking
<1> QED
  BY <1>1, <1>2, <1>9, PrinterStep

LEMMA NumberInv ==
  ASSUME TextInv, Number
  PROVE  TextInv'
<1>1. /\ pc = "digits" /\ pc' = "walk" /\ num = 0
      /\ out' = out \o (IF str = <<>> THEN <<"0">> ELSE Reverse(str))
      /\ ruin' = IF Len(str) > room THEN "overrun" ELSE "none"
      /\ call' = call /\ i' = i /\ arg' = arg /\ base' = base /\ fg' = fg
  BY DEF Number, Emit, number
<1>2. /\ Passed(call) /\ fg = IF call.of.coloured THEN "yellow" ELSE "white"
      /\ i \in Nat \ {0}
  BY <1>1 DEF TextInv, Coloured, Counting
<1>3. PICK n : Converting(call, i - 1, arg, out, n, base, num, str, room)
  BY <1>1 DEF TextInv, Counting
<1>4. PICK k \in Nat : i - 1 = k + 2 /\ k + 2 \in Nat \ {0}
  BY <1>2, <1>3 DEF Converting
<1>5. Converting(call, k + 2, arg, out, n, base, 0, str, room)
  BY <1>1, <1>3, <1>4
<1>6. /\ k + 2 \in 2 .. Len(call.text) /\ (k + 2) - 2 = k /\ (k + 2) - 1 = k + 1
      /\ Walked(call, k, Consumed(call.text, k) + 1, out)
      /\ call.text[k + 1] = "%" /\ call.text[k + 2] \in Numeric
      /\ arg = Consumed(call.text, k + 2) + 1
      /\ n \in Nat /\ n = call.args[Consumed(call.text, k + 2)].num
      /\ base \in 2 .. 16 /\ base = Base(call.of.device)[call.text[k + 2]]
      /\ room \in Nat
      /\ Halfway(n, base, 0, str) /\ Fits(call.of.device, base, 0, str, room)
  <2>1. (k + 2) - 2 = k /\ (k + 2) - 1 = k + 1
    OBVIOUS
  <2> QED
    BY <1>5, <2>1 DEF Converting
<1>7. /\ Numeral(n, base) = IF str = <<>> THEN <<"0">> ELSE Reverse(str)
      /\ Numeral(n, base) \in Seq(Char)
      /\ Len(str) > room => call.of.device # "serial" /\ base < 10
  <2>1. PICK device : device = call.of.device
    OBVIOUS
  <2>2. /\ Numeral(n, base) = IF str = <<>> THEN <<"0">> ELSE Reverse(str)
        /\ Numeral(n, base) \in Seq(Char)
        /\ Len(str) > room => device # "serial" /\ base < 10
    <3>1. n \in Nat /\ base \in 2 .. 16 /\ room \in Nat
          /\ Halfway(n, base, 0, str) /\ Fits(device, base, 0, str, room)
      BY <1>6, <2>1
    <3> QED
      BY <3>1, ConversionEnds
  <2> QED
    BY <2>1, <2>2
<1>8. PICK p \in Seq(Char) : p = Numeral(n, base) /\ out' = out \o p
  BY <1>1, <1>7
<1>9. k < Len(call.text) /\ k + 1 < Len(call.text)
  BY <1>2, <1>6, LenProperties DEF Passed
<1>10. Piece(call, k + 2) = p
  <2>1. Directive(call.text, k + 2) /\ ~Escapes(call.text, k + 2)
    BY <1>6, <1>9, PercentIs
  <2> QED
    BY <1>4, <1>6, <1>8, <2>1, PieceIs
<1>11. Walked(call, k + 2, arg, out \o p)
  BY <1>6, <1>9, <1>10, DirectiveIs
<1>12. Coloured' /\ Walking' /\ Counting'
  <2>1. Walking'
    BY <1>1, <1>4, <1>8, <1>11 DEF Walking
  <2> QED
    BY <1>1, <1>2, <2>1 DEF Coloured, Counting
<1>13. PrinterRuinExplained'
  <2>1. ruin' = "overrun" => call.of.device = "console" /\ base < 10
    BY <1>1, <1>2, <1>7, DeviceIs
  <2> QED
    BY <1>1, <2>1 DEF PrinterRuinExplained
<1> QED
  BY <1>1, <1>12, <1>13, PrinterStep

LEMMA ReturnInv ==
  ASSUME TextInv, Return
  PROVE  TextInv'
<1>1. /\ pc = "walk" /\ pc' = "returned" /\ i > Len(call.text) /\ ruin = "none"
      /\ out' = out \o (IF call.of.line THEN <<"\n">> ELSE <<>>)
      /\ fg' = IF call.of.coloured THEN call.colour ELSE fg
      /\ call' = call /\ ruin' = ruin
  BY DEF Return, Emit
<1>2. /\ Passed(call) /\ fg = IF call.of.coloured THEN "yellow" ELSE "white"
      /\ i \in Nat \ {0}
  BY <1>1 DEF TextInv, Coloured, Counting
<1>3. out = Printed(call, Len(call.text))
  <2>1. CASE Walked(call, i - 1, arg, out)
    <3>1. Len(call.text) \in Nat
      BY <1>2, LenProperties DEF Passed
    <3>2. i - 1 = Len(call.text)
      BY <1>1, <1>2, <2>1, <3>1 DEF Walked
    <3> QED
      BY <2>1, <3>2 DEF Walked
  <2>2. CASE PastEnd(call, i - 1, out)
    BY <2>2 DEF PastEnd
  <2> QED
    BY <1>1, <2>1, <2>2 DEF TextInv, Walking
<1>4. out = FlattenSeq([k \in 1 .. Len(call.text) |-> Piece(call, k)])
  BY <1>3, Zenon DEF Printed, Pieces
<1>5. fg' = "white"
  BY <1>1, <1>2 DEF Passed
<1>6. PrintsAsAsked'
  BY <1>1, <1>4, <1>5, Zenon DEF PrintsAsAsked
<1> QED
  BY <1>1, <1>6 DEF TextInv, Idle, Coloured, Walking, Counting, NumbersReadBack,
         RuinExplained, PrinterRuinExplained

LEMMA TextInvStep ==
  ASSUME TextInv, [TextNext]_textvars
  PROVE  TextInv'
<1>1. CASE PrinterNext
  BY <1>1, EnterInv, MuteInv, LiteralInv, TakesWrongInv, TakesNumberInv, TakesTextInv, DigitInv,
     NumberInv, ReturnInv DEF PrinterNext
<1>2. CASE StringCall
  <2>2. pc = "ready" => ruin = "none"
    BY DEF TextInv, Idle
  <2>3. RuinExplained' /\ NumbersReadBack' /\ pc' = "answered"
    BY <1>2, <2>2, StringCallExplained
  <2> QED
    BY <2>3 DEF TextInv, Idle, Coloured, Walking, Counting, PrintsAsAsked
<1>3. CASE UNCHANGED textvars
  BY <1>3 DEF textvars, number, TextInv, Idle, Coloured, Walking, Counting, PrintsAsAsked,
     NumbersReadBack, RuinExplained, PrinterRuinExplained
<1> QED
  BY <1>1, <1>2, <1>3 DEF TextNext

\* Wherever a walk over a format is, what the characters behind it stand for has
\* been printed, the arguments they ask for have been taken, and of a number half
\* converted the digits so far and the rest make up its numeral.
THEOREM TextInvariant == TextSpec => []TextInv
<1>1. TextInv /\ [TextNext]_textvars => TextInv'
  BY TextInvStep
<1> QED
  BY <1>1, TextInvInit, PTL DEF TextSpec

\* Every text, of any length and with any arguments, is printed as it asks, by every
\* printing function of the console and the serial port: no argument is taken by
\* another's directive, numbers are whole and in order, and the colour is restored.
THEOREM PrintedAsAsked == TextSpec => []PrintsAsAsked
<1>1. TextInv => PrintsAsAsked
  BY DEF TextInv
<1> QED
  BY <1>1, TextInvariant, PTL

\* Every number that numstr converts, to any base from 2 to 36, is read back as the
\* same one by strnum, also when its letters are turned into capitals.
THEOREM ReadBackAlways == TextSpec => []NumbersReadBack
<1>1. TextInv => NumbersReadBack
  BY DEF TextInv
<1> QED
  BY <1>1, TextInvariant, PTL

\* No call writes behind the buffer it allocates but those RuinExplained names: a
\* number of any width fits in any base from ten on (numstr), and strdels and
\* strdelc only overrun when they delete too little.
THEOREM RuinAlwaysExplained == TextSpec => []RuinExplained
<1>1. TextInv => RuinExplained
  BY DEF TextInv
<1> QED
  BY <1>1, TextInvariant, PTL

-----------------------------------------------------------------------------
(* The least of a set of numbers, and where a loop over a string ends. *)

LEMMA MinIs ==
  ASSUME NEW T, T \subseteq Nat, T # {}
  PROVE  /\ Min(T) \in T /\ \A m \in T : Min(T) <= m
         /\ \A n \in T : (\A m \in T : n <= m) => Min(T) = n
<1>1. PICK n \in T : \A m \in T : n <= m
  BY LeastNumber
<1>2. Min(T) = CHOOSE k \in T : \A m \in T : k <= m
  BY Zenon DEF Min
<1>3. Min(T) \in T /\ \A m \in T : Min(T) <= m
  BY <1>1, <1>2, Zenon
<1>4. ASSUME NEW k \in T, \A m \in T : k <= m PROVE Min(T) = k
  <2>1. Min(T) <= k /\ k <= Min(T)
    BY <1>3, <1>4, Zenon
  <2>2. Min(T) \in Nat /\ k \in Nat
    BY <1>3
  <2> QED
    BY <2>1, <2>2
<1> QED
  BY <1>3, <1>4

LEMMA MaxIs ==
  ASSUME NEW n \in Nat, NEW T, T \subseteq 0 .. n, T # {}
  PROVE  Max(T) \in T /\ \A m \in T : Max(T) >= m
<1> DEFINE U == {n - m : m \in T}
<1>1. U \subseteq Nat /\ U # {}
  <2>1. \A m \in 0 .. n : n - m \in Nat
    OBVIOUS
  <2> QED
    BY <2>1, Zenon
<1>2. PICK u \in U : \A w \in U : u <= w
  <2> HIDE DEF U
  <2> QED
    BY <1>1, LeastNumber
<1>3. PICK k \in T : u = n - k
  BY <1>2
<1>4. ASSUME NEW m \in T PROVE k >= m
  <2>1. n - k <= n - m
    BY <1>2, <1>3
  <2>2. k \in Nat /\ m \in Nat
    OBVIOUS
  <2> QED
    BY <2>1, <2>2
<1>5. Max(T) = CHOOSE j \in T : \A m \in T : j >= m
  BY Zenon DEF Max
<1> QED
  BY <1>4, <1>5, Zenon

LEMMA AtIs ==
  ASSUME NEW s \in Seq(1 .. 127), NEW k \in Nat
  PROVE  /\ At(s, k) \in 0 .. 127
         /\ k < Len(s) => At(s, k) = s[k + 1] /\ At(s, k) # NUL
         /\ k >= Len(s) => At(s, k) = NUL
<1>1. CASE k < Len(s)
  <2>1. k + 1 \in 1 .. Len(s)
    BY <1>1, LenProperties
  <2>2. s[k + 1] \in 1 .. 127
    BY <2>1, ElementOfSeq
  <2>3. At(s, k) = s[k + 1]
    BY <1>1 DEF At
  <2>4. \A c \in 1 .. 127 : c \in 0 .. 127 /\ c # NUL
    BY DEF NUL
  <2>5. ~(k >= Len(s))
    BY <1>1, LenProperties
  <2> QED
    BY <1>1, <2>2, <2>3, <2>4, <2>5, Zenon
<1>2. CASE ~(k < Len(s))
  <2>1. At(s, k) = NUL
    BY <1>2 DEF At
  <2> QED
    BY <1>2, <2>1 DEF NUL
<1> QED
  BY <1>1, <1>2

\* The first k characters agree, and neither string has ended.
Agree(s, t, k) ==
    k \in Nat /\ \A j \in 0 .. k - 1 : At(s, j) = At(t, j) /\ At(s, j) # NUL

LEMMA AgreeIs ==
  ASSUME NEW s \in Seq(1 .. 127), NEW t \in Seq(1 .. 127), NEW k, Agree(s, t, k)
  PROVE  /\ k \in 0 .. Len(s) /\ k \in 0 .. Len(t)
         /\ \A j \in 1 .. k : s[j] = t[j]
         /\ Agree(t, s, k)
<1>0. k \in Nat /\ Len(s) \in Nat /\ Len(t) \in Nat
  BY LenProperties DEF Agree
<1>1. k <= Len(s)
  <2>1. ASSUME k > Len(s) PROVE FALSE
    <3>1. Len(s) \in 0 .. k - 1
      BY <1>0, <2>1
    <3>2. At(s, Len(s)) # NUL
      BY <3>1 DEF Agree
    <3> QED
      BY <1>0, <3>2, AtIs
  <2> QED
    BY <1>0, <2>1
<1>2. k <= Len(t)
  <2>1. ASSUME k > Len(t) PROVE FALSE
    <3>1. Len(t) \in 0 .. k - 1
      BY <1>0, <2>1
    <3>2. At(t, Len(t)) # NUL
      BY <3>1 DEF Agree
    <3> QED
      BY <1>0, <3>2, AtIs
  <2> QED
    BY <1>0, <2>1
<1>3. ASSUME NEW j \in 1 .. k PROVE s[j] = t[j]
  <2>1. PICK m \in Nat : m = j - 1 /\ m \in 0 .. k - 1 /\ m + 1 = j /\ m < Len(s) /\ m < Len(t)
    BY <1>0, <1>1, <1>2
  <2>2. At(s, m) = At(t, m)
    BY <2>1 DEF Agree
  <2> QED
    BY <2>1, <2>2, AtIs
<1>4. Agree(t, s, k)
  BY DEF Agree
<1> QED
  BY <1>0, <1>1, <1>2, <1>3, <1>4

LEMMA InitialIs ==
  ASSUME NEW s \in Seq(1 .. 127), NEW n \in Nat, n <= Len(s)
  PROVE  /\ SubSeq(s, 1, n) \in Seq(1 .. 127) /\ Len(SubSeq(s, 1, n)) = n
         /\ \A j \in 1 .. n : SubSeq(s, 1, n)[j] = s[j]
<1>1. \A j \in 1 .. n : j \in 1 .. Len(s)
  BY LenProperties
<1>2. \A j \in 1 .. Len(s) : s[j] \in 1 .. 127
  BY ElementOfSeq
<1>3. /\ SubSeq(s, 1, n) \in Seq(1 .. 127)
      /\ Len(SubSeq(s, 1, n)) = IF 1 <= n THEN n - 1 + 1 ELSE 0
      /\ \A j \in 1 .. n - 1 + 1 : SubSeq(s, 1, n)[j] = s[1 + j - 1]
  <2>1. \A j \in 1 .. n : s[j] \in 1 .. 127
    BY <1>1, <1>2, Zenon
  <2> QED
    BY <2>1, SubSeqProperties
<1> QED
  BY <1>3

LEMMA SamePrefix ==
  ASSUME NEW s \in Seq(1 .. 127), NEW t \in Seq(1 .. 127),
         NEW n \in Nat, n <= Len(s), n <= Len(t)
  PROVE  SubSeq(s, 1, n) = SubSeq(t, 1, n) <=> \A j \in 1 .. n : s[j] = t[j]
<1>1. /\ SubSeq(s, 1, n) \in Seq(1 .. 127) /\ Len(SubSeq(s, 1, n)) = n
      /\ \A j \in 1 .. n : SubSeq(s, 1, n)[j] = s[j]
  BY InitialIs
<1>2. /\ SubSeq(t, 1, n) \in Seq(1 .. 127) /\ Len(SubSeq(t, 1, n)) = n
      /\ \A j \in 1 .. n : SubSeq(t, 1, n)[j] = t[j]
  BY InitialIs
<1>3. ASSUME \A j \in 1 .. n : s[j] = t[j] PROVE SubSeq(s, 1, n) = SubSeq(t, 1, n)
  <2>1. \A j \in 1 .. n : SubSeq(s, 1, n)[j] = SubSeq(t, 1, n)[j]
    BY <1>1, <1>2, <1>3
  <2> QED
    BY <1>1, <1>2, <2>1, SeqEqual
<1>4. ASSUME SubSeq(s, 1, n) = SubSeq(t, 1, n), NEW j \in 1 .. n PROVE s[j] = t[j]
  BY <1>1, <1>2, <1>4
<1> QED
  BY <1>3, <1>4

LEMMA PrefixIs ==
  ASSUME NEW s \in Seq(1 .. 127), NEW n \in Nat
  PROVE  /\ n <= Len(s) => Prefix(s, n) = SubSeq(s, 1, n) /\ Len(Prefix(s, n)) = n
         /\ n >= Len(s) => Prefix(s, n) = s
         /\ Prefix(s, n) \in Seq(1 .. 127)
         /\ \A k \in Nat : k < n => At(Prefix(s, n), k) = At(s, k)
<1>1. PICK l \in Nat : l = Len(s)
  OBVIOUS
<1>2. SubSeq(s, 1, l) = s
  BY <1>1, SubSeqFull
<1>3. CASE n < l
  <2>1. Prefix(s, n) = SubSeq(s, 1, n)
    BY <1>1, <1>3 DEF Prefix
  <2>2. /\ SubSeq(s, 1, n) \in Seq(1 .. 127) /\ Len(SubSeq(s, 1, n)) = n
        /\ \A j \in 1 .. n : SubSeq(s, 1, n)[j] = s[j]
    <3>1. n <= Len(s)
      BY <1>1, <1>3
    <3> QED
      BY <3>1, InitialIs
  <2>3. ASSUME NEW k \in Nat, k < n PROVE At(Prefix(s, n), k) = At(s, k)
    <3>1. k + 1 \in 1 .. n /\ k < Len(s)
      BY <1>1, <1>3, <2>3
    <3> QED
      BY <2>1, <2>2, <2>3, <3>1, AtIs
  <2> QED
    BY <1>1, <1>3, <2>1, <2>2, <2>3
<1>4. CASE n >= l
  <2>1. Prefix(s, n) = s
    BY <1>1, <1>2, <1>4 DEF Prefix
  <2> QED
    BY <1>1, <1>2, <1>4, <2>1
<1> QED
  BY <1>1, <1>3, <1>4

-----------------------------------------------------------------------------
(* Comparing. *)

LEMMA PrecedesIs ==
  ASSUME NEW s \in Seq(1 .. 127), NEW t \in Seq(1 .. 127), NEW k,
         Agree(s, t, k), Differ(s, t, k)
  PROVE  Precedes(s, t) <=> At(s, k) < At(t, k)
<1>0. /\ k \in Nat /\ k \in 0 .. Len(s) /\ k \in 0 .. Len(t)
      /\ Len(s) \in Nat /\ Len(t) \in Nat
      /\ \A j \in 1 .. k : s[j] = t[j]
  <2>1. k \in Nat /\ Len(s) \in Nat /\ Len(t) \in Nat
    BY LenProperties DEF Agree
  <2>2. s \in Seq(1 .. 127) /\ t \in Seq(1 .. 127) /\ Agree(s, t, k)
    OBVIOUS
  <2>3. /\ k \in 0 .. Len(s) /\ k \in 0 .. Len(t)
        /\ \A j \in 1 .. k : s[j] = t[j]
        /\ Agree(t, s, k)
    BY <2>2, AgreeIs, Zenon
  <2> QED
    BY <2>1, <2>3, Zenon
<1>1. ASSUME At(s, k) < At(t, k) PROVE Precedes(s, t)
  <2>1. k < Len(t)
    <3>1. ASSUME k >= Len(t) PROVE FALSE
      <4>1. At(t, k) = 0
        BY <1>0, <3>1, AtIs DEF NUL
      <4>2. At(s, k) \in 0 .. 127
        BY <1>0, AtIs
      <4>3. \A c \in 0 .. 127 : ~(c < 0)
        OBVIOUS
      <4> QED
        BY <1>1, <4>1, <4>2, <4>3, Zenon
    <3> QED
      BY <1>0, <3>1
  <2>2. CASE k = Len(s)
    <3>1. SubSeq(s, 1, Len(s)) = SubSeq(t, 1, Len(s))
      BY <1>0, <2>1, <2>2, SamePrefix
    <3>2. IsPrefix(s, t)
      BY <1>0, <2>1, <2>2, <3>1 DEF IsPrefix
    <3>3. s # t
      BY <1>0, <2>1, <2>2
    <3> QED
      BY <3>2, <3>3 DEF Precedes, IsStrictPrefix
  <2>3. CASE k < Len(s)
    <3>1. s[k + 1] < t[k + 1]
      BY <1>0, <1>1, <2>1, <2>3, AtIs
    <3>2. Prefix(s, k) = Prefix(t, k)
      <4>1. SubSeq(s, 1, k) = SubSeq(t, 1, k)
        BY <1>0, <2>1, <2>3, SamePrefix
      <4>2. k <= Len(s) /\ k <= Len(t)
        BY <1>0
      <4>3. Prefix(s, k) = SubSeq(s, 1, k)
        BY <1>0, <4>2, PrefixIs
      <4>4. Prefix(t, k) = SubSeq(t, 1, k)
        BY <1>0, <4>2, PrefixIs
      <4> QED
        BY <4>1, <4>3, <4>4
    <3>3. k + 1 \in 1 .. Len(s) /\ k + 1 <= Len(t) /\ (k + 1) - 1 = k
      BY <1>0, <2>1, <2>3
    <3>4. \E m \in 1 .. Len(s) : /\ m <= Len(t) /\ s[m] < t[m]
                                 /\ Prefix(s, m - 1) = Prefix(t, m - 1)
      BY <3>1, <3>2, <3>3, Zenon
    <3> QED
      BY <3>4 DEF Precedes
  <2> QED
    BY <1>0, <2>2, <2>3
<1>2. ASSUME Precedes(s, t) PROVE At(s, k) < At(t, k)
  <2>1. CASE IsStrictPrefix(s, t)
    <3>1. Len(s) <= Len(t) /\ SubSeq(s, 1, Len(s)) = SubSeq(t, 1, Len(s)) /\ s # t
      BY <2>1 DEF IsStrictPrefix, IsPrefix
    <3>2. \A j \in 1 .. Len(s) : s[j] = t[j]
      BY <1>0, <3>1, SamePrefix
    <3>3. Len(s) < Len(t)
      <4>1. ASSUME Len(s) = Len(t) PROVE s = t
        BY <3>2, <4>1, SeqEqual
      <4> QED
        BY <1>0, <3>1, <4>1
    <3>4. k = Len(s)
      <4>1. ASSUME k < Len(s) PROVE FALSE
        <5>1. At(s, k) = At(t, k) /\ At(s, k) # NUL /\ At(t, k) # NUL
          <6>1. k + 1 \in 1 .. Len(s) /\ k < Len(t)
            BY <1>0, <3>3, <4>1
          <6> QED
            BY <1>0, <3>2, <4>1, <6>1, AtIs
        <5> QED
          BY <5>1 DEF Differ
      <4> QED
        BY <1>0, <4>1
    <3>5. At(s, k) = NUL /\ At(t, k) \in 0 .. 127 /\ At(t, k) # NUL
      BY <1>0, <3>3, <3>4, AtIs
    <3>6. \A c \in 0 .. 127 : c # NUL => NUL < c
      BY DEF NUL
    <3> QED
      BY <3>5, <3>6, Zenon
  <2>2. CASE \E m \in 1 .. Len(s) : /\ m <= Len(t) /\ s[m] < t[m]
                                    /\ Prefix(s, m - 1) = Prefix(t, m - 1)
    <3>1. PICK m \in 1 .. Len(s) : /\ m <= Len(t) /\ s[m] < t[m]
                                   /\ Prefix(s, m - 1) = Prefix(t, m - 1)
      BY <2>2
    <3>2. PICK p \in Nat : p = m - 1 /\ p + 1 = m /\ p < Len(s) /\ p < Len(t)
      BY <1>0, <3>1
    <3>3. At(s, p) < At(t, p)
      BY <3>1, <3>2, AtIs
    <3>4. \A j \in 1 .. p : s[j] = t[j]
      <4>1. p <= Len(s) /\ p <= Len(t)
        BY <1>0, <3>2
      <4>2. Prefix(s, p) = SubSeq(s, 1, p) /\ Prefix(t, p) = SubSeq(t, 1, p)
        BY <4>1, PrefixIs
      <4> QED
        BY <3>1, <3>2, <4>1, <4>2, SamePrefix
    <3>5. ~(p < k)
      <4>1. ASSUME p < k PROVE FALSE
        <5>1. p \in 0 .. k - 1
          BY <1>0, <4>1
        <5>2. At(s, p) = At(t, p)
          BY <5>1 DEF Agree
        <5>3. At(s, p) \in 0 .. 127
          BY AtIs
        <5>4. \A c \in 0 .. 127 : ~(c < c)
          OBVIOUS
        <5> QED
          BY <3>3, <5>2, <5>3, <5>4, Zenon
      <4> QED
        BY <4>1
    <3>6. ~(k < p)
      <4>1. ASSUME k < p PROVE FALSE
        <5>1. k + 1 \in 1 .. p /\ k < Len(s) /\ k < Len(t)
          BY <1>0, <3>2, <4>1
        <5>2. At(s, k) = At(t, k) /\ At(s, k) # NUL /\ At(t, k) # NUL
          BY <1>0, <3>4, <5>1, AtIs
        <5> QED
          BY <5>2 DEF Differ
      <4> QED
        BY <4>1
    <3>7. p = k
      BY <1>0, <3>5, <3>6
    <3> QED
      BY <3>3, <3>7
  <2> QED
    BY <1>2, <2>1, <2>2, Zenon DEF Precedes
<1> QED
  BY <1>1, <1>2

LEMMA SignIs ==
  ASSUME NEW s \in Seq(1 .. 127), NEW t \in Seq(1 .. 127), NEW k,
         Agree(s, t, k), Differ(s, t, k)
  PROVE  Sign(At(s, k) - At(t, k), s, t)
<1>1. Agree(t, s, k) /\ Differ(t, s, k)
  BY AgreeIs DEF Differ
<1>2. Precedes(s, t) <=> At(s, k) < At(t, k)
  BY PrecedesIs
<1>3. Precedes(t, s) <=> At(t, k) < At(s, k)
  BY <1>1, PrecedesIs
<1>4. PICK c \in Int, d \in Int : c = At(s, k) /\ d = At(t, k)
  <2>1. k \in Nat
    BY DEF Agree
  <2>2. At(s, k) \in 0 .. 127 /\ At(t, k) \in 0 .. 127
    BY <2>1, AtIs
  <2>3. \A c \in 0 .. 127 : c \in Int
    OBVIOUS
  <2> QED
    BY <2>2, <2>3, Zenon
<1> QED
  BY <1>2, <1>3, <1>4 DEF Sign

\* Where a loop over two strings ends.
LEMMA AgreeUpto ==
  ASSUME NEW s \in Seq(1 .. 127), NEW t \in Seq(1 .. 127), NEW k \in Nat,
         \A j \in 0 .. k - 1 : ~Differ(s, t, j)
  PROVE  Agree(s, t, k)
  BY DEF Agree, Differ

LEMMA StrcmpIs ==
  ASSUME NEW s \in Seq(1 .. 127), NEW t \in Seq(1 .. 127)
  PROVE  Sign(strcmp(s, t), s, t)
<1> DEFINE T == {k \in 0 .. Len(s) : Differ(s, t, k)}
<1>1. T \subseteq Nat /\ Len(s) \in T
  <2>1. Len(s) \in Nat /\ Len(s) \in 0 .. Len(s)
    BY LenProperties
  <2>2. Differ(s, t, Len(s))
    BY <2>1, AtIs DEF Differ
  <2>3. \A k \in 0 .. Len(s) : k \in Nat
    OBVIOUS
  <2> QED
    BY <2>1, <2>2, <2>3
<1>2. strcmp(s, t) = At(s, Min(T)) - At(t, Min(T))
  BY Zenon DEF strcmp, Index
<1>3. PICK k : k = Min(T) /\ k \in T /\ \A m \in T : k <= m
  <2> HIDE DEF T
  <2>1. T # {}
    BY <1>1
  <2> QED
    BY <1>1, <2>1, MinIs
<1>4. Differ(s, t, k) /\ k \in 0 .. Len(s) /\ k \in Nat
  BY <1>3
<1>5. ASSUME NEW j \in 0 .. k - 1 PROVE ~Differ(s, t, j)
  <2>1. j \in 0 .. Len(s) /\ ~(k <= j)
    BY <1>4, LenProperties
  <2> QED
    BY <1>3, <2>1
<1>6. Agree(s, t, k)
  BY <1>4, <1>5, AgreeUpto
<1> HIDE DEF T
<1> QED
  BY <1>2, <1>3, <1>4, <1>6, SignIs

LEMMA StrncmpIs ==
  ASSUME NEW s \in Seq(1 .. 127), NEW t \in Seq(1 .. 127), NEW n \in Nat
  PROVE  Sign(strncmp(s, t, n), Prefix(s, n + 1), Prefix(t, n + 1))
<1> DEFINE T == {k \in 0 .. Len(s) + n : k = n \/ Differ(s, t, k)}
<1>1. T \subseteq Nat /\ n \in T
  <2>1. Len(s) \in Nat /\ n \in 0 .. Len(s) + n
    BY LenProperties
  <2>2. \A k \in 0 .. Len(s) + n : k \in Nat
    OBVIOUS
  <2> QED
    BY <2>1, <2>2
<1>2. strncmp(s, t, n) = At(s, Min(T)) - At(t, Min(T))
  BY Zenon DEF strncmp, Index
<1>3. PICK k : k = Min(T) /\ k \in T /\ \A m \in T : k <= m
  <2> HIDE DEF T
  <2>1. T # {}
    BY <1>1
  <2> QED
    BY <1>1, <2>1, MinIs
<1>4. /\ k = n \/ Differ(s, t, k)
      /\ k \in 0 .. Len(s) + n /\ k \in Nat /\ k <= n
  BY <1>1, <1>3
<1>5. ASSUME NEW j \in 0 .. k - 1 PROVE ~Differ(s, t, j)
  <2>1. j \in 0 .. Len(s) + n /\ ~(k <= j)
    BY <1>4, LenProperties
  <2> QED
    BY <1>3, <2>1
<1> DEFINE p == Prefix(s, n + 1)
           q == Prefix(t, n + 1)
<1>6. /\ p \in Seq(1 .. 127) /\ q \in Seq(1 .. 127)
      /\ \A j \in Nat : j < n + 1 => At(p, j) = At(s, j) /\ At(q, j) = At(t, j)
      /\ n + 1 <= Len(s) => Len(p) = n + 1
      /\ n + 1 <= Len(t) => Len(q) = n + 1
  <2> HIDE DEF p, q
  <2>1. n + 1 \in Nat /\ p = Prefix(s, n + 1) /\ q = Prefix(t, n + 1)
    BY DEF p, q
  <2>2. /\ p \in Seq(1 .. 127) /\ (n + 1 <= Len(s) => Len(p) = n + 1)
        /\ \A j \in Nat : j < n + 1 => At(p, j) = At(s, j)
    BY <2>1, PrefixIs, Zenon
  <2>3. /\ q \in Seq(1 .. 127) /\ (n + 1 <= Len(t) => Len(q) = n + 1)
        /\ \A j \in Nat : j < n + 1 => At(q, j) = At(t, j)
    BY <2>1, PrefixIs, Zenon
  <2> QED
    BY <2>2, <2>3, Zenon
<1> HIDE DEF p, q
<1>7. \A j \in 0 .. k : At(p, j) = At(s, j) /\ At(q, j) = At(t, j)
  <2>1. \A j \in 0 .. k : j \in Nat /\ j < n + 1
    BY <1>4
  <2> QED
    BY <1>6, <2>1
<1>8. \A j \in 0 .. k : Differ(p, q, j) <=> Differ(s, t, j)
  BY <1>7 DEF Differ
<1>9. Agree(p, q, k)
  <2>1. \A j \in 0 .. k - 1 : j \in 0 .. k
    BY <1>4
  <2>2. \A j \in 0 .. k - 1 : ~Differ(p, q, j)
    BY <1>5, <1>8, <2>1
  <2> QED
    BY <1>4, <1>6, <2>2, AgreeUpto
<1> HIDE DEF T
<1>10. k \in 0 .. k
  BY <1>4
<1>11. strncmp(s, t, n) = At(p, k) - At(q, k)
  BY <1>2, <1>3, <1>7, <1>10
<1>12. CASE Differ(s, t, k)
  <2>1. Sign(At(p, k) - At(q, k), p, q)
    BY <1>6, <1>8, <1>9, <1>10, <1>12, SignIs
  <2> QED
    BY <1>11, <2>1 DEF p, q
<1>13. CASE ~Differ(s, t, k)
  <2>1. k = n /\ ~Differ(p, q, k) /\ ~Differ(s, t, k)
    BY <1>4, <1>8, <1>10, <1>13
  <2>2. At(p, k) = At(q, k) /\ At(p, k) # NUL /\ At(s, k) # NUL /\ At(t, k) # NUL
    BY <2>1 DEF Differ
  <2>3. n + 1 <= Len(s) /\ n + 1 <= Len(t)
    BY <1>4, <2>1, <2>2, AtIs, LenProperties
  <2>4. Len(p) = n + 1 /\ Len(q) = n + 1
    BY <1>6, <2>3
  <2>5. ASSUME NEW j \in 1 .. n + 1 PROVE p[j] = q[j]
    <3>1. PICK m \in Nat : m = j - 1 /\ m + 1 = j /\ m < n + 1
      OBVIOUS
    <3>2. CASE m = n
      BY <1>6, <2>1, <2>2, <2>4, <3>1, <3>2, AtIs
    <3>3. CASE m # n
      <4>1. m \in 0 .. k - 1
        BY <2>1, <3>1, <3>3
      <4>2. At(p, m) = At(q, m)
        BY <1>9, <4>1 DEF Agree
      <4> QED
        BY <1>6, <2>4, <3>1, <4>2, AtIs
    <3> QED
      BY <3>2, <3>3
  <2>6. p = q
    BY <1>6, <2>4, <2>5, SeqEqual
  <2>7. At(p, k) - At(q, k) = 0
    <3>1. At(p, k) \in 0 .. 127
      BY <1>4, <1>6, AtIs
    <3>2. \A c \in 0 .. 127 : c - c = 0
      OBVIOUS
    <3> QED
      BY <2>2, <3>1, <3>2, Zenon
  <2>8. ~Precedes(p, p)
    <3>1. ~IsStrictPrefix(p, p)
      BY DEF IsStrictPrefix
    <3>2. ASSUME NEW m \in 1 .. Len(p) PROVE ~(p[m] < p[m])
      <4>1. p[m] \in 1 .. 127
        BY <1>6, ElementOfSeq
      <4>2. \A c \in 1 .. 127 : ~(c < c)
        OBVIOUS
      <4> QED
        BY <4>1, <4>2, Zenon
    <3> QED
      BY <3>1, <3>2, Zenon DEF Precedes
  <2>9. Sign(0, p, p)
    BY <2>8 DEF Sign
  <2> QED
    BY <1>11, <2>6, <2>7, <2>9 DEF p, q
<1> QED
  BY <1>12, <1>13

-----------------------------------------------------------------------------
(* Searching. *)

LEMMA StrpbrkIs ==
  ASSUME NEW s \in Seq(1 .. 127), NEW t
  PROVE  /\ strpbrk(s, t) = Least(AnyOf(s, t))
         /\ AnyOf(s, t) = {} => strpbrk(s, t) = Null
         /\ AnyOf(s, t) # {} =>
               /\ strpbrk(s, t) \in AnyOf(s, t)
               /\ \A m \in AnyOf(s, t) : strpbrk(s, t) <= m
<1> DEFINE Stop(k) == \E j \in DOMAIN t : At(s, k) = t[j]
           T == {k \in 0 .. Len(s) : k = Len(s) \/ Stop(k)}
           A == AnyOf(s, t)
<1>0. PICK l \in Nat : l = Len(s)
  BY LenProperties
<1>1. T \subseteq Nat /\ l \in T
  <2>1. l \in 0 .. Len(s)
    BY <1>0
  <2>2. \A k \in 0 .. Len(s) : k \in Nat
    OBVIOUS
  <2> QED
    BY <1>0, <2>1, <2>2
<1>2. strpbrk(s, t) = IF Min(T) = l THEN Null ELSE Min(T)
  BY <1>0, Zenon DEF strpbrk, Index
<1>3. ASSUME NEW k PROVE k \in A <=> k \in 0 .. l - 1 /\ Stop(k)
  <2>1. ASSUME k \in 0 .. l - 1 PROVE At(s, k) = s[k + 1]
    <3>1. k \in Nat /\ k < Len(s)
      BY <1>0, <2>1
    <3> QED
      BY <3>1, AtIs
  <2> QED
    BY <1>0, <2>1, Zenon DEF AnyOf
<1>4. ASSUME NEW k PROVE k \in T <=> k = l \/ k \in A
  <2>1. k \in 0 .. l <=> k = l \/ k \in 0 .. l - 1
    BY <1>0
  <2>2. k \in T <=> k \in 0 .. l /\ (k = l \/ Stop(k))
    BY <1>0, Zenon
  <2> HIDE DEF T, Stop, A
  <2> QED
    BY <1>3, <2>1, <2>2, Zenon
<1>5. A \subseteq 0 .. l - 1
  BY <1>3
<1> HIDE DEF T, Stop
<1>6. CASE A = {}
  <2>1. Min(T) = l
    BY <1>1, <1>4, <1>6, MinIs
  <2> QED
    BY <1>2, <1>6, <2>1 DEF Least
<1>7. CASE A # {}
  <2>1. A \subseteq Nat /\ \A m \in A : m < l
    BY <1>0, <1>5
  <2> HIDE DEF A
  <2>2. Min(A) \in A /\ \A m \in A : Min(A) <= m
    BY <1>7, <2>1, MinIs
  <2>3. Min(A) \in T /\ \A m \in T : Min(A) <= m
    <3>1. Min(A) \in T
      BY <1>4, <2>2, Zenon
    <3>2. ASSUME NEW m \in T PROVE Min(A) <= m
      <4>1. CASE m = l
        <5>1. PICK a \in Nat : a = Min(A) /\ a < l
          BY <2>1, <2>2, Zenon
        <5> QED
          BY <4>1, <5>1
      <4>2. CASE m \in A
        BY <2>2, <4>2
      <4> QED
        BY <1>4, <3>2, <4>1, <4>2, Zenon
    <3> QED
      BY <3>1, <3>2
  <2>4. Min(T) = Min(A)
    BY <1>1, <2>3, MinIs
  <2>5. strpbrk(s, t) = Min(A)
    BY <1>0, <1>2, <2>1, <2>2, <2>4
  <2> QED
    BY <1>7, <2>2, <2>5 DEF Least, A
<1> QED
  BY <1>6, <1>7

LEMMA StrrchrIs ==
  ASSUME NEW s \in Seq(1 .. 127), NEW c
  PROVE  strrchr(s, c) = Greatest(AnyOf(s, <<c>>))
<1> DEFINE T == {k \in 0 .. Len(s) - 1 : At(s, k) = c}
<1>0. PICK l \in Nat : l = Len(s)
  BY LenProperties
<1>1. strrchr(s, c) = IF T = {} THEN Null ELSE Max(T)
  BY Zenon DEF strrchr
<1>2. \A k \in 0 .. l - 1 : At(s, k) = s[k + 1]
  BY <1>0, AtIs
<1>3. T = {k \in 0 .. Len(s) - 1 : s[k + 1] = c}
  BY <1>0, <1>2, Zenon
<1>4. AnyOf(s, <<c>>) = {k \in 0 .. Len(s) - 1 : s[k + 1] = c}
  <2>1. \A k : (\E j \in DOMAIN <<c>> : s[k + 1] = <<c>>[j]) <=> s[k + 1] = c
    OBVIOUS
  <2> QED
    BY <2>1, Zenon DEF AnyOf
<1> HIDE DEF T
<1> QED
  BY <1>1, <1>3, <1>4, Zenon DEF Greatest

\* The rest of a string from an index on.
LEMMA RestIs ==
  ASSUME NEW s \in Seq(1 .. 127), NEW k \in Nat, k <= Len(s)
  PROVE  /\ SubSeq(s, k + 1, Len(s)) \in Seq(1 .. 127)
         /\ Len(SubSeq(s, k + 1, Len(s))) = Len(s) - k
         /\ \A j \in Nat : At(SubSeq(s, k + 1, Len(s)), j) = At(s, k + j)
<1>0. PICK l \in Nat : l = Len(s) /\ k <= l
  BY LenProperties
<1>1. \A r \in k + 1 .. l : r \in 1 .. Len(s)
  BY <1>0
<1>2. \A r \in 1 .. Len(s) : s[r] \in 1 .. 127
  BY ElementOfSeq
<1>3. \A r \in k + 1 .. l : s[r] \in 1 .. 127
  BY <1>1, <1>2, Zenon
<1> DEFINE rest == SubSeq(s, k + 1, l)
<1>4. /\ rest \in Seq(1 .. 127)
      /\ Len(rest) = IF k + 1 <= l THEN l - (k + 1) + 1 ELSE 0
      /\ \A r \in 1 .. l - (k + 1) + 1 : rest[r] = s[k + 1 + r - 1]
  BY <1>3, SubSeqProperties
<1> HIDE DEF rest
<1>5. Len(rest) = l - k
  BY <1>0, <1>4
<1>6. ASSUME NEW j \in Nat PROVE At(rest, j) = At(s, k + j)
  <2>1. k + j \in Nat
    OBVIOUS
  <2>2. CASE j < l - k
    <3>1. j + 1 \in 1 .. l - (k + 1) + 1 /\ k + 1 + (j + 1) - 1 = (k + j) + 1 /\ k + j < Len(s)
      BY <1>0, <2>2
    <3>2. rest[j + 1] = s[(k + j) + 1]
      BY <1>4, <3>1
    <3> QED
      BY <1>4, <1>5, <2>1, <2>2, <3>1, <3>2, AtIs
  <2>3. CASE ~(j < l - k)
    <3>1. k + j >= Len(s) /\ j >= l - k
      BY <1>0, <2>3
    <3>2. At(s, k + j) = NUL
      BY <2>1, <3>1, AtIs
    <3>3. At(rest, j) = NUL
      BY <1>4, <1>5, <3>1, AtIs
    <3> QED
      BY <3>2, <3>3
  <2> QED
    BY <2>2, <2>3
<1> QED
  BY <1>0, <1>4, <1>5, <1>6 DEF rest

LEMMA MatchesIs ==
  ASSUME NEW s \in Seq(1 .. 127), NEW t \in Seq(1 .. 127), NEW k \in Nat, k < Len(s)
  PROVE  Matches(s, t, k) <=> t # <<>> /\ IsPrefix(t, SubSeq(s, k + 1, Len(s)))
<1> DEFINE r == SubSeq(s, k + 1, Len(s))
           T == {j \in 0 .. Len(s) : At(s, k + j) = NUL \/ At(t, j) = NUL \/ At(s, k + j) # At(t, j)}
<1>0. PICK l \in Nat, n \in Nat, p \in Nat : l = Len(s) /\ n = Len(t) /\ p = l - k
  BY LenProperties
<1>1. /\ r \in Seq(1 .. 127) /\ Len(r) = p
      /\ \A j \in Nat : At(r, j) = At(s, k + j)
  <2>1. k <= Len(s)
    BY <1>0
  <2>2. /\ r \in Seq(1 .. 127) /\ Len(r) = Len(s) - k
        /\ \A j \in Nat : At(r, j) = At(s, k + j)
    BY <2>1, RestIs
  <2> HIDE DEF r
  <2> QED
    BY <1>0, <2>2
<1> HIDE DEF r
<1>2. Matches(s, t, k) <=> At(s, k) = At(t, 0) /\ Min(T) = n
  BY <1>0, Zenon DEF Matches, Index
<1>3. ASSUME NEW j \in Nat PROVE j \in T <=> j \in 0 .. l /\ Differ(r, t, j)
  <2>1. At(r, j) = At(s, k + j)
    BY <1>1
  <2> QED
    BY <1>0, <2>1, Zenon DEF Differ
<1>4. T \subseteq Nat
  <2>1. \A j \in 0 .. Len(s) : j \in Nat
    OBVIOUS
  <2> QED
    BY <2>1, Zenon
<1> HIDE DEF T
<1>5. p \in T
  <2>1. At(r, p) = NUL
    BY <1>1, AtIs
  <2>2. p \in 0 .. l
    BY <1>0
  <2> QED
    BY <1>3, <2>1, <2>2 DEF Differ
<1>6. PICK m : m = Min(T) /\ m \in T /\ \A j \in T : m <= j
  <2>1. T # {}
    BY <1>5
  <2> QED
    BY <1>4, <2>1, MinIs
<1>7. m \in Nat /\ m \in 0 .. l /\ Differ(r, t, m)
  BY <1>3, <1>4, <1>6
<1>8. Agree(r, t, m)
  <2>1. ASSUME NEW j \in 0 .. m - 1 PROVE ~Differ(r, t, j)
    <3>1. j \in Nat /\ j \in 0 .. l /\ ~(m <= j)
      BY <1>7
    <3> QED
      BY <1>3, <1>6, <3>1
  <2> QED
    BY <1>1, <1>7, <2>1, AgreeUpto
<1>9. /\ m \in 0 .. p /\ m \in 0 .. n
      /\ \A j \in 1 .. m : r[j] = t[j]
  <2>1. m \in 0 .. Len(r) /\ m \in 0 .. Len(t) /\ \A j \in 1 .. m : r[j] = t[j]
    <3>1. r \in Seq(1 .. 127) /\ t \in Seq(1 .. 127)
      BY <1>1
    <3>2. /\ m \in 0 .. Len(r) /\ m \in 0 .. Len(t)
          /\ \A j \in 1 .. m : r[j] = t[j]
          /\ Agree(t, r, m)
      BY <1>8, <3>1, AgreeIs, Zenon
    <3> QED
      BY <3>2
  <2> QED
    BY <1>0, <1>1, <2>1
<1>10. IsPrefix(t, r) <=> n <= p /\ \A j \in 1 .. n : r[j] = t[j]
  <2>1. IsPrefix(t, r) <=> n <= p /\ SubSeq(t, 1, n) = SubSeq(r, 1, n)
    BY <1>0, <1>1, Zenon DEF IsPrefix
  <2>2. n <= p => (SubSeq(r, 1, n) = SubSeq(t, 1, n) <=> \A j \in 1 .. n : r[j] = t[j])
    <3>1. ASSUME n <= p PROVE r \in Seq(1 .. 127) /\ n <= Len(r) /\ n <= Len(t)
      BY <1>0, <1>1, <3>1
    <3> QED
      BY <3>1, SamePrefix, Zenon
  <2> QED
    BY <2>1, <2>2
<1>11. ASSUME m = n PROVE IsPrefix(t, r)
  BY <1>9, <1>10, <1>11
<1>12. ASSUME IsPrefix(t, r) PROVE m = n
  <2>1. ASSUME m < n PROVE FALSE
    <3>1. m + 1 \in 1 .. n /\ m < p
      BY <1>7, <1>10, <1>12, <2>1
    <3>2. r[m + 1] = t[m + 1]
      BY <1>10, <1>12, <3>1
    <3>3. At(r, m) = r[m + 1] /\ At(r, m) # NUL
      BY <1>1, <1>7, <3>1, AtIs
    <3>4. At(t, m) = t[m + 1] /\ At(t, m) # NUL
      BY <1>0, <1>7, <2>1, AtIs
    <3> QED
      BY <1>7, <3>2, <3>3, <3>4 DEF Differ
  <2> QED
    BY <1>9, <2>1
<1>13. ASSUME t = <<>> PROVE At(s, k) # At(t, 0)
  <2>1. Len(t) = 0 /\ 0 \in Nat /\ 0 >= 0
    BY <1>13
  <2>2. At(t, 0) = NUL
    BY <2>1, AtIs
  <2>3. At(s, k) # NUL
    BY AtIs
  <2> QED
    BY <2>2, <2>3
<1>14. ASSUME t # <<>>, IsPrefix(t, r) PROVE At(s, k) = At(t, 0)
  <2>1. n # 0
    BY <1>0, <1>14
  <2>2. 1 \in 1 .. n /\ 0 < n /\ 0 < p /\ 0 \in Nat
    BY <1>10, <1>14, <2>1
  <2>3. r[1] = t[1]
    BY <1>10, <1>14, <2>2
  <2>4. At(r, 0) = r[0 + 1] /\ At(t, 0) = t[0 + 1]
    BY <1>0, <1>1, <2>2, AtIs
  <2>5. At(r, 0) = At(s, k)
    <3>1. At(r, 0) = At(s, k + 0) /\ k + 0 = k
      BY <1>1
    <3> QED
      BY <3>1
  <2> QED
    BY <2>3, <2>4, <2>5
<1> QED
  BY <1>2, <1>6, <1>11, <1>12, <1>13, <1>14 DEF r

LEMMA StrstrIs ==
  ASSUME NEW s \in Seq(1 .. 127), NEW t \in Seq(1 .. 127)
  PROVE  strstr(s, t) = IF t = <<>> THEN Null ELSE Least(Places(s, t))
<1> DEFINE T == {k \in 0 .. Len(s) : k = Len(s) \/ Matches(s, t, k)}
           A == IF t = <<>> THEN {} ELSE Places(s, t)
<1>0. PICK l \in Nat : l = Len(s)
  BY LenProperties
<1>1. T \subseteq Nat /\ l \in T
  <2>1. l \in 0 .. Len(s)
    BY <1>0
  <2>2. \A k \in 0 .. Len(s) : k \in Nat
    OBVIOUS
  <2> QED
    BY <1>0, <2>1, <2>2
<1>2. strstr(s, t) = IF Min(T) = l THEN Null ELSE Min(T)
  BY <1>0, Zenon DEF strstr, Index
<1>3. ASSUME NEW k PROVE k \in A <=> k \in 0 .. l - 1 /\ Matches(s, t, k)
  <2>1. k \in Places(s, t) <=> k \in 0 .. l - 1 /\ IsPrefix(t, SubSeq(s, k + 1, Len(s)))
    BY <1>0, Zenon DEF Places
  <2>2. k \in 0 .. l - 1 =>
           (Matches(s, t, k) <=> t # <<>> /\ IsPrefix(t, SubSeq(s, k + 1, Len(s))))
    <3>1. k \in 0 .. l - 1 => k \in Nat /\ k < Len(s)
      BY <1>0
    <3> QED
      BY <3>1, MatchesIs
  <2> QED
    BY <2>1, <2>2, Zenon
<1>4. ASSUME NEW k PROVE k \in T <=> k = l \/ k \in A
  <2>1. k \in 0 .. l <=> k = l \/ k \in 0 .. l - 1
    BY <1>0
  <2>2. k \in T <=> k \in 0 .. l /\ (k = l \/ Matches(s, t, k))
    BY <1>0, Zenon
  <2> HIDE DEF T, A
  <2> QED
    BY <1>3, <2>1, <2>2, Zenon
<1>5. A \subseteq 0 .. l - 1
  BY <1>3
<1>6. (IF t = <<>> THEN Null ELSE Least(Places(s, t))) = Least(A)
  BY DEF Least
<1> HIDE DEF T, A
<1>7. CASE A = {}
  <2>1. Min(T) = l
    BY <1>1, <1>4, <1>7, MinIs
  <2> QED
    BY <1>2, <1>6, <1>7, <2>1 DEF Least
<1>8. CASE A # {}
  <2>1. A \subseteq Nat /\ \A m \in A : m < l
    BY <1>0, <1>5
  <2>2. Min(A) \in A /\ \A m \in A : Min(A) <= m
    BY <1>8, <2>1, MinIs
  <2>3. PICK a \in Nat : a = Min(A) /\ a < l /\ a \in A
    BY <2>1, <2>2, Zenon
  <2>4. a \in T /\ \A m \in T : a <= m
    <3>1. a \in T
      BY <1>4, <2>3, Zenon
    <3>2. a <= l
      BY <2>3
    <3> QED
      BY <1>4, <2>2, <2>3, <3>1, <3>2, Zenon
  <2>5. Min(T) = a
    BY <1>1, <2>4, MinIs
  <2>6. strstr(s, t) = a
    BY <1>2, <2>3, <2>5
  <2> QED
    BY <1>6, <1>8, <2>3, <2>6 DEF Least
<1> QED
  BY <1>7, <1>8

LEMMA StrcpyIs ==
  ASSUME NEW s \in Seq(1 .. 127)
  PROVE  strcpy(s) = s
<1> DEFINE Stop(k) == At(s, k) = NUL
           T == {k \in 0 .. Len(s) : Stop(k)}
<1>0. PICK l \in Nat : l = Len(s)
  BY LenProperties
<1>1. Index(Len(s), Stop) = Min(T)
  BY Zenon DEF Index
<1>2. T = {l}
  <2>1. l \in 0 .. l /\ Stop(l)
    BY <1>0, AtIs
  <2>2. ASSUME NEW k \in 0 .. l, Stop(k) PROVE k = l
    <3>1. k \in Nat /\ ~(k < Len(s))
      BY <2>2, AtIs
    <3> QED
      BY <1>0, <3>1
  <2> QED
    BY <1>0, <2>1, <2>2, Zenon
<1> HIDE DEF T
<1>3. Min(T) = l
  BY <1>2, MinIs
<1>4. \A k \in 1 .. l : At(s, k - 1) = s[k]
  <2> SUFFICES ASSUME NEW k \in 1 .. l PROVE At(s, k - 1) = s[k]
    OBVIOUS
  <2>1. k - 1 \in Nat /\ k - 1 < Len(s) /\ (k - 1) + 1 = k
    BY <1>0
  <2>2. At(s, k - 1) = s[(k - 1) + 1]
    BY <2>1, AtIs
  <2> QED
    BY <2>1, <2>2
<1>5. strcpy(s) = [k \in 1 .. l |-> At(s, k - 1)]
  BY <1>1, <1>3, Zenon DEF strcpy
<1>6. s = [k \in 1 .. l |-> s[k]]
  BY <1>0
<1> QED
  BY <1>4, <1>5, <1>6, Zenon

LEMMA StrncpyIs ==
  ASSUME NEW s \in Seq(1 .. 127), NEW n \in Nat
  PROVE  strncpy(s, n) = [k \in 1 .. n |-> IF k <= Len(s) THEN s[k] ELSE NUL]
<1>0. PICK l \in Nat : l = Len(s)
  BY LenProperties
<1>1. ASSUME NEW k \in 1 .. n
      PROVE  At(s, k - 1) = IF k <= Len(s) THEN s[k] ELSE NUL
  <2>1. PICK j \in Nat : j = k - 1 /\ j + 1 = k /\ (j < l <=> k <= l) /\ (j >= l <=> ~(k <= l))
    BY <1>0
  <2>2. /\ j < Len(s) => At(s, j) = s[j + 1]
        /\ j >= Len(s) => At(s, j) = NUL
    BY <2>1, AtIs
  <2> QED
    BY <1>0, <2>1, <2>2
<1>2. strncpy(s, n) = [k \in 1 .. n |-> At(s, k - 1)]
  BY Zenon DEF strncpy
<1> QED
  BY <1>1, <1>2, Zenon

-----------------------------------------------------------------------------
(* Building. *)

\* What is put behind d is what s has from d's length on, up to index m.
LEMMA OverlaidIs ==
  ASSUME NEW d \in Seq(1 .. 127), NEW s \in Seq(1 .. 127),
         NEW m \in Len(d) .. Len(s)
  PROVE  d \o SubSeq(s, Len(d) + 1, m) = Overlaid(d, s, m)
<1>0. PICK k \in Nat, l \in Nat, n \in Nat :
          k = Len(d) /\ l = Len(s) /\ n = m /\ k <= n /\ n <= l
  BY LenProperties
<1> DEFINE tail == SubSeq(s, k + 1, n)
<1>1. /\ Len(tail) = n - k /\ tail \in Seq(1 .. 127)
      /\ \A r \in 1 .. n - k : tail[r] = s[k + r]
  <2>1. Len(tail) = n - k /\ tail \in Seq(1 .. 127)
    BY <1>0, TailIs
  <2>2. \A r \in 1 .. n - k : tail[r] = s[k + r]
    BY <1>0
  <2> QED
    BY <2>1, <2>2
<1> HIDE DEF tail
<1>2. PICK w : w = d \o tail /\ w \in Seq(1 .. 127) /\ Len(w) = n
  <2>1. d \o tail \in Seq(1 .. 127) /\ Len(d \o tail) = Len(d) + Len(tail)
    <3>1. \A a, b \in Seq(1 .. 127) : a \o b \in Seq(1 .. 127) /\ Len(a \o b) = Len(a) + Len(b)
      OBVIOUS
    <3> QED
      BY <1>1, <3>1, Zenon
  <2>2. k + (n - k) = n
    BY <1>0
  <2> QED
    BY <1>0, <1>1, <2>1, <2>2, Zenon
<1>3. \A j \in 1 .. n : w[j] = IF j <= k THEN d[j] ELSE s[j]
  <2> SUFFICES ASSUME NEW j \in 1 .. n PROVE w[j] = IF j <= k THEN d[j] ELSE s[j]
    OBVIOUS
  <2>1. CASE j <= k
    BY <1>0, <1>1, <1>2, <2>1
  <2>2. CASE ~(j <= k)
    <3>1. PICK r \in 1 .. n - k : j = k + r
      <4>1. j - k \in 1 .. n - k /\ j = k + (j - k)
        BY <2>2
      <4> QED
        BY <4>1
    <3>2. w[j] = tail[r]
      BY <1>0, <1>1, <1>2, <3>1
    <3> QED
      BY <1>1, <2>2, <3>1, <3>2
  <2> QED
    BY <2>1, <2>2
<1>4. w = [j \in 1 .. n |-> w[j]]
  <2>1. w \in [1 .. n -> 1 .. 127]
    BY <1>2, LenProperties
  <2> QED
    BY <2>1, Zenon
<1>5. w = [j \in 1 .. n |-> IF j <= k THEN d[j] ELSE s[j]]
  BY <1>3, <1>4, Zenon
<1> QED
  BY <1>0, <1>2, <1>5, Zenon DEF tail, Overlaid

LEMMA BiggestIs ==
  ASSUME NEW k \in Nat, NEW l \in Nat, NEW n \in Nat, k <= l
  PROVE  Max({k, Min({n, l})}) =
            IF n < k THEN k ELSE IF n < l THEN n ELSE l
<1>1. Min({n, l}) = IF n < l THEN n ELSE l
  <2>1. CASE n < l
    <3>1. n \in {n, l} /\ \A m \in {n, l} : n <= m
      BY <2>1
    <3>2. Min({n, l}) = n
      BY <3>1, MinIs
    <3> QED
      BY <2>1, <3>2
  <2>2. CASE ~(n < l)
    <3>1. l \in {n, l} /\ \A m \in {n, l} : l <= m
      BY <2>2
    <3>2. Min({n, l}) = l
      BY <3>1, MinIs
    <3> QED
      BY <2>2, <3>2
  <2> QED
    BY <2>1, <2>2
<1>2. PICK j \in 0 .. l : j = Min({n, l}) /\ j = IF n < l THEN n ELSE l
  BY <1>1
<1>3. PICK g : g = Max({k, j}) /\ g \in {k, j} /\ \A m \in {k, j} : g >= m
  <2>1. {k, j} \subseteq 0 .. l /\ {k, j} # {}
    OBVIOUS
  <2> QED
    BY <2>1, MaxIs
<1>4. g = IF n < k THEN k ELSE IF n < l THEN n ELSE l
  BY <1>2, <1>3
<1> QED
  BY <1>2, <1>3, <1>4, Zenon

LEMMA StrcatIs ==
  ASSUME NEW d \in Seq(1 .. 127), NEW s \in Seq(1 .. 127), Len(s) >= Len(d)
  PROVE  /\ strcat(d, s).chars = Overlaid(d, s, Len(s))
         /\ \A n \in Nat :
               strncat(d, s, n).chars = Overlaid(d, s, Max({Len(d), Min({n, Len(s)})}))
<1>0. PICK k \in Nat, l \in Nat : k = Len(d) /\ l = Len(s) /\ k <= l
  BY LenProperties
<1>1. \A m \in k .. l : d \o SubSeq(s, k + 1, m) = Overlaid(d, s, m)
  BY <1>0, OverlaidIs
<1>2. strcat(d, s).chars = Overlaid(d, s, Len(s))
  <2>1. strcat(d, s).chars = d \o SubSeq(s, k + 1, l)
    BY <1>0 DEF strcat, Built
  <2>2. l \in k .. l
    BY <1>0
  <2> QED
    BY <1>0, <1>1, <2>1, <2>2, Zenon
<1>3. ASSUME NEW n \in Nat
      PROVE  strncat(d, s, n).chars = Overlaid(d, s, Max({Len(d), Min({n, Len(s)})}))
  <2>1. PICK j \in Int : j = IF n < l THEN n ELSE l
    OBVIOUS
  <2>2. strncat(d, s, n).chars = d \o SubSeq(s, k + 1, j)
    BY <1>0, <2>1 DEF strncat, Built
  <2>3. PICK m : m = Max({k, Min({n, l})}) /\ m = IF n < k THEN k ELSE IF n < l THEN n ELSE l
    BY <1>0, BiggestIs
  <2>4. d \o SubSeq(s, k + 1, j) = Overlaid(d, s, m)
    <3>1. CASE n < k
      <4>1. m = k /\ k \in k .. l
        BY <1>0, <2>3, <3>1
      <4>2. SubSeq(s, k + 1, j) = <<>> /\ SubSeq(s, k + 1, k) = <<>>
        BY <1>0, <2>1, <3>1
      <4> QED
        BY <1>1, <4>1, <4>2
    <3>2. CASE ~(n < k)
      <4>1. m = j /\ j \in k .. l
        BY <1>0, <2>1, <2>3, <3>2
      <4> QED
        BY <1>1, <4>1
    <3> QED
      BY <3>1, <3>2
  <2> QED
    BY <1>0, <2>2, <2>3, <2>4, Zenon
<1> QED
  BY <1>2, <1>3

\* Of s[k], what Without keeps.
Left(s, del, k) == IF \E j \in DOMAIN del : s[k] = del[j] THEN <<>> ELSE <<s[k]>>

LEMMA KeepsIs ==
  ASSUME NEW s \in Seq(1 .. 127), NEW del, NEW f, Keeps(s, del, f)
  PROVE  f[Len(s)] = Without(s, del)
<1> DEFINE Kept(k) == [r \in 1 .. k |-> Left(s, del, r)]
           S == {k \in Nat : k <= Len(s) => f[k] = FlattenSeq(Kept(k))}
<1>0. PICK l \in Nat : l = Len(s)
  BY LenProperties
<1>1. \A k \in 1 .. l : Left(s, del, k) \in Seq(1 .. 127)
  <2>1. \A k \in 1 .. l : s[k] \in 1 .. 127
    BY <1>0, ElementOfSeq
  <2>2. \A c \in 1 .. 127 : <<c>> \in Seq(1 .. 127)
    OBVIOUS
  <2>3. <<>> \in Seq(1 .. 127)
    OBVIOUS
  <2> QED
    BY <2>1, <2>2, <2>3 DEF Left
<1>2. f = [k \in 0 .. l |-> IF k = 0 THEN <<>> ELSE f[k - 1] \o Left(s, del, k)]
  BY <1>0, Zenon DEF Keeps, Left
<1>3. 0 \in S
  <2>1. f[0] = <<>>
    BY <1>2
  <2>2. Kept(0) = <<>>
    OBVIOUS
  <2>3. FlattenSeq(<<>>) = <<>>
    <3>1. <<>> \in Seq(Seq(1 .. 127)) /\ <<>> \in Seq(1 .. 127)
      OBVIOUS
    <3> QED
      BY <3>1, FlattenIs
  <2> QED
    BY <2>1, <2>2, <2>3
<1>4. ASSUME NEW k \in Nat, k \in S PROVE k + 1 \in S
  <2> SUFFICES ASSUME k + 1 <= Len(s) PROVE f[k + 1] = FlattenSeq(Kept(k + 1))
    OBVIOUS
  <2>1. f[k] = FlattenSeq(Kept(k))
    BY <1>0, <1>4
  <2>2. PICK c \in Seq(1 .. 127) : c = Left(s, del, k + 1)
    BY <1>0, <1>1
  <2>3. f[k + 1] = f[k] \o c
    <3>1. k + 1 \in 0 .. l /\ k + 1 # 0 /\ (k + 1) - 1 = k
      BY <1>0
    <3> QED
      BY <1>2, <2>2, <3>1
  <2>4. /\ Kept(k) \in Seq(Seq(1 .. 127)) /\ Len(Kept(k)) = k
        /\ \A r \in 1 .. k : Kept(k)[r] = Left(s, del, r)
    <3>1. \A r \in 1 .. k : Left(s, del, r) \in Seq(1 .. 127)
      BY <1>0, <1>1
    <3> QED
      BY <3>1, IsASeq
  <2>5. Kept(k + 1) = Append(Kept(k), c)
    <3>1. Append(Kept(k), c) = Extended(Kept(k), c, k)
      BY <2>4, AppendExtends
    <3>2. \A r \in 1 .. k + 1 : r = k + 1 \/ r \in 1 .. k
      OBVIOUS
    <3>3. \A r \in 1 .. k + 1 : Left(s, del, r) = IF r = k + 1 THEN c ELSE Kept(k)[r]
      BY <2>2, <2>4, <3>2, Zenon
    <3> QED
      BY <3>1, <3>3, Zenon DEF Extended
  <2>6. FlattenSeq(Append(Kept(k), c)) = FlattenSeq(Kept(k)) \o c
    BY <2>4, FlattenIs
  <2> HIDE DEF Kept
  <2> QED
    BY <2>1, <2>3, <2>5, <2>6, Zenon
<1> HIDE DEF S
<1>5. l \in S
  BY <1>3, <1>4, Induction
<1>6. f[Len(s)] = FlattenSeq(Kept(Len(s)))
  BY <1>0, <1>5 DEF S
<1> QED
  BY <1>6, Zenon DEF Without, Left

LEMMA DeletedIs ==
  ASSUME NEW s \in Seq(1 .. 127), NEW del
  PROVE  strdels(s, del).chars = Without(s, del)
<1>1. PICK f : Keeps(s, del, f) /\ strdels(s, del).chars = f[Len(s)]
  BY StrdelsIs
<1> QED
  BY <1>1, KeepsIs

-----------------------------------------------------------------------------
(* Splitting. *)

LEMMA LastOff ==
  ASSUME NEW V, NEW n \in Nat, NEW s \in Seq(V), Len(s) = n + 1
  PROVE  \E q \in Seq(V), e \in V : s = Append(q, e) /\ Len(q) = n
<1> DEFINE q == [k \in 1 .. n |-> s[k]]
           e == s[n + 1]
<1>1. \A k \in 1 .. n + 1 : s[k] \in V
  BY ElementOfSeq
<1>2. \A k \in 1 .. n : k \in 1 .. n + 1
  OBVIOUS
<1>3. q \in Seq(V) /\ Len(q) = n /\ \A k \in 1 .. n : q[k] = s[k]
  <2>1. \A k \in 1 .. n : s[k] \in V
    BY <1>1, <1>2, Zenon
  <2> QED
    BY <2>1, IsASeq
<1>4. e \in V
  <2>1. n + 1 \in 1 .. n + 1
    OBVIOUS
  <2> QED
    BY <1>1, <2>1, Zenon
<1> HIDE DEF q, e
<1>5. /\ Append(q, e) \in Seq(V) /\ Len(Append(q, e)) = n + 1
      /\ Append(q, e)[n + 1] = e
      /\ \A k \in 1 .. n : Append(q, e)[k] = q[k]
  BY <1>3, <1>4
<1>6. ASSUME NEW k \in 1 .. n + 1 PROVE s[k] = Append(q, e)[k]
  <2>1. CASE k = n + 1
    BY <1>5, <2>1 DEF e
  <2>2. CASE k \in 1 .. n
    BY <1>3, <1>5, <2>2
  <2>3. k = n + 1 \/ k \in 1 .. n
    OBVIOUS
  <2> QED
    BY <2>1, <2>2, <2>3, Zenon
<1>7. s = Append(q, e)
  BY <1>5, <1>6, SeqEqual
<1> QED
  BY <1>3, <1>4, <1>7

LEMMA FlattenFront ==
  ASSUME NEW V, NEW c \in Seq(V)
  PROVE  \A ss \in Seq(Seq(V)) : FlattenSeq(<<c>> \o ss) = c \o FlattenSeq(ss)
<1> DEFINE S == {n \in Nat : \A ss \in Seq(Seq(V)) :
                    Len(ss) = n => FlattenSeq(<<c>> \o ss) = c \o FlattenSeq(ss)}
<1>0. <<>> \in Seq(Seq(V)) /\ <<>> \in Seq(V)
  OBVIOUS
<1>1. 0 \in S
  <2>1. ASSUME NEW ss \in Seq(Seq(V)), Len(ss) = 0
        PROVE  FlattenSeq(<<c>> \o ss) = c \o FlattenSeq(ss)
    <3>1. ss = <<>>
      BY <2>1, EmptySeq
    <3>2. <<c>> \o <<>> = Append(<<>>, c)
      OBVIOUS
    <3>3. FlattenSeq(<<>>) = <<>> /\ FlattenSeq(Append(<<>>, c)) = FlattenSeq(<<>>) \o c
      BY <1>0, FlattenIs
    <3>4. <<>> \o c = c /\ c \o <<>> = c
      OBVIOUS
    <3> QED
      BY <3>1, <3>2, <3>3, <3>4, Zenon
  <2> QED
    BY <2>1
<1>2. ASSUME NEW n \in Nat, n \in S PROVE n + 1 \in S
  <2>1. ASSUME NEW ss \in Seq(Seq(V)), Len(ss) = n + 1
        PROVE  FlattenSeq(<<c>> \o ss) = c \o FlattenSeq(ss)
    <3>1. PICK r \in Seq(Seq(V)), e \in Seq(V) : ss = Append(r, e) /\ Len(r) = n
      <4>1. \E q \in Seq(Seq(V)), e \in Seq(V) : ss = Append(q, e) /\ Len(q) = n
        BY <2>1, LastOff
      <4> QED
        BY <4>1
    <3>2. FlattenSeq(<<c>> \o r) = c \o FlattenSeq(r)
      BY <1>2, <3>1
    <3>3. <<c>> \o r \in Seq(Seq(V)) /\ <<c>> \o Append(r, e) = Append(<<c>> \o r, e)
      OBVIOUS
    <3>4. /\ FlattenSeq(Append(r, e)) = FlattenSeq(r) \o e
          /\ FlattenSeq(r) \in Seq(V)
      BY FlattenIs
    <3>5. FlattenSeq(Append(<<c>> \o r, e)) = FlattenSeq(<<c>> \o r) \o e
      BY <3>3, FlattenIs
    <3>6. PICK g \in Seq(V) : g = FlattenSeq(r)
      BY <3>4
    <3>7. (c \o g) \o e = c \o (g \o e)
      OBVIOUS
    <3> QED
      BY <3>1, <3>2, <3>3, <3>4, <3>5, <3>6, <3>7, Zenon
  <2>2. n + 1 \in Nat
    OBVIOUS
  <2> QED
    BY <2>1, <2>2, Zenon
<1> HIDE DEF S
<1>3. Nat \subseteq S
  BY <1>1, <1>2, Induction
<1>4. ASSUME NEW ss \in Seq(Seq(V)) PROVE FlattenSeq(<<c>> \o ss) = c \o FlattenSeq(ss)
  <2>1. Len(ss) \in Nat
    OBVIOUS
  <2>2. Len(ss) \in S
    BY <1>3, <2>1
  <2> QED
    BY <2>2 DEF S
<1> QED
  BY <1>4

String == Seq(1 .. 127)
Piecewise == [token : String, returned : String]

\* What Joined puts together of the first of n tokens.
Bit(v, n, j) == v[j].token \o (IF j < n THEN <<NUL>> ELSE <<>>)
Bits(v, n) == [j \in 1 .. n |-> Bit(v, n, j)]

\* v are the tokens of s.
Splits(t, s, v) ==
    /\ v \in Seq(Piecewise) /\ Len(v) >= 1
    /\ Joined(v) = Ended(s, t)
    /\ \A j \in 1 .. Len(v) :
          v[j].returned = IF j < Len(v) THEN <<>> ELSE v[j].token

LEMMA Widened == String \subseteq Seq(0 .. 127) /\ <<NUL>> \in Seq(0 .. 127) /\ Len(<<NUL>>) = 1
<1>1. ASSUME NEW r \in String PROVE r \in Seq(0 .. 127)
  <2>1. PICK n \in Nat : n = Len(r) /\ r \in [1 .. n -> 1 .. 127]
    BY LenProperties DEF String
  <2>2. \A c \in 1 .. 127 : c \in 0 .. 127
    OBVIOUS
  <2>3. r \in [1 .. n -> 0 .. 127]
    BY <2>1, <2>2, Zenon
  <2> QED
    BY <2>3, SeqDef, Zenon
<1> QED
  BY <1>1 DEF NUL

LEMMA BitsAre ==
  ASSUME NEW v \in Seq(Piecewise), NEW n, n = Len(v)
  PROVE  /\ \A j \in 1 .. n : v[j] \in Piecewise /\ Bit(v, n, j) \in Seq(0 .. 127)
         /\ Bits(v, n) \in Seq(Seq(0 .. 127)) /\ Len(Bits(v, n)) = n
         /\ \A j \in 1 .. n : Bits(v, n)[j] = Bit(v, n, j)
         /\ Joined(v) = FlattenSeq(Bits(v, n))
<1>0. n \in Nat
  BY LenProperties
<1>1. \A j \in 1 .. n : v[j] \in Piecewise
  BY ElementOfSeq
<1>2. ASSUME NEW j \in 1 .. n PROVE Bit(v, n, j) \in Seq(0 .. 127)
  <2>1. PICK r \in Seq(0 .. 127) : r = v[j].token
    <3>1. v[j].token \in String
      BY <1>1 DEF Piecewise
    <3> QED
      BY <3>1, Widened
  <2>2. r \o <<NUL>> \in Seq(0 .. 127) /\ r \o <<>> \in Seq(0 .. 127)
    BY Widened
  <2> QED
    BY <2>1, <2>2, Zenon DEF Bit
<1>3. /\ Bits(v, n) \in Seq(Seq(0 .. 127)) /\ Len(Bits(v, n)) = n
      /\ \A j \in 1 .. n : Bits(v, n)[j] = Bit(v, n, j)
  BY <1>0, <1>2, IsASeq DEF Bits
<1>4. Joined(v) = FlattenSeq(Bits(v, n))
  BY Zenon DEF Joined, Bits, Bit
<1> QED
  BY <1>1, <1>2, <1>3, <1>4

LEMMA SplitsLast ==
  ASSUME NEW t, NEW r \in String, AnyOf(r, t) = {}
  PROVE  Splits(t, r, <<[token |-> r, returned |-> r]>>)
<1> DEFINE c == [token |-> r, returned |-> r]
<1>1. c \in Piecewise /\ c.token = r /\ c.returned = r
  BY DEF Piecewise
<1> HIDE DEF c
<1>2. <<c>> \in Seq(Piecewise) /\ Len(<<c>>) = 1 /\ <<c>>[1] = c
  BY <1>1
<1>3. r \in Seq(0 .. 127) /\ <<>> \in Seq(Seq(0 .. 127))
  BY Widened
<1>4. Bit(<<c>>, 1, 1) = r
  <2>1. r \o <<>> = r
    BY <1>3
  <2> QED
    BY <1>1, <1>2, <2>1 DEF Bit
<1>5. Joined(<<c>>) = r
  <2>1. Bits(<<c>>, 1) = <<r>>
    <3>1. /\ Bits(<<c>>, 1) \in Seq(Seq(0 .. 127)) /\ Len(Bits(<<c>>, 1)) = 1
          /\ \A j \in 1 .. 1 : Bits(<<c>>, 1)[j] = Bit(<<c>>, 1, j)
      BY <1>2, BitsAre
    <3>2. Bits(<<c>>, 1)[1] = r
      BY <1>4, <3>1
    <3> QED
      BY <3>1, <3>2
  <2>2. <<r>> = Append(<<>>, r)
    OBVIOUS
  <2>3. FlattenSeq(<<>>) = <<>> /\ FlattenSeq(Append(<<>>, r)) = FlattenSeq(<<>>) \o r
    BY <1>3, FlattenIs
  <2>4. <<>> \o r = r
    BY <1>3
  <2>5. Joined(<<c>>) = FlattenSeq(Bits(<<c>>, 1))
    BY <1>2, BitsAre
  <2> QED
    BY <2>1, <2>2, <2>3, <2>4, <2>5
<1>6. Ended(r, t) = r
  <2>1. PICK n \in Nat : n = Len(r) /\ r = [k \in 1 .. n |-> r[k]]
    BY LenProperties DEF String
  <2>2. ASSUME NEW k \in 1 .. n PROVE ~ \E j \in DOMAIN t : r[k] = t[j]
    <3>1. PICK i0 \in 0 .. Len(r) - 1 : i0 + 1 = k
      <4>1. k - 1 \in 0 .. Len(r) - 1 /\ (k - 1) + 1 = k
        BY <2>1
      <4> QED
        BY <4>1
    <3> QED
      BY <3>1 DEF AnyOf
  <2> QED
    BY <2>1, <2>2, Zenon DEF Ended
<1>7. Splits(t, r, <<c>>)
  BY <1>1, <1>2, <1>5, <1>6 DEF Splits
<1> QED
  BY <1>7 DEF c

\* s begins with r, which has no delimiter, and goes on with one and with q.
Begins(s, r, t, q) ==
    /\ s \in String /\ r \in String /\ q \in String
    /\ AnyOf(r, t) = {} /\ \E d \in DOMAIN t : s[Len(r) + 1] = t[d]
    /\ Len(s) = Len(r) + 1 + Len(q)
    /\ \A j \in 1 .. Len(r) : s[j] = r[j]
    /\ \A j \in 1 .. Len(q) : s[Len(r) + 1 + j] = q[j]

LEMMA ConcatIs ==
  ASSUME NEW V, NEW c \in Seq(V), NEW d \in Seq(V),
         NEW m \in Nat, NEW n \in Nat, m = Len(c), n = Len(d)
  PROVE  /\ c \o d \in Seq(V) /\ Len(c \o d) = m + n
         /\ \A k \in 1 .. m : (c \o d)[k] = c[k]
         /\ \A j \in 1 .. n : (c \o d)[m + j] = d[j]
<1>1. c \o d \in Seq(V) /\ Len(c \o d) = m + n
  OBVIOUS
<1>2. ASSUME NEW k \in 1 .. m PROVE (c \o d)[k] = c[k]
  OBVIOUS
<1>3. ASSUME NEW j \in 1 .. n PROVE (c \o d)[m + j] = d[j]
  OBVIOUS
<1> QED
  BY <1>1, <1>2, <1>3

LEMMA EndedFront ==
  ASSUME NEW s, NEW r, NEW t, NEW q, Begins(s, r, t, q)
  PROVE  Ended(s, t) = (r \o <<NUL>>) \o Ended(q, t)
<1> DEFINE In(c) == \E d \in DOMAIN t : c = t[d]
<1>0. PICK m \in Nat, n \in Nat :
        m = Len(r) /\ n = Len(q) /\ Len(s) = m + 1 + n
  BY LenProperties DEF Begins, String
<1>1. \A j \in 1 .. m : ~In(r[j]) /\ s[j] = r[j] /\ r[j] \in 0 .. 127
  <2> SUFFICES ASSUME NEW j \in 1 .. m
               PROVE  ~In(r[j]) /\ s[j] = r[j] /\ r[j] \in 0 .. 127
    OBVIOUS
  <2>1. PICK k \in 0 .. Len(r) - 1 : k + 1 = j
    <3>1. j - 1 \in 0 .. Len(r) - 1 /\ (j - 1) + 1 = j
      BY <1>0
    <3> QED
      BY <3>1
  <2>2. ~In(r[j])
    BY <2>1 DEF AnyOf, Begins
  <2>3. s[j] = r[j]
    BY <1>0 DEF Begins
  <2>4. r[j] \in 0 .. 127
    <3>1. r \in Seq(0 .. 127)
      BY Widened DEF Begins
    <3> QED
      BY <1>0, <3>1, ElementOfSeq
  <2> QED
    BY <2>2, <2>3, <2>4
<1>2. \A j \in 1 .. n : s[m + 1 + j] = q[j] /\ q[j] \in 0 .. 127
  <2>1. q \in Seq(0 .. 127)
    BY Widened DEF Begins
  <2>2. \A j \in 1 .. n : q[j] \in 0 .. 127
    BY <1>0, <2>1, ElementOfSeq
  <2> QED
    BY <1>0, <2>2 DEF Begins
<1>3. In(s[m + 1])
  BY <1>0 DEF Begins
<1> DEFINE End(c) == IF In(c) THEN NUL ELSE c
<1>4. Ended(s, t) = [k \in 1 .. m + 1 + n |-> End(s[k])] /\ Ended(q, t) = [k \in 1 .. n |-> End(q[k])]
  BY <1>0, Zenon DEF Ended
<1>5. \A c \in 0 .. 127 : End(c) \in 0 .. 127
  <2>1. NUL \in 0 .. 127
    BY DEF NUL
  <2> QED
    BY <2>1, Zenon
<1>6. End(s[m + 1]) = NUL /\ NUL \in 0 .. 127
  BY <1>3 DEF NUL
<1>7. \A j \in 1 .. m : End(s[j]) = r[j]
  BY <1>1, Zenon
<1>8. \A j \in 1 .. n : End(s[m + 1 + j]) = End(q[j]) /\ End(q[j]) \in 0 .. 127
  BY <1>2, <1>5, Zenon
<1> HIDE DEF End, In
<1>9. \A k \in 1 .. m + 1 + n :
        k \in 1 .. m \/ k = m + 1 \/ \E j \in 1 .. n : k = m + 1 + j
  <2> SUFFICES ASSUME NEW k \in 1 .. m + 1 + n, k \notin 1 .. m, k # m + 1
               PROVE  \E j \in 1 .. n : k = m + 1 + j
    OBVIOUS
  <2>1. k - (m + 1) \in 1 .. n /\ k = m + 1 + (k - (m + 1))
    OBVIOUS
  <2> QED
    BY <2>1
<1>10. /\ Ended(q, t) \in Seq(0 .. 127) /\ Len(Ended(q, t)) = n
       /\ \A j \in 1 .. n : Ended(q, t)[j] = End(q[j])
  BY <1>4, <1>8, IsASeq
<1>11. /\ Ended(s, t) \in Seq(0 .. 127) /\ Len(Ended(s, t)) = m + 1 + n
       /\ \A k \in 1 .. m + 1 + n : Ended(s, t)[k] = End(s[k])
  <2>1. \A k \in 1 .. m + 1 + n : End(s[k]) \in 0 .. 127
    <3>1. \A k \in 1 .. m : End(s[k]) \in 0 .. 127
      BY <1>1, <1>7, Zenon
    <3> QED
      BY <1>6, <1>8, <1>9, <3>1, Zenon
  <2> QED
    BY <1>4, <2>1, IsASeq
<1> DEFINE front == r \o <<NUL>>
           whole == front \o Ended(q, t)
<1>12. /\ front \in Seq(0 .. 127) /\ Len(front) = m + 1 /\ front[m + 1] = NUL
       /\ \A j \in 1 .. m : front[j] = r[j]
  <2>1. r \in Seq(0 .. 127)
    BY Widened DEF Begins
  <2>2. /\ Append(r, NUL) \in Seq(0 .. 127) /\ Len(Append(r, NUL)) = m + 1
        /\ Append(r, NUL)[m + 1] = NUL /\ \A j \in 1 .. m : Append(r, NUL)[j] = r[j]
    BY <1>0, <1>6, <2>1, AppendIs
  <2>3. front = Append(r, NUL)
    BY <2>1
  <2> HIDE DEF front
  <2> QED
    BY <2>2, <2>3
<1> HIDE DEF front
<1>13. PICK e \in Seq(0 .. 127) : e = Ended(q, t)
  BY <1>10
<1>14. /\ whole \in Seq(0 .. 127) /\ Len(whole) = m + 1 + n
       /\ \A k \in 1 .. m + 1 : whole[k] = front[k]
       /\ \A j \in 1 .. n : whole[m + 1 + j] = e[j]
  <2>1. PICK V : V = 0 .. 127
    OBVIOUS
  <2>2. PICK k \in Nat : k = m + 1
    OBVIOUS
  <2>3. front \in Seq(V) /\ e \in Seq(V) /\ k = Len(front) /\ n = Len(e)
    BY <1>10, <1>12, <1>13, <2>1, <2>2, Zenon
  <2>4. /\ front \o e \in Seq(V) /\ Len(front \o e) = k + n
        /\ \A j \in 1 .. k : (front \o e)[j] = front[j]
        /\ \A j \in 1 .. n : (front \o e)[k + j] = e[j]
    BY <2>3, ConcatIs
  <2>5. whole = front \o e
    BY <1>13, Zenon
  <2> QED
    BY <2>1, <2>2, <2>4, <2>5, Zenon
<1> HIDE DEF whole
<1>15. ASSUME NEW k \in 1 .. m + 1 + n PROVE Ended(s, t)[k] = whole[k]
  <2>1. CASE k \in 1 .. m
    BY <1>7, <1>11, <1>12, <1>14, <2>1
  <2>2. CASE k = m + 1
    BY <1>6, <1>11, <1>12, <1>14, <2>2
  <2>3. CASE \E j \in 1 .. n : k = m + 1 + j
    <3>1. PICK j \in 1 .. n : k = m + 1 + j
      BY <2>3
    <3>2. Ended(s, t)[k] = End(s[k]) /\ whole[k] = Ended(q, t)[j]
      BY <1>11, <1>13, <1>14, <3>1
    <3>3. End(s[k]) = End(q[j]) /\ Ended(q, t)[j] = End(q[j])
      BY <1>8, <1>10, <3>1, Zenon
    <3> QED
      BY <3>2, <3>3, Zenon
  <2> QED
    BY <1>9, <2>1, <2>2, <2>3
<1>16. Ended(s, t) = whole
  BY <1>11, <1>14, <1>15, SeqEqual
<1> QED
  BY <1>16 DEF front, whole

LEMMA SplitsFront ==
  ASSUME NEW s, NEW r, NEW t, NEW q, Begins(s, r, t, q), NEW v, Splits(t, q, v)
  PROVE  Splits(t, s, <<[token |-> r, returned |-> <<>>]>> \o v)
<1> DEFINE c == [token |-> r, returned |-> <<>>]
<1>1. c \in Piecewise /\ c.token = r /\ c.returned = <<>>
  BY DEF Begins, Piecewise, String
<1> HIDE DEF c
<1>0. v \in Seq(Piecewise)
  BY DEF Splits
<1>2. PICK l \in Nat : l = Len(v) /\ l >= 1
  BY DEF Splits
<1> DEFINE w == <<c>> \o v
<1>3. /\ w \in Seq(Piecewise) /\ Len(w) = l + 1 /\ w[1] = c
      /\ \A j \in 1 .. l : w[j + 1] = v[j]
  BY <1>0, <1>1, <1>2
<1> HIDE DEF w
<1>4. \A j \in 1 .. l + 1 : j = 1 \/ \E k \in 1 .. l : j = k + 1
  <2> SUFFICES ASSUME NEW j \in 1 .. l + 1, j # 1 PROVE \E k \in 1 .. l : j = k + 1
    OBVIOUS
  <2>1. j - 1 \in 1 .. l /\ j = (j - 1) + 1
    OBVIOUS
  <2> QED
    BY <2>1
<1>5. /\ Bits(v, l) \in Seq(Seq(0 .. 127)) /\ Len(Bits(v, l)) = l
      /\ \A j \in 1 .. l : Bits(v, l)[j] = Bit(v, l, j)
      /\ Joined(v) = FlattenSeq(Bits(v, l))
  BY <1>0, <1>2, BitsAre
<1>6. /\ Bits(w, l + 1) \in Seq(Seq(0 .. 127)) /\ Len(Bits(w, l + 1)) = l + 1
      /\ \A j \in 1 .. l + 1 : Bits(w, l + 1)[j] = Bit(w, l + 1, j)
      /\ Joined(w) = FlattenSeq(Bits(w, l + 1))
  BY <1>3, BitsAre
<1>7. PICK front \in Seq(0 .. 127) : front = r \o <<NUL>>
  <2>1. r \in Seq(0 .. 127) /\ <<NUL>> \in Seq(0 .. 127)
    BY Widened DEF Begins
  <2>2. \A a, b \in Seq(0 .. 127) : a \o b \in Seq(0 .. 127)
    OBVIOUS
  <2> QED
    BY <2>1, <2>2, Zenon
<1>8. Bit(w, l + 1, 1) = front
  <2>1. 1 < l + 1
    BY <1>2
  <2> QED
    BY <1>1, <1>3, <1>7, <2>1, Zenon DEF Bit
<1>9. \A j \in 1 .. l : Bit(w, l + 1, j + 1) = Bit(v, l, j)
  <2>1. \A j \in 1 .. l : w[j + 1] = v[j] /\ (j + 1 < l + 1 <=> j < l)
    BY <1>3
  <2> QED
    BY <2>1, Zenon DEF Bit
<1>10. Bits(w, l + 1) = <<front>> \o Bits(v, l)
  <2>1. PICK b \in Seq(Seq(0 .. 127)) : b = Bits(v, l) /\ Len(b) = l
    BY <1>5
  <2>2. /\ <<front>> \o b \in Seq(Seq(0 .. 127)) /\ Len(<<front>> \o b) = l + 1
        /\ (<<front>> \o b)[1] = front /\ \A j \in 1 .. l : (<<front>> \o b)[j + 1] = b[j]
    BY <2>1, PrependIs
  <2>3. ASSUME NEW j \in 1 .. l + 1 PROVE Bits(w, l + 1)[j] = (<<front>> \o b)[j]
    <3>1. CASE j = 1
      BY <1>6, <1>8, <2>2, <3>1
    <3>2. CASE \E k \in 1 .. l : j = k + 1
      BY <1>5, <1>6, <1>9, <2>1, <2>2, <3>2
    <3> QED
      BY <1>4, <3>1, <3>2
  <2> QED
    BY <1>6, <2>1, <2>2, <2>3, SeqEqual
<1>11. Joined(w) = Ended(s, t)
  <2>1. FlattenSeq(<<front>> \o Bits(v, l)) = front \o FlattenSeq(Bits(v, l))
    BY <1>5, FlattenFront
  <2>2. Joined(v) = Ended(q, t)
    BY DEF Splits
  <2>3. Ended(s, t) = front \o Ended(q, t)
    BY <1>7, EndedFront
  <2> QED
    BY <1>5, <1>6, <1>10, <2>1, <2>2, <2>3
<1>12. ASSUME NEW j \in 1 .. l + 1
       PROVE  w[j].returned = IF j < l + 1 THEN <<>> ELSE w[j].token
  <2>1. CASE j = 1
    <3>1. j < l + 1
      BY <1>2, <2>1
    <3> QED
      BY <1>1, <1>3, <2>1, <3>1
  <2>2. CASE \E k \in 1 .. l : j = k + 1
    <3>1. PICK k \in 1 .. l : j = k + 1
      BY <2>2
    <3>2. v[k].returned = IF k < l THEN <<>> ELSE v[k].token
      BY <1>2, <3>1 DEF Splits
    <3>3. w[j] = v[k] /\ (j < l + 1 <=> k < l)
      BY <1>3, <3>1
    <3> QED
      BY <3>2, <3>3, Zenon
  <2> QED
    BY <1>4, <2>1, <2>2
<1>13. Splits(t, s, w)
  <2>1. Len(w) >= 1
    BY <1>2, <1>3
  <2> QED
    BY <1>3, <1>11, <1>12, <2>1, Zenon DEF Splits
<1> QED
  BY <1>13 DEF w, c

\* The last k characters of a string, where they have a delimiter, and the tokens
\* in them, v being those behind it.
Rest(s, k) == SubSeq(s, Len(s) - k + 1, Len(s))
Token(s, t, k) == strpbrk(Rest(s, k), t)
OneMore(s, t, k, v) ==
    IF Token(s, t, k) = Null THEN <<[token |-> Rest(s, k), returned |-> Rest(s, k)]>>
    ELSE <<[token |-> SubSeq(Rest(s, k), 1, Token(s, t, k)), returned |-> <<>>]>> \o v
Tokenised(s, t, f) ==
    f = [k \in 0 .. Len(s) |-> OneMore(s, t, k, f[k - Token(s, t, k) - 1])]

LEMMA TokenIs ==
  ASSUME NEW s \in Seq(1 .. 127), NEW t, NEW k \in 0 .. Len(s)
  PROVE  /\ Rest(s, k) \in String /\ Len(Rest(s, k)) = k
         /\ Token(s, t, k) = Null => AnyOf(Rest(s, k), t) = {}
         /\ Token(s, t, k) # Null =>
               /\ Token(s, t, k) \in 0 .. k - 1
               /\ SubSeq(Rest(s, k), 1, Token(s, t, k)) \in String
               /\ Len(SubSeq(Rest(s, k), 1, Token(s, t, k))) = Token(s, t, k)
               /\ AnyOf(SubSeq(Rest(s, k), 1, Token(s, t, k)), t) = {}
               /\ \E d \in DOMAIN t : Rest(s, k)[Token(s, t, k) + 1] = t[d]
               /\ \A j \in 1 .. Token(s, t, k) :
                     SubSeq(Rest(s, k), 1, Token(s, t, k))[j] = Rest(s, k)[j]
<1> DEFINE rest == Rest(s, k)
           token == strpbrk(rest, t)
<1>1. rest \in String /\ Len(rest) = k
  <2>1. PICK l \in Nat, p \in Nat : l = Len(s) /\ p = l - k /\ l - p = k /\ p <= Len(s)
    BY LenProperties
  <2>2. /\ SubSeq(s, p + 1, Len(s)) \in Seq(1 .. 127)
        /\ Len(SubSeq(s, p + 1, Len(s))) = Len(s) - p
    BY <2>1, RestIs
  <2> QED
    BY <2>1, <2>2 DEF String, Rest
<1> HIDE DEF rest
<1>0. k \in Nat /\ rest \in Seq(1 .. 127)
  BY <1>1, LenProperties DEF String
<1>2. /\ AnyOf(rest, t) = {} => token = Null
      /\ AnyOf(rest, t) # {} =>
            token \in AnyOf(rest, t) /\ \A m \in AnyOf(rest, t) : token <= m
  BY <1>0, StrpbrkIs
<1>3. AnyOf(rest, t) = {j \in 0 .. k - 1 : \E d \in DOMAIN t : rest[j + 1] = t[d]}
  BY <1>1 DEF AnyOf
<1> HIDE DEF token
<1>4. ASSUME AnyOf(rest, t) # {}
      PROVE  token \in 0 .. k - 1 /\ token # Null
  BY <1>0, <1>2, <1>3, <1>4 DEF Null
<1>5. ASSUME token # Null
      PROVE  /\ token \in 0 .. k - 1
             /\ SubSeq(rest, 1, token) \in String /\ Len(SubSeq(rest, 1, token)) = token
             /\ AnyOf(SubSeq(rest, 1, token), t) = {}
             /\ \E d \in DOMAIN t : rest[token + 1] = t[d]
             /\ \A j \in 1 .. token : SubSeq(rest, 1, token)[j] = rest[j]
  <2>1. AnyOf(rest, t) # {} /\ token \in 0 .. k - 1
    BY <1>2, <1>4, <1>5
  <2>2. token \in Nat /\ token <= Len(rest)
    BY <1>0, <1>1, <2>1
  <2>3. /\ SubSeq(rest, 1, token) \in Seq(1 .. 127) /\ Len(SubSeq(rest, 1, token)) = token
        /\ \A j \in 1 .. token : SubSeq(rest, 1, token)[j] = rest[j]
    BY <1>0, <2>2, InitialIs
  <2>4. ASSUME NEW m \in AnyOf(SubSeq(rest, 1, token), t) PROVE FALSE
    <3>1. m \in 0 .. token - 1 /\ \E d \in DOMAIN t : SubSeq(rest, 1, token)[m + 1] = t[d]
      BY <2>3, <2>4 DEF AnyOf
    <3>2. m \in 0 .. k - 1 /\ m + 1 \in 1 .. token /\ ~(token <= m)
      BY <1>0, <2>1, <3>1
    <3>3. m \in AnyOf(rest, t)
      BY <1>3, <2>3, <3>1, <3>2
    <3> QED
      BY <1>2, <2>1, <3>2, <3>3
  <2>5. \E d \in DOMAIN t : rest[token + 1] = t[d]
    BY <1>2, <1>3, <2>1
  <2> QED
    BY <2>1, <2>3, <2>4, <2>5 DEF String
<1>6. token = Null => AnyOf(rest, t) = {}
  BY <1>4
<1> QED
  BY <1>1, <1>5, <1>6, Zenon DEF rest, token, Token

\* The rest from an index on, and the rest of it.
LEMMA RestAt ==
  ASSUME NEW s \in Seq(1 .. 127), NEW k \in 0 .. Len(s), NEW m \in 0 .. k - 1
  PROVE  /\ Rest(s, k - m - 1) \in String /\ Len(Rest(s, k - m - 1)) = k - m - 1
         /\ \A j \in 1 .. k - m - 1 :
               Rest(s, k)[m + 1 + j] = Rest(s, k - m - 1)[j]
<1>0. PICK l \in Nat : l = Len(s)
  BY LenProperties
<1>1. \A n \in 0 .. l :
        /\ Rest(s, n) \in Seq(1 .. 127) /\ Len(Rest(s, n)) = n
        /\ \A j \in Nat : At(Rest(s, n), j) = At(s, l - n + j)
  <2> SUFFICES ASSUME NEW n \in 0 .. l
               PROVE  /\ Rest(s, n) \in Seq(1 .. 127) /\ Len(Rest(s, n)) = n
                      /\ \A j \in Nat : At(Rest(s, n), j) = At(s, l - n + j)
    OBVIOUS
  <2>1. PICK p \in Nat : p = l - n /\ p <= l /\ l - p = n
    <3>1. l - n \in Nat /\ l - n <= l /\ l - (l - n) = n
      OBVIOUS
    <3> QED
      BY <3>1, Zenon
  <2>2. /\ SubSeq(s, p + 1, Len(s)) \in Seq(1 .. 127)
        /\ Len(SubSeq(s, p + 1, Len(s))) = Len(s) - p
        /\ \A j \in Nat : At(SubSeq(s, p + 1, Len(s)), j) = At(s, p + j)
    BY <1>0, <2>1, RestIs
  <2>3. Rest(s, n) = SubSeq(s, p + 1, Len(s))
    BY <1>0, <2>1 DEF Rest
  <2> QED
    BY <1>0, <2>1, <2>2, <2>3
<1>2. PICK n \in Nat : n = k - m - 1 /\ n \in 0 .. l /\ k \in 0 .. l
  BY <1>0
<1>3. ASSUME NEW j \in 1 .. n PROVE Rest(s, k)[m + 1 + j] = Rest(s, n)[j]
  <2>1. PICK i0 \in Nat, i1 \in Nat :
          /\ i0 = j - 1 /\ i1 = m + j /\ i0 + 1 = j /\ i1 + 1 = m + 1 + j
          /\ i0 < n /\ i1 < k /\ l - k + i1 = l - n + i0
    BY <1>0, <1>2
  <2>2. At(Rest(s, k), i1) = At(Rest(s, n), i0)
    <3>1. At(Rest(s, k), i1) = At(s, l - k + i1) /\ At(Rest(s, n), i0) = At(s, l - n + i0)
      BY <1>1, <1>2, <2>1
    <3> QED
      BY <2>1, <3>1
  <2>3. At(Rest(s, k), i1) = Rest(s, k)[i1 + 1] /\ At(Rest(s, n), i0) = Rest(s, n)[i0 + 1]
    BY <1>1, <1>2, <2>1, AtIs
  <2> QED
    BY <2>1, <2>2, <2>3
<1> QED
  BY <1>1, <1>2, <1>3 DEF String

LEMMA OneMoreIs ==
  ASSUME NEW s \in Seq(1 .. 127), NEW t, NEW k \in 0 .. Len(s)
  PROVE  /\ Token(s, t, k) = Null =>
               \A v : /\ Splits(t, Rest(s, k), OneMore(s, t, k, v))
                      /\ OneMore(s, t, k, v) = OneMore(s, t, k, <<>>)
         /\ Token(s, t, k) # Null =>
               /\ k - Token(s, t, k) - 1 \in 0 .. k - 1
               /\ \A v : Splits(t, Rest(s, k - Token(s, t, k) - 1), v) =>
                            Splits(t, Rest(s, k), OneMore(s, t, k, v))
         /\ \A v \in Seq(Piecewise) : OneMore(s, t, k, v) \in Seq(Piecewise)
<1> DEFINE rest == Rest(s, k)
           token == Token(s, t, k)
           first == SubSeq(rest, 1, token)
<1>0. /\ rest \in String /\ Len(rest) = k
      /\ token = Null => AnyOf(rest, t) = {}
      /\ token # Null => /\ token \in 0 .. k - 1
                         /\ first \in String /\ Len(first) = token
                         /\ AnyOf(first, t) = {}
                         /\ \E d \in DOMAIN t : rest[token + 1] = t[d]
                         /\ \A j \in 1 .. token : first[j] = rest[j]
  BY TokenIs
<1>1. \A v : OneMore(s, t, k, v) =
         IF token = Null THEN <<[token |-> rest, returned |-> rest]>>
         ELSE <<[token |-> first, returned |-> <<>>]>> \o v
  BY Zenon DEF OneMore
<1>2. token # Null =>
        /\ Rest(s, k - token - 1) \in String /\ Len(Rest(s, k - token - 1)) = k - token - 1
        /\ \A j \in 1 .. k - token - 1 : rest[token + 1 + j] = Rest(s, k - token - 1)[j]
  <2> SUFFICES ASSUME token # Null
               PROVE  /\ Rest(s, k - token - 1) \in String
                      /\ Len(Rest(s, k - token - 1)) = k - token - 1
                      /\ \A j \in 1 .. k - token - 1 :
                            rest[token + 1 + j] = Rest(s, k - token - 1)[j]
    OBVIOUS
  <2>1. PICK m \in 0 .. k - 1 : m = token
    BY <1>0
  <2>2. /\ Rest(s, k - m - 1) \in String /\ Len(Rest(s, k - m - 1)) = k - m - 1
        /\ \A j \in 1 .. k - m - 1 : Rest(s, k)[m + 1 + j] = Rest(s, k - m - 1)[j]
    BY RestAt
  <2> QED
    BY <2>1, <2>2, Zenon
<1> HIDE DEF rest, token, first
<1>3. ASSUME token = Null, NEW v
      PROVE  Splits(t, rest, OneMore(s, t, k, v)) /\ OneMore(s, t, k, v) = OneMore(s, t, k, <<>>)
  <2>1. Splits(t, rest, <<[token |-> rest, returned |-> rest]>>)
    BY <1>0, <1>3, SplitsLast
  <2>2. OneMore(s, t, k, v) = <<[token |-> rest, returned |-> rest]>>
    BY <1>1, <1>3, Zenon
  <2>3. OneMore(s, t, k, <<>>) = <<[token |-> rest, returned |-> rest]>>
    BY <1>1, <1>3, Zenon
  <2> QED
    BY <2>1, <2>2, <2>3, Zenon
<1>4. ASSUME token # Null
      PROVE  k - token - 1 \in 0 .. k - 1
  <2>1. token \in 0 .. k - 1 /\ k \in Nat
    BY <1>0, <1>4, LenProperties
  <2> QED
    BY <2>1
<1>5. ASSUME token # Null, NEW v, Splits(t, Rest(s, k - token - 1), v)
      PROVE  Splits(t, rest, OneMore(s, t, k, v))
  <2>1. PICK q : q = Rest(s, k - token - 1)
    OBVIOUS
  <2>2. k = token + 1 + (k - token - 1)
    <3>1. token \in 0 .. k - 1 /\ k \in Nat
      BY <1>0, <1>5, LenProperties
    <3> QED
      BY <3>1
  <2>3. Begins(rest, first, t, q)
    BY <1>0, <1>2, <1>5, <2>1, <2>2 DEF Begins
  <2>4. Splits(t, rest, <<[token |-> first, returned |-> <<>>]>> \o v)
    BY <1>5, <2>1, <2>3, SplitsFront
  <2>5. OneMore(s, t, k, v) = <<[token |-> first, returned |-> <<>>]>> \o v
    BY <1>1, <1>5, Zenon
  <2> QED
    BY <2>4, <2>5, Zenon
<1>6. ASSUME NEW v \in Seq(Piecewise) PROVE OneMore(s, t, k, v) \in Seq(Piecewise)
  <2>1. CASE token = Null
    BY <1>3, <2>1 DEF Splits
  <2>2. CASE token # Null
    <3>1. PICK c \in Piecewise : c = [token |-> first, returned |-> <<>>]
      <4>1. first \in String /\ <<>> \in String
        BY <1>0, <2>2 DEF String
      <4> QED
        BY <4>1 DEF Piecewise
    <3>2. OneMore(s, t, k, v) = <<c>> \o v
      BY <1>1, <2>2, <3>1, Zenon
    <3> QED
      BY <3>2
  <2> QED
    BY <2>1, <2>2
<1> QED
  BY <1>3, <1>4, <1>5, <1>6, Zenon DEF token, rest

LEMMA TokensExist ==
  ASSUME NEW s \in Seq(1 .. 127), NEW t
  PROVE  \E f : Tokenised(s, t, f)
<1>0. PICK l \in Nat : l = Len(s)
  BY LenProperties
<1> DEFINE V == Seq(Piecewise)
           h == [k \in Nat |-> [v \in V |-> IF k <= l THEN OneMore(s, t, k, v) ELSE v]]
           d == [k \in Nat |-> IF k \in 1 .. l /\ Token(s, t, k) # Null
                               THEN k - Token(s, t, k) - 1 ELSE 0]
           a == OneMore(s, t, 0, <<>>)
<1>1. \A k \in Nat : k <= l => k \in 0 .. Len(s)
  BY <1>0
<1>2. a \in V
  <2>1. 0 \in 0 .. Len(s) /\ <<>> \in Seq(Piecewise)
    BY <1>0
  <2> QED
    BY <2>1, OneMoreIs
<1>3. h \in [Nat -> [V -> V]]
  <2>1. ASSUME NEW k \in Nat, NEW v \in V
        PROVE  (IF k <= l THEN OneMore(s, t, k, v) ELSE v) \in V
    <3>1. CASE k <= l
      <4>1. k \in 0 .. Len(s)
        BY <1>1, <3>1
      <4>2. OneMore(s, t, k, v) \in V
        BY <4>1, OneMoreIs
      <4> QED
        BY <3>1, <4>2, Zenon
    <3>2. CASE ~(k <= l)
      BY <3>2
    <3> QED
      BY <3>1, <3>2
  <2> HIDE DEF V
  <2> QED
    BY <2>1, Zenon
<1>4. ASSUME NEW k \in Nat, NEW v \in V, k <= l PROVE h[k][v] = OneMore(s, t, k, v)
  <2> HIDE DEF V
  <2> QED
    BY <1>4
<1>5. ASSUME NEW k \in Nat
      PROVE  /\ d[k] \in Nat /\ (k # 0 => d[k] < k)
             /\ k \in 1 .. l /\ Token(s, t, k) # Null => d[k] = k - Token(s, t, k) - 1
  <2>1. CASE k \in 1 .. l /\ Token(s, t, k) # Null
    <3>1. k \in 0 .. Len(s)
      BY <1>0, <2>1
    <3>2. k - Token(s, t, k) - 1 \in 0 .. k - 1
      BY <2>1, <3>1, OneMoreIs
    <3>3. d[k] = k - Token(s, t, k) - 1
      BY <2>1
    <3> HIDE DEF d
    <3> QED
      BY <3>2, <3>3
  <2>2. CASE ~(k \in 1 .. l /\ Token(s, t, k) # Null)
    <3>1. d[k] = 0
      BY <2>2
    <3> HIDE DEF d
    <3> QED
      BY <2>2, <3>1
  <2> QED
    BY <2>1, <2>2
<1>6. Earlier(d)
  <2>1. d = [k \in Nat |-> d[k]]
    OBVIOUS
  <2> HIDE DEF d
  <2> QED
    BY <1>5, <2>1 DEF Earlier
<1> HIDE DEF V, h, d, a
<1>7. PICK g : Solves(V, a, h, d, g)
  <2>1. Recursion(V, a, h, d)
    BY <1>2, <1>3, <1>6 DEF Recursion
  <2> QED
    BY <2>1, RecursionOnNat, Zenon
<1> DEFINE f == [k \in 0 .. Len(s) |-> g[k]]
<1>8. ASSUME NEW k \in 0 .. Len(s)
      PROVE  f[k] = OneMore(s, t, k, f[k - Token(s, t, k) - 1])
  <2>0. k \in Nat /\ k <= l /\ f[k] = g[k]
    BY <1>0
  <2>1. CASE k = 0
    <3>1. Token(s, t, k) = Null
      <4>1. k - Token(s, t, k) - 1 \notin 0 .. k - 1
        BY <2>1
      <4> QED
        BY <4>1, OneMoreIs
    <3>2. OneMore(s, t, k, f[k - Token(s, t, k) - 1]) = OneMore(s, t, k, <<>>)
      BY <3>1, OneMoreIs
    <3>3. g[0] = a
      BY <1>7 DEF Solves
    <3> HIDE DEF f
    <3> QED
      BY <2>0, <2>1, <3>2, <3>3 DEF a
  <2>2. CASE k # 0
    <3>1. k \in Nat \ {0} /\ k \in 1 .. l
      BY <2>0, <2>2
    <3>2. g[d[k]] \in V /\ g[k] = h[k][g[d[k]]]
      BY <1>7, <3>1 DEF Solves
    <3>3. g[k] = OneMore(s, t, k, g[d[k]])
      BY <1>4, <2>0, <3>2
    <3>4. CASE Token(s, t, k) = Null
      <4>1. \A v : OneMore(s, t, k, v) = OneMore(s, t, k, <<>>)
        BY <3>4, OneMoreIs
      <4> HIDE DEF f
      <4> QED
        BY <2>0, <3>3, <4>1
    <3>5. CASE Token(s, t, k) # Null
      <4>1. PICK p : p = k - Token(s, t, k) - 1 /\ p \in 0 .. k - 1 /\ d[k] = p
        BY <1>5, <2>0, <3>1, <3>5, OneMoreIs
      <4>2. p \in 0 .. Len(s)
        BY <1>0, <2>0, <4>1
      <4>3. f[p] = g[p]
        BY <4>2
      <4> HIDE DEF f
      <4> QED
        BY <2>0, <3>3, <4>1, <4>3
    <3> QED
      BY <3>4, <3>5
  <2> QED
    BY <2>1, <2>2
<1>9. f = [k \in 0 .. Len(s) |-> f[k]]
  OBVIOUS
<1> HIDE DEF f
<1>10. Tokenised(s, t, f)
  BY <1>8, <1>9, Zenon DEF Tokenised
<1> QED
  BY <1>10

LEMMA TokensIs ==
  ASSUME NEW s \in Seq(1 .. 127), NEW t
  PROVE  Splits(t, s, Tokens(s, t))
<1> DEFINE of == CHOOSE f : Tokenised(s, t, f)
<1>0. Len(s) \in Nat
  BY LenProperties
<1>1. Tokenised(s, t, of)
  BY TokensExist, Zenon
<1>2. Tokens(s, t) = of[Len(s)]
  BY Zenon DEF Tokens, Tokenised, OneMore, Token, Rest
<1> HIDE DEF of
<1>3. \A k \in 0 .. Len(s) : of[k] = OneMore(s, t, k, of[k - Token(s, t, k) - 1])
  BY <1>1, Zenon DEF Tokenised
<1> DEFINE S == {k \in Nat : k <= Len(s) => Splits(t, Rest(s, k), of[k])}
<1>4. ASSUME NEW k \in Nat, \A m \in 0 .. k - 1 : m \in S PROVE k \in S
  <2> SUFFICES ASSUME k <= Len(s) PROVE Splits(t, Rest(s, k), of[k])
    OBVIOUS
  <2>1. k \in 0 .. Len(s)
    BY <1>0
  <2>2. CASE Token(s, t, k) = Null
    <3>1. \A v : Splits(t, Rest(s, k), OneMore(s, t, k, v))
      BY <2>1, <2>2, OneMoreIs
    <3> QED
      BY <1>3, <2>1, <3>1, Zenon
  <2>3. CASE Token(s, t, k) # Null
    <3>1. PICK p : p = k - Token(s, t, k) - 1 /\ p \in 0 .. k - 1
      BY <2>1, <2>3, OneMoreIs
    <3>2. Splits(t, Rest(s, p), of[p])
      <4>1. p <= Len(s)
        BY <1>0, <3>1
      <4> QED
        BY <1>4, <3>1, <4>1
    <3>3. \A v : Splits(t, Rest(s, k - Token(s, t, k) - 1), v) =>
               Splits(t, Rest(s, k), OneMore(s, t, k, v))
      BY <2>1, <2>3, OneMoreIs
    <3>4. Splits(t, Rest(s, k), OneMore(s, t, k, of[p]))
      BY <3>1, <3>2, <3>3, Zenon
    <3> QED
      BY <1>3, <2>1, <3>1, <3>4, Zenon
  <2> QED
    BY <2>2, <2>3
<1> HIDE DEF S
<1>5. Len(s) \in S
  BY <1>0, <1>4, StrongInduction
<1>6. Rest(s, Len(s)) = s
  <2>1. Len(s) - Len(s) + 1 = 1
    BY <1>0
  <2>2. SubSeq(s, 1, Len(s)) = s
    BY SubSeqFull
  <2> QED
    BY <2>1, <2>2 DEF Rest
<1> QED
  BY <1>0, <1>2, <1>5, <1>6 DEF S

-----------------------------------------------------------------------------
(* Answers. *)

LEMMA ReadsAnswers ==
  ASSUME NEW f, NEW s, NEW t, NEW n, NEW answer, Reads(f, s, t, n, answer)
  PROVE  /\ call'.of = f /\ call'.s = s /\ call'.t = t /\ call'.n = n
         /\ out'[1] = answer
  BY DEF Reads, Calls

LEMMA CompareAnswers ==
  ASSUME NEW s \in Seq(1 .. 127), NEW t \in Seq(1 .. 127), Compare(s, t)
  PROVE  AnswersRight'
<1>1. CASE Reads("strcmp", s, t, 0, strcmp(s, t))
  BY <1>1, ReadsAnswers, StrcmpIs DEF AnswersRight
<1>2. CASE \E n \in 0 .. 2 : Reads("strncmp", s, t, n, strncmp(s, t, n))
  <2>1. PICK n \in Nat : Reads("strncmp", s, t, n, strncmp(s, t, n))
    BY <1>2
  <2>2. Sign(strncmp(s, t, n), Prefix(s, n + 1), Prefix(t, n + 1))
    BY StrncmpIs
  <2> QED
    BY <2>1, <2>2, ReadsAnswers DEF AnswersRight
<1> QED
  BY <1>1, <1>2 DEF Compare

LEMMA SearchAnswers ==
  ASSUME NEW s \in Seq(1 .. 127), NEW t \in Seq(1 .. 127), Search(s, t)
  PROVE  AnswersRight'
<1>1. CASE Reads("strpbrk", s, t, 0, strpbrk(s, t))
  <2>1. strpbrk(s, t) = Least(AnyOf(s, t))
    BY StrpbrkIs
  <2> QED
    BY <1>1, <2>1, ReadsAnswers DEF AnswersRight
<1>2. CASE Reads("strchr", s, t, t[1], strchr(s, t[1]))
  <2>1. strchr(s, t[1]) = Least(AnyOf(s, <<t[1]>>))
    BY StrpbrkIs DEF strchr
  <2> QED
    BY <1>2, <2>1, ReadsAnswers DEF AnswersRight
<1>3. CASE Reads("strrchr", s, t, t[1], strrchr(s, t[1]))
  <2>1. strrchr(s, t[1]) = Greatest(AnyOf(s, <<t[1]>>))
    BY StrrchrIs
  <2> QED
    BY <1>3, <2>1, ReadsAnswers DEF AnswersRight
<1>4. CASE Reads("strstr", s, t, 0, strstr(s, t))
  <2>1. strstr(s, t) = IF t = <<>> THEN Null ELSE Least(Places(s, t))
    BY StrstrIs
  <2> QED
    BY <1>4, <2>1, ReadsAnswers DEF AnswersRight
<1> QED
  BY <1>1, <1>2, <1>3, <1>4 DEF Search

LEMMA CopyAnswers ==
  ASSUME NEW s \in Seq(1 .. 127), Copy(s)
  PROVE  AnswersRight'
<1>1. CASE Reads("strcpy", s, <<>>, 0, strcpy(s))
  BY <1>1, ReadsAnswers, StrcpyIs DEF AnswersRight
<1>2. CASE \E n \in 0 .. 3 : Reads("strncpy", s, <<>>, n, strncpy(s, n))
  <2>1. PICK n \in Nat : Reads("strncpy", s, <<>>, n, strncpy(s, n))
    BY <1>2
  <2>2. strncpy(s, n) = [k \in 1 .. n |-> IF k <= Len(s) THEN s[k] ELSE NUL]
    BY StrncpyIs
  <2> QED
    BY <2>1, <2>2, ReadsAnswers DEF AnswersRight
<1> QED
  BY <1>1, <1>2 DEF Copy

LEMMA ConcatenateAnswers ==
  ASSUME NEW d \in Seq(1 .. 127), NEW s \in Seq(1 .. 127), Concatenate(d, s)
  PROVE  AnswersRight'
<1>1. CASE ruin' = "behind"
  BY <1>1 DEF AnswersRight
<1>2. CASE Len(s) >= Len(d) /\ Builds("strcat", d, s, 0, strcat(d, s))
  <2>1. strcat(d, s).chars = Overlaid(d, s, Len(s))
    BY <1>2, StrcatIs
  <2> QED
    BY <1>2, <2>1, BuildsFits DEF AnswersRight
<1>3. CASE Len(s) >= Len(d) /\ \E n \in 0 .. 3 : Builds("strncat", d, s, n, strncat(d, s, n))
  <2>1. PICK n \in Nat : Builds("strncat", d, s, n, strncat(d, s, n))
    BY <1>3
  <2>2. strncat(d, s, n).chars = Overlaid(d, s, Max({Len(d), Min({n, Len(s)})}))
    BY <1>3, StrcatIs
  <2>3. /\ call'.of = "strncat" /\ call'.s = d /\ call'.t = s /\ call'.n = n
        /\ out' = strncat(d, s, n).chars
    BY <2>1, BuildsFits
  <2>4. out' = Overlaid(call'.s, call'.t, Max({Len(call'.s), Min({call'.n, Len(call'.t)})}))
    BY <2>2, <2>3, Zenon
  <2> QED
    BY <2>3, <2>4, Zenon DEF AnswersRight
<1> QED
  BY <1>1, <1>2, <1>3, Zenon DEF Concatenate

LEMMA DeleteAnswers ==
  ASSUME NEW s \in Seq(1 .. 127), NEW t \in Seq(1 .. 127), Delete(s, t)
  PROVE  AnswersRight'
<1>1. CASE Builds("strdels", s, t, 0, strdels(s, t))
  <2>1. strdels(s, t).chars = Without(s, t)
    BY DeletedIs
  <2> QED
    BY <1>1, <2>1, BuildsFits DEF AnswersRight
<1>2. CASE Builds("strdelc", s, t, t[1], strdelc(s, t[1]))
  <2>1. strdelc(s, t[1]).chars = strdels(s, <<t[1]>>).chars
    BY DEF strdelc, strdels, Built
  <2>2. strdels(s, <<t[1]>>).chars = Without(s, <<t[1]>>)
    BY DeletedIs
  <2>3. /\ call'.of = "strdelc" /\ call'.s = s /\ call'.n = t[1]
        /\ out' = strdelc(s, t[1]).chars
    BY <1>2, BuildsFits
  <2>4. out' = Without(call'.s, <<call'.n>>)
    BY <2>1, <2>2, <2>3, Zenon
  <2> QED
    BY <2>3, <2>4 DEF AnswersRight
<1> QED
  BY <1>1, <1>2 DEF Delete

LEMMA SplitAnswers ==
  ASSUME NEW s \in Seq(1 .. 127), NEW t \in Seq(1 .. 127), Split(s, t)
  PROVE  AnswersRight'
<1>1. PICK v : v = Tokens(s, t) /\ Splits(t, s, v)
  BY TokensIs
<1>2. /\ call'.of = "strtok" /\ call'.s = s /\ call'.t = t /\ out'[1] = v
  BY <1>1, ReadsAnswers DEF Split
<1>3. /\ Joined(v) = Ended(s, t)
      /\ \A j \in 1 .. Len(v) : v[j].returned = IF j < Len(v) THEN <<>> ELSE v[j].token
  BY <1>1, Zenon DEF Splits
<1> QED
  BY <1>2, <1>3 DEF AnswersRight

LEMMA StringCallAnswers ==
  ASSUME StringCall
  PROVE  AnswersRight'
<1>0. Strings \subseteq Seq(1 .. 127)
  BY CStringAssumption DEF CStringAssumption
<1>1. CASE \E s, t \in Strings : Compare(s, t)
  BY <1>0, <1>1, CompareAnswers
<1>2. CASE \E s, t \in Strings : Search(s, t)
  BY <1>0, <1>2, SearchAnswers
<1>3. CASE \E s, t \in Strings : Concatenate(s, t)
  BY <1>0, <1>3, ConcatenateAnswers
<1>4. CASE \E s, t \in Strings : Delete(s, t)
  BY <1>0, <1>4, DeleteAnswers
<1>5. CASE \E s, t \in Strings : Split(s, t)
  BY <1>0, <1>5, SplitAnswers
<1>6. CASE \E s \in Strings : Copy(s)
  BY <1>0, <1>6, CopyAnswers
<1>7. CASE \E n \in Numbers : Convert(n)
  <2>1. call'.of = "numstr"
    BY <1>7, BuildsFits DEF Convert
  <2> QED
    BY <2>1 DEF AnswersRight
<1> QED
  BY <1>1, <1>2, <1>3, <1>4, <1>5, <1>6, <1>7 DEF StringCall

\* Every string function answers as AnswersRight says, for all strings: as the C library
\* does, but for the differences listed there - strncmp's one character more, strstr's
\* empty string, strcat's and strncat's src, and what strtok returns (std/cstring.h).
THEOREM AnswersAlwaysRight == TextSpec => []AnswersRight
<1>1. PrinterInit => AnswersRight
  BY DEF PrinterInit, AnswersRight
<1>2. AnswersRight /\ [TextNext]_textvars => AnswersRight'
  <2> SUFFICES ASSUME AnswersRight, [TextNext]_textvars PROVE AnswersRight'
    OBVIOUS
  <2>1. CASE PrinterNext
    <3>1. pc' \in {"walk", "digits", "returned", "mute"}
      BY <2>1 DEF PrinterNext, Enter, Call, Mute, Literal, AtDirective, TakesWrong, TakesNumber,
         TakesText, Digit, Number, Return
    <3> QED
      BY <3>1 DEF AnswersRight
  <2>2. CASE StringCall
    BY <2>2, StringCallAnswers
  <2>3. CASE UNCHANGED textvars
    BY <2>3 DEF textvars, AnswersRight
  <2> QED
    BY <2>1, <2>2, <2>3 DEF TextNext
<1> QED
  BY <1>1, <1>2, PTL DEF TextSpec

-----------------------------------------------------------------------------
(* The console. *)

USE ConsoleAssumption

\* The cursor's row is one of the screen's and its cell is on the screen: x may
\* exceed the row, so neither follows from the other.
CursorInv ==
    /\ x \in Nat /\ y \in 0 .. rows - 1
    /\ unset \in BOOLEAN
    /\ CursorOnScreen

\* A row that begins on the screen is a row of the screen.
LEMMA RowOnScreen ==
    ASSUME NEW cy \in Nat, cy * columns < rows * columns
    PROVE  cy \in 0 .. rows - 1
  BY SMT

\* The last row begins on the screen, and so does the first.
LEMMA LastRow == rows - 1 \in 0 .. rows - 1 /\ Offset(0, rows - 1) \in Screen
  BY SMT DEF Offset, Screen

LEMMA FirstRow == 0 \in 0 .. rows - 1 /\ Offset(0, 0) \in Screen
<1>1. rows * columns > 0
  BY SMT
<1> QED
  BY <1>1, SMT DEF Offset, Screen

\* An offset is a number, and one column is one cell.
LEMMA Offsets ==
    ASSUME NEW cx \in Nat, NEW cy \in Nat
    PROVE  /\ Offset(cx, cy) \in Nat
           /\ Offset(cx + 1, cy) = Offset(cx, cy) + 1
  BY SMT DEF Offset

\* Moving the cursor to any place leaves it on the screen, provided its row is
\* one of the screen's whenever its cell is on the screen.
LEMMA MovesOnScreen ==
    ASSUME NEW b, NEW cx \in Nat, NEW cy \in Nat,
           MoveOrScroll(b, cx, cy),
           Offset(cx, cy) < rows * columns => cy \in 0 .. rows - 1
    PROVE  x' \in Nat /\ y' \in 0 .. rows - 1 /\ Offset(x', y') \in Screen
<1>1. Offset(cx, cy) \in Nat
  BY Offsets
<1>2. CASE Offset(cx, cy) >= rows * columns
  <2>1. x' = 0 /\ y' = rows - 1
    BY <1>2 DEF MoveOrScroll
  <2> QED
    BY <2>1, LastRow
<1>3. CASE ~(Offset(cx, cy) >= rows * columns)
  <2>1. x' = cx /\ y' = cy
    BY <1>3 DEF MoveOrScroll
  <2>2. Offset(cx, cy) < rows * columns
    BY <1>1, <1>3, SMT
  <2>3. Offset(cx, cy) \in Screen
    BY <1>1, <2>2, SMT DEF Screen
  <2> QED
    BY <2>1, <2>2, <2>3
<1> QED
  BY <1>2, <1>3

LEMMA CursorStep == CursorInv /\ [Next]_vars => CursorInv'
<1> SUFFICES ASSUME CursorInv, [Next]_vars PROVE CursorInv'
  OBVIOUS
<1>1. y \in Nat
  BY SMT DEF CursorInv
<1> USE <1>1
<1>2. CASE Newline
  <2>1. Offset(0, y + 1) < rows * columns => y + 1 \in 0 .. rows - 1
    <3>1. Offset(0, y + 1) = (y + 1) * columns
      BY SMT DEF Offset
    <3> QED
      BY <3>1, RowOnScreen
  <2>2. x' \in Nat /\ y' \in 0 .. rows - 1 /\ Offset(x', y') \in Screen
    BY <1>2, <2>1, MovesOnScreen DEF Newline
  <2> QED
    BY <2>2, <1>2 DEF CursorInv, CursorOnScreen, Newline
<1>3. ASSUME NEW c \in Chars, Put(c) PROVE CursorInv'
  <2>1. x' \in Nat /\ y' \in 0 .. rows - 1 /\ Offset(x', y') \in Screen
    BY <1>3, MovesOnScreen DEF Put, CursorInv
  <2> QED
    BY <2>1, <1>3 DEF CursorInv, CursorOnScreen, Put
<1>4. CASE Erase
  <2>1. x - 1 \in Nat /\ x' = x - 1 /\ y' = y /\ ~unset /\ unset' = unset
    BY <1>4, SMT DEF Erase, CursorInv
  <2>2. Offset(x, y) = Offset(x - 1, y) + 1 /\ Offset(x - 1, y) \in Nat
    <3>1. Offset((x - 1) + 1, y) = Offset(x - 1, y) + 1 /\ Offset(x - 1, y) \in Nat
      BY <2>1, Offsets
    <3>2. (x - 1) + 1 = x
      BY SMT DEF CursorInv
    <3> QED
      BY <3>1, <3>2
  <2>3. Offset(x - 1, y) \in Screen
    <3>1. Offset(x, y) \in Screen
      BY <2>1 DEF CursorInv, CursorOnScreen
    <3> QED
      BY <2>2, <3>1, SMT DEF Screen
  <2> QED
    BY <2>1, <2>3 DEF CursorInv, CursorOnScreen
<1>5. CASE Join
  <2>1. y - 1 \in 0 .. rows - 1 /\ y - 1 \in Nat /\ x = 0 /\ y' = y - 1 /\ ~unset
    BY <1>5, SMT DEF Join, CursorInv
  <2>2. CASE unset' = TRUE /\ x' = x
    BY <2>1, <2>2 DEF CursorInv, CursorOnScreen
  <2>3. ASSUME NEW last \in 0 .. columns - 1, x' = last, unset' = unset
        PROVE  CursorInv'
    <3>1. Offset(last, y - 1) < Offset(0, y) /\ Offset(last, y - 1) \in Nat
      BY <2>1, SMT DEF Offset
    <3>2. Offset(0, y) \in Screen
      BY <2>1 DEF CursorInv, CursorOnScreen
    <3>3. Offset(last, y - 1) \in Screen
      BY <3>1, <3>2, SMT DEF Screen
    <3>4. last \in Nat
      BY SMT
    <3> QED
      BY <2>1, <2>3, <3>3, <3>4 DEF CursorInv, CursorOnScreen
  <2> QED
    BY <1>5, <2>2, <2>3 DEF Join
<1>6. CASE Clear
  BY <1>6, FirstRow DEF Clear, CursorInv, CursorOnScreen
<1>7. CASE UNCHANGED vars
  BY <1>7 DEF vars, CursorInv, CursorOnScreen, Offset
<1> QED
  BY <1>2, <1>3, <1>4, <1>5, <1>6, <1>7 DEF Next

LEMMA CursorInit == Init => CursorInv
<1>1. Init => x = 0 /\ y = 0 /\ unset = FALSE
  BY DEF Init
<1>2. x = 0 /\ y = 0 /\ unset = FALSE => CursorInv
  <2>1. 0 \in Nat /\ FALSE \in BOOLEAN
    OBVIOUS
  <2> QED
    BY <2>1, FirstRow, Zenon DEF CursorInv, CursorOnScreen
<1> QED
  BY <1>1, <1>2

\* Whatever is printed, on a screen of any size: the cell the next character goes
\* to is on the screen, so ConsoleStream::write stays in video memory.
THEOREM CursorStays == Spec => []CursorOnScreen
<1>1. CursorInv => CursorOnScreen
  BY DEF CursorInv
<1> QED
  BY <1>1, CursorInit, CursorStep, PTL DEF Spec

-----------------------------------------------------------------------------
(* What the scroll loop leaves in video memory. *)

\* The buffer before each of the first n iterations.
Copied(b, n, f) ==
    f = [r \in 0 .. n |-> IF r = 0 THEN b ELSE CopyRows(f[r - 1], r - 1)]

LEMMA CopiesExist ==
  ASSUME NEW b, NEW n \in Nat
  PROVE  \E f : Copied(b, n, f)
<1> DEFINE S == {m \in Nat : \E f : Copied(b, m, f)}
<1>1. 0 \in S
  <2> DEFINE f == [r \in 0 .. 0 |-> b]
  <2>1. Copied(b, 0, f)
    BY DEF Copied
  <2> QED
    BY <2>1, Zenon
<1>2. ASSUME NEW m \in Nat, m \in S
      PROVE  m + 1 \in S
  <2>1. PICK f : Copied(b, m, f)
    BY <1>2
  <2> DEFINE g == [r \in 0 .. m + 1 |-> IF r <= m THEN f[r] ELSE CopyRows(f[m], m)]
  <2>2. ASSUME NEW r \in 0 .. m + 1
        PROVE  g[r] = IF r = 0 THEN b ELSE CopyRows(g[r - 1], r - 1)
    <3>1. CASE r = 0
      BY <2>1, <3>1 DEF Copied
    <3>2. CASE r # 0 /\ r <= m
      BY <2>1, <3>2 DEF Copied
    <3>3. CASE r = m + 1
      BY <2>1, <3>3 DEF Copied
    <3> QED
      BY <3>1, <3>2, <3>3
  <2>3. Copied(b, m + 1, g)
    BY <2>2 DEF Copied
  <2> QED
    BY <2>3
<1> HIDE DEF S
<1>3. n \in S
  BY <1>1, <1>2, Induction
<1> QED
  BY <1>3 DEF S

\* One row more has moved up by one after every iteration, two after the first.
LEMMA RowsMoved ==
  ASSUME NEW b, NEW f, Copied(b, rows, f)
  PROVE  \A o \in Cells : f[rows][o] = IF o < (rows + 1) * columns
                                       THEN b[o + columns] ELSE b[o]
<1> DEFINE Moved(k, o) == IF k > 0 /\ o < (k + 1) * columns
                          THEN b[o + columns] ELSE b[o]
           S == {k \in Nat : k <= rows => \A o \in Cells : f[k][o] = Moved(k, o)}
<1>1. 0 \in S
  BY DEF Copied
<1>2. ASSUME NEW k \in Nat, k \in S
      PROVE  k + 1 \in S
  <2> SUFFICES ASSUME k + 1 <= rows, NEW o \in Cells
               PROVE  f[k + 1][o] = Moved(k + 1, o)
    OBVIOUS
  <2>1. \A c \in Cells : f[k][c] = Moved(k, c)
    BY <1>2
  <2>2. f[k + 1] = CopyRows(f[k], k)
    BY DEF Copied
  <2>3. PICK K \in Nat : /\ k * columns = K
                         /\ (k + 1) * columns = K + columns
                         /\ (k + 1 + 1) * columns = K + 2 * columns
                         /\ (k + 3) * columns = K + 3 * columns
    <3>1. k * columns \in Nat
      BY SMT
    <3> QED
      BY <3>1, SMT
  <2>4. (k + 3) * columns <= (rows + 2) * columns
    BY SMT
  <2>5. o \in Int /\ columns \in Nat /\ (rows + 2) * columns \in Nat
    BY SMT DEF Cells
  <2>6. CopyRows(f[k], k)[o] = IF o \in K .. K + 2 * columns - 1
                               THEN f[k][o + columns] ELSE f[k][o]
    BY <2>3 DEF CopyRows, Offset
  <2>7. CASE o \in K .. K + 2 * columns - 1
    <3>1. o + columns \in Cells /\ ~(o + columns < K + columns)
      BY <2>3, <2>4, <2>5, <2>7 DEF Cells
    <3>2. f[k][o + columns] = b[o + columns]
      BY <2>1, <2>3, <3>1
    <3>3. o < K + 2 * columns
      BY <2>5, <2>7
    <3> QED
      BY <2>2, <2>3, <2>6, <2>7, <3>2, <3>3
  <2>8. CASE o < K
    <3>1. k > 0
      BY <2>3, <2>5, <2>8 DEF Cells
    <3>2. o < K + columns /\ o < K + 2 * columns /\ o \notin K .. K + 2 * columns - 1
      BY <2>5, <2>8
    <3> QED
      BY <2>1, <2>2, <2>3, <2>6, <3>1, <3>2
  <2>9. CASE o >= K + 2 * columns
    <3>1. ~(o < K + columns) /\ ~(o < K + 2 * columns) /\ o \notin K .. K + 2 * columns - 1
      BY <2>5, <2>9
    <3> QED
      BY <2>1, <2>2, <2>3, <2>6, <3>1
  <2> QED
    BY <2>5, <2>7, <2>8, <2>9
<1> HIDE DEF S
<1>3. rows \in S
  BY <1>1, <1>2, Induction
<1> QED
  BY <1>3 DEF S

\* Scrolling moves every row of the screen up by one and empties the last.
LEMMA ScrolledIs ==
  ASSUME NEW b
  PROVE  /\ Scrolled(b) = [o \in Cells |-> Scrolled(b)[o]]
         /\ \A o \in Screen :
               Scrolled(b)[o] = IF o < (rows - 1) * columns THEN b[o + columns] ELSE Empty
<1> DEFINE copied == CHOOSE f : f = [r \in 0 .. rows |->
                        IF r = 0 THEN b ELSE CopyRows(f[r - 1], r - 1)]
<1>1. Copied(b, rows, copied)
  <2>1. \E f : Copied(b, rows, f)
    BY CopiesExist
  <2> QED
    BY <2>1, Zenon DEF Copied
<1>2. Scrolled(b) = [o \in Cells |->
                       IF o \in Offset(0, rows - 1) .. Offset(0, rows) - 1
                       THEN Empty ELSE copied[rows][o]]
  BY Zenon DEF Scrolled
<1> HIDE DEF copied
<1>3. PICK last \in Nat : /\ (rows - 1) * columns = last
                          /\ rows * columns = last + columns
                          /\ (rows + 1) * columns = last + 2 * columns
                          /\ (rows + 2) * columns = last + 3 * columns
  <2>1. (rows - 1) * columns \in Nat
    BY SMT
  <2> QED
    BY <2>1, SMT
<1>4. ASSUME NEW o \in Screen
      PROVE  Scrolled(b)[o] = IF o < (rows - 1) * columns THEN b[o + columns] ELSE Empty
  <2>1. o \in Cells /\ o \in Int /\ o < last + columns /\ o >= 0
    BY <1>3 DEF Screen, Cells
  <2>2. Scrolled(b)[o] = IF o \in last .. last + columns - 1
                         THEN Empty ELSE copied[rows][o]
    BY <1>2, <1>3, <2>1 DEF Offset
  <2>3. copied[rows][o] = b[o + columns]
    BY <1>1, <1>3, <2>1, RowsMoved
  <2> QED
    BY <1>3, <2>1, <2>2, <2>3
<1> QED
  BY <1>2, <1>4

-----------------------------------------------------------------------------
(* The text on the screen. *)

\* As long as no line was too long, row r of buffer b ends at column len[r],
\* and the rows below the cursor's are empty.
LineEnds(b, cy, len) ==
    /\ len \in [0 .. rows - 1 -> 0 .. columns - 1]
    /\ \A r \in 0 .. rows - 1, c \in 0 .. columns - 1 :
          b[Offset(c, r)] = Empty <=> len[r] <= c
    /\ \A r \in 0 .. rows - 1 : r > cy => len[r] = 0

ScreenInv ==
    /\ CursorInv
    /\ torn \in BOOLEAN
    /\ buffer = [o \in Cells |-> buffer[o]]
    /\ NoJunk
    /\ ~torn => ~unset /\ \E len : LineEnds(buffer, y, len) /\ len[y] = x

\* Row, Tidy and Shown of any buffer.
RowIn(b, r) ==
    LET len == CHOOSE n \in 0 .. columns :
                 /\ \A c \in 0 .. n - 1 : b[Offset(c, r)] # Empty
                 /\ n < columns => b[Offset(n, r)] = Empty
    IN [k \in 1 .. len |-> b[Offset(k - 1, r)]]
TextOf(b, len, r) == [k \in 1 .. len[r] |-> b[Offset(k - 1, r)]]
Lines(b, cy, len) == [n \in 1 .. cy + 1 |-> TextOf(b, len, n - 1)]

LEMMA RowIs ==
  ASSUME NEW b, NEW cy, NEW len, LineEnds(b, cy, len), NEW r \in 0 .. rows - 1
  PROVE  RowIn(b, r) = TextOf(b, len, r)
<1> DEFINE Ends(n) == /\ \A c \in 0 .. n - 1 : b[Offset(c, r)] # Empty
                      /\ n < columns => b[Offset(n, r)] = Empty
<1>1. len[r] \in 0 .. columns - 1 /\ len[r] \in 0 .. columns
  BY DEF LineEnds
<1>2. \A c \in 0 .. columns - 1 : b[Offset(c, r)] = Empty <=> len[r] <= c
  BY DEF LineEnds
<1>3. Ends(len[r])
  <2>1. \A c \in 0 .. len[r] - 1 : c \in 0 .. columns - 1 /\ ~(len[r] <= c)
    BY <1>1
  <2>2. len[r] <= len[r]
    BY <1>1
  <2> QED
    BY <1>1, <1>2, <2>1, <2>2
<1>4. ASSUME NEW n \in 0 .. columns, Ends(n)
      PROVE  n = len[r]
  <2>1. ~(n < len[r])
    <3> SUFFICES ASSUME n < len[r] PROVE FALSE
      OBVIOUS
    <3>1. n < columns /\ n \in 0 .. columns - 1 /\ ~(len[r] <= n)
      BY <1>1
    <3> QED
      BY <1>2, <1>4, <3>1
  <2>2. ~(len[r] < n)
    <3> SUFFICES ASSUME len[r] < n PROVE FALSE
      OBVIOUS
    <3>1. len[r] \in 0 .. n - 1 /\ len[r] <= len[r]
      BY <1>1
    <3> QED
      BY <1>1, <1>2, <1>4, <3>1
  <2> QED
    BY <1>1, <2>1, <2>2
<1> HIDE DEF Ends
<1>5. (CHOOSE n \in 0 .. columns : Ends(n)) = len[r]
  BY <1>1, <1>3, <1>4
<1> QED
  BY <1>5, Zenon DEF RowIn, TextOf, Ends

LEMMA RowsAbove ==
  ASSUME NEW cy \in 0 .. rows - 1
  PROVE  \A n \in 1 .. cy + 1 : n - 1 \in 0 .. rows - 1
  OBVIOUS

\* What the state shows is what its buffer's line ends say.
LEMMA ShownIs ==
  ASSUME NEW len, LineEnds(buffer, y, len), ~torn, ~unset, y \in 0 .. rows - 1
  PROVE  Shown = Lines(buffer, y, len)
<1>1. \A r \in 0 .. rows - 1 : Row(r) = TextOf(buffer, len, r)
  <2>1. \A r : Row(r) = RowIn(buffer, r)
    BY Zenon DEF Row, RowIn
  <2> QED
    BY <2>1, RowIs
<1>2. Tidy
  <2> SUFFICES ASSUME NEW r \in 0 .. rows - 1, NEW c \in 0 .. columns - 1,
                      buffer[Offset(c, r)] # Empty
               PROVE  r <= y /\ c < Len(Row(r))
    BY DEF Tidy
  <2>1. len[r] \in 0 .. columns - 1 /\ c < len[r] /\ (r > y => len[r] = 0)
    BY DEF LineEnds
  <2>2. Len(Row(r)) = len[r]
    BY <1>1, <2>1 DEF TextOf
  <2> QED
    BY <2>1, <2>2
<1>3. \A n \in 1 .. y + 1 : n - 1 \in 0 .. rows - 1
  BY RowsAbove
<1>4. [n \in 1 .. y + 1 |-> Row(n - 1)] = Lines(buffer, y, len)
  BY <1>1, <1>3 DEF Lines
<1> QED
  BY <1>2, <1>4 DEF Shown

LEMMA ShownNextIs ==
  ASSUME NEW len, LineEnds(buffer', y', len), ~torn', ~unset', y' \in 0 .. rows - 1
  PROVE  Shown' = Lines(buffer', y', len)
<1>1. \A r \in 0 .. rows - 1 : Row(r)' = TextOf(buffer', len, r)
  <2>1. \A r : Row(r)' = RowIn(buffer', r)
    BY Zenon DEF Row, RowIn
  <2> QED
    BY <2>1, RowIs
<1>2. Tidy'
  <2> SUFFICES ASSUME NEW r \in 0 .. rows - 1, NEW c \in 0 .. columns - 1,
                      buffer'[Offset(c, r)] # Empty
               PROVE  r <= y' /\ c < Len(Row(r)')
    BY DEF Tidy
  <2>1. len[r] \in 0 .. columns - 1 /\ c < len[r] /\ (r > y' => len[r] = 0)
    BY DEF LineEnds
  <2>2. Len(Row(r)') = len[r]
    BY <1>1, <2>1 DEF TextOf
  <2> QED
    BY <2>1, <2>2
<1>3. \A n \in 1 .. y' + 1 : n - 1 \in 0 .. rows - 1
  BY RowsAbove
<1>4. [n \in 1 .. y' + 1 |-> Row(n - 1)'] = Lines(buffer', y', len)
  BY <1>1, <1>3 DEF Lines
<1> QED
  BY <1>2, <1>4 DEF Shown

\* Cells of the screen: none is two columns' or two rows'.
LEMMA CellOf ==
  ASSUME NEW r \in 0 .. rows - 1, NEW c \in 0 .. columns - 1
  PROVE  /\ Offset(c, r) \in Screen /\ Offset(c, r) \in Cells
         /\ \A r2 \in 0 .. rows - 1, c2 \in 0 .. columns - 1 :
               Offset(c, r) = Offset(c2, r2) => r = r2 /\ c = c2
<1>1. Offset(c, r) \in Nat /\ Offset(c, r) < (r + 1) * columns
  BY SMT DEF Offset
<1>2. (r + 1) * columns <= rows * columns /\ rows * columns \in Nat
  BY SMT
<1>3. (rows + 2) * columns = rows * columns + 2 * columns
  BY SMT
<1>4. Offset(c, r) \in Screen /\ Offset(c, r) \in Cells
  BY <1>1, <1>2, <1>3 DEF Screen, Cells
<1>5. ASSUME NEW r2 \in 0 .. rows - 1, NEW c2 \in 0 .. columns - 1,
             Offset(c, r) = Offset(c2, r2)
      PROVE  r = r2 /\ c = c2
  <2>1. r < r2 => (r + 1) * columns <= r2 * columns
    BY SMT
  <2>2. r2 < r => (r2 + 1) * columns <= r * columns
    BY SMT
  <2>3. (r + 1) * columns = r * columns + columns /\ (r2 + 1) * columns = r2 * columns + columns
    BY SMT
  <2>4. r * columns \in Nat /\ r2 * columns \in Nat
    BY SMT
  <2>5. r * columns + c = r2 * columns + c2
    BY <1>5 DEF Offset
  <2>6. ~(r < r2) /\ ~(r2 < r)
    BY <2>1, <2>2, <2>3, <2>4, <2>5
  <2>7. r = r2
    BY <2>6
  <2> QED
    BY <2>4, <2>5, <2>7
<1> QED
  BY <1>4, <1>5

\* Moving and scrolling brings nothing from behind the screen into view.
LEMMA MovesNoJunk ==
  ASSUME NEW b, NEW cx, NEW cy, MoveOrScroll(b, cx, cy),
         b = [o \in Cells |-> b[o]], \A o \in Screen : b[o] # Junk
  PROVE  buffer' = [o \in Cells |-> buffer'[o]] /\ NoJunk'
<1>1. CASE buffer' = b
  BY <1>1 DEF NoJunk, Screen
<1>2. CASE buffer' = Scrolled(b)
  <2>1. \A o \in Screen : o < (rows - 1) * columns => o + columns \in Screen
    <3>1. (rows - 1) * columns + columns = rows * columns /\ rows * columns \in Nat
      BY SMT
    <3>2. (rows - 1) * columns \in Int
      BY SMT
    <3> QED
      BY <3>1, <3>2 DEF Screen
  <2>2. Empty # Junk
    BY DEF Empty, Junk
  <2>3. \A o \in Screen : Scrolled(b)[o] # Junk
    BY <2>1, <2>2, ScrolledIs
  <2> QED
    BY <1>2, <2>3, ScrolledIs DEF NoJunk, Screen
<1> QED
  BY <1>1, <1>2 DEF MoveOrScroll

\* A scrolled buffer shows the lines but the first, and an empty one.
LEMMA ScrolledEnds ==
  ASSUME NEW b, NEW len, LineEnds(b, rows - 1, len)
  PROVE  LET up == [r \in 0 .. rows - 1 |-> IF r = rows - 1 THEN 0 ELSE len[r + 1]] IN
         /\ LineEnds(Scrolled(b), rows - 1, up)
         /\ \A r \in 0 .. rows - 2 : TextOf(Scrolled(b), up, r) = TextOf(b, len, r + 1)
<1> DEFINE up == [r \in 0 .. rows - 1 |-> IF r = rows - 1 THEN 0 ELSE len[r + 1]]
<1>1. ASSUME NEW r \in 0 .. rows - 1, NEW c \in 0 .. columns - 1
      PROVE  Scrolled(b)[Offset(c, r)] =
               IF r = rows - 1 THEN Empty ELSE b[Offset(c, r + 1)]
  <2>1. Offset(c, r) \in Screen
    BY CellOf
  <2>2. Offset(c, r) < (rows - 1) * columns <=> r # rows - 1
    <3>1. r * columns \in Nat /\ Offset(c, r) = r * columns + c /\ (rows - 1) * columns \in Nat
      BY SMT DEF Offset
    <3>2. r # rows - 1 => (r + 1) * columns <= (rows - 1) * columns
      BY SMT
    <3>3. (r + 1) * columns = r * columns + columns
      BY SMT
    <3> QED
      BY <3>1, <3>2, <3>3
  <2>3. Offset(c, r) + columns = Offset(c, r + 1)
    BY SMT DEF Offset
  <2> QED
    BY <2>1, <2>2, <2>3, ScrolledIs
<1>2. len \in [0 .. rows - 1 -> 0 .. columns - 1]
  BY DEF LineEnds
<1>3. up \in [0 .. rows - 1 -> 0 .. columns - 1]
  BY <1>2
<1>4. ASSUME NEW r \in 0 .. rows - 1, NEW c \in 0 .. columns - 1
      PROVE  Scrolled(b)[Offset(c, r)] = Empty <=> up[r] <= c
  <2>1. CASE r = rows - 1
    BY <1>1, <2>1
  <2>2. CASE r # rows - 1
    <3>1. r + 1 \in 0 .. rows - 1
      BY <2>2
    <3>2. b[Offset(c, r + 1)] = Empty <=> len[r + 1] <= c
      BY <3>1 DEF LineEnds
    <3> QED
      BY <1>1, <2>2, <3>2
  <2> QED
    BY <2>1, <2>2
<1>5. LineEnds(Scrolled(b), rows - 1, up)
  BY <1>3, <1>4 DEF LineEnds
<1>6. ASSUME NEW r \in 0 .. rows - 2
      PROVE  TextOf(Scrolled(b), up, r) = TextOf(b, len, r + 1)
  <2>1. r \in 0 .. rows - 1 /\ r # rows - 1 /\ up[r] = len[r + 1] /\ r + 1 \in 0 .. rows - 1
    OBVIOUS
  <2>2. \A k \in 1 .. len[r + 1] : k - 1 \in 0 .. columns - 1
    BY <1>2, <2>1
  <2>3. \A k \in 1 .. len[r + 1] : Scrolled(b)[Offset(k - 1, r)] = b[Offset(k - 1, r + 1)]
    BY <1>1, <2>1, <2>2
  <2> HIDE DEF up
  <2> QED
    BY <2>1, <2>3, Zenon DEF TextOf
<1> QED
  BY <1>5, <1>6

Vals(b) == {b[o] : o \in Cells}

\* Each line is a sequence of what is in the buffer.
LEMMA LinesTyped ==
  ASSUME NEW b, NEW cy \in 0 .. rows - 1, NEW len, LineEnds(b, cy, len)
  PROVE  /\ Lines(b, cy, len) \in Seq(Seq(Vals(b)))
         /\ Len(Lines(b, cy, len)) = cy + 1
         /\ \A n \in 1 .. cy + 1 : Lines(b, cy, len)[n] = TextOf(b, len, n - 1)
         /\ \A r \in 0 .. rows - 1 : /\ TextOf(b, len, r) \in Seq(Vals(b))
                                     /\ Len(TextOf(b, len, r)) = len[r]
<1> DEFINE V == Vals(b)
<1>1. ASSUME NEW r \in 0 .. rows - 1
      PROVE  TextOf(b, len, r) \in Seq(V) /\ Len(TextOf(b, len, r)) = len[r]
  <2>1. len[r] \in 0 .. columns - 1
    BY DEF LineEnds
  <2>2. \A k \in 1 .. len[r] : k - 1 \in 0 .. columns - 1
    BY <2>1
  <2>3. \A k \in 1 .. len[r] : b[Offset(k - 1, r)] \in V
    BY <2>2, CellOf DEF Vals
  <2> HIDE DEF V
  <2> QED
    BY <2>1, <2>3 DEF TextOf
<1> HIDE DEF V
<1>2. \A n \in 1 .. cy + 1 : TextOf(b, len, n - 1) \in Seq(V)
  BY <1>1, RowsAbove
<1>3. Lines(b, cy, len) \in Seq(Seq(V)) /\ Len(Lines(b, cy, len)) = cy + 1
  BY <1>2 DEF Lines
<1>4. \A n \in 1 .. cy + 1 : Lines(b, cy, len)[n] = TextOf(b, len, n - 1)
  BY DEF Lines
<1> QED
  BY <1>1, <1>3, <1>4 DEF V

\* Nothing else writes to the screen but a character or the empty cell.
LEMMA BufferStep ==
  ASSUME ScreenInv, [Next]_vars
  PROVE  buffer' = [o \in Cells |-> buffer'[o]] /\ NoJunk' /\ torn' \in BOOLEAN
<1>1. /\ buffer = [o \in Cells |-> buffer[o]]
      /\ \A o \in Screen : buffer[o] # Junk
      /\ torn \in BOOLEAN
  BY DEF ScreenInv, NoJunk
<1>2. Empty # Junk /\ \A c \in Chars : c # Junk
  BY DEF Empty, Junk
<1>3. CASE Newline
  BY <1>1, <1>3, MovesNoJunk DEF Newline
<1>4. ASSUME NEW c \in Chars, Put(c)
      PROVE  buffer' = [o \in Cells |-> buffer'[o]] /\ NoJunk' /\ torn' \in BOOLEAN
  <2> DEFINE b == [buffer EXCEPT ![Offset(x, y)] = c]
  <2>1. b = [o \in Cells |-> b[o]] /\ \A o \in Screen : b[o] # Junk
    BY <1>1, <1>2
  <2>2. MoveOrScroll(b, x + 1, y) /\ torn' \in BOOLEAN
    BY <1>1, <1>4 DEF Put
  <2> HIDE DEF b
  <2> QED
    BY <2>1, <2>2, MovesNoJunk
<1>5. CASE Erase
  BY <1>1, <1>2, <1>5 DEF Erase, NoJunk, Screen
<1>6. CASE Join
  BY <1>1, <1>6 DEF Join, NoJunk, Screen
<1>7. CASE Clear
  <2>1. buffer' = [o \in Cells |-> IF o \in Screen THEN Empty ELSE buffer[o]]
    BY <1>7 DEF Clear
  <2>2. torn' = FALSE
    BY <1>7 DEF Clear
  <2>3. \A o \in Screen : o \in Cells
    <3>1. rows * columns <= (rows + 2) * columns /\ rows * columns \in Nat
          /\ (rows + 2) * columns \in Nat
      BY SMT
    <3> QED
      BY <3>1 DEF Screen, Cells
  <2> QED
    BY <1>2, <2>1, <2>2, <2>3 DEF NoJunk, Screen
<1>8. CASE UNCHANGED vars
  BY <1>1, <1>8 DEF vars, NoJunk, Screen
<1> QED
  BY <1>3, <1>4, <1>5, <1>6, <1>7, <1>8 DEF Next

-----------------------------------------------------------------------------
(* One step of the console is one step of the terminal.  A step carries the *)
(* line ends along and changes the lines as Terminal says.                  *)

Carries(A) ==
    /\ ~torn' => ~unset' /\ \E len : LineEnds(buffer', y', len) /\ len[y'] = x'
    /\ A

LEMMA LongerIs ==
  ASSUME NEW W, NEW text \in Seq(W), NEW c \in W, NEW n, n = Len(text)
  PROVE  /\ Len(Append(text, c)) = n + 1
         /\ Append(text, c) = [k \in 1 .. n + 1 |-> IF k <= n THEN text[k] ELSE c]
<1>1. Append(text, c) \in Seq(W) /\ Len(Append(text, c)) = n + 1
  OBVIOUS
<1>2. \A k \in 1 .. n + 1 : Append(text, c)[k] = IF k <= n THEN text[k] ELSE c
  OBVIOUS
<1> DEFINE longer == [k \in 1 .. n + 1 |-> IF k <= n THEN text[k] ELSE c]
<1>3. longer \in Seq(W) /\ Len(longer) = n + 1
  OBVIOUS
<1>4. \A k \in 1 .. n + 1 : Append(text, c)[k] = longer[k]
  BY <1>2
<1> HIDE DEF longer
<1>5. Append(text, c) = longer
  BY <1>1, <1>3, <1>4, SeqEqual
<1> QED
  BY <1>1, <1>5 DEF longer

LEMMA PutLines ==
  ASSUME ScreenInv, ~torn, NEW c \in Chars, Put(c)
  PROVE  Carries(Screenful!Put(c))
<1>1. PICK len : LineEnds(buffer, y, len) /\ len[y] = x
  BY DEF ScreenInv
<1>2. /\ ~unset /\ x \in 0 .. columns - 1 /\ y \in 0 .. rows - 1
      /\ len \in [0 .. rows - 1 -> 0 .. columns - 1]
  BY <1>1 DEF ScreenInv, CursorInv, LineEnds
<1>3. Shown = Lines(buffer, y, len)
  BY <1>1, <1>2, ShownIs
<1> DEFINE V == Vals(buffer)
           line == Append(TextOf(buffer, len, y), c)
<1>4. /\ Len(Shown) = y + 1 /\ Shown \in Seq(Seq(V))
      /\ Shown[y + 1] = TextOf(buffer, len, y)
      /\ TextOf(buffer, len, y) \in Seq(V)
      /\ Len(TextOf(buffer, len, y)) = x
  <2>1. y + 1 \in 1 .. y + 1 /\ (y + 1) - 1 = y
    BY <1>2
  <2>2. y \in 0 .. rows - 1
    BY <1>2
  <2>3. /\ Lines(buffer, y, len) \in Seq(Seq(V))
        /\ Len(Lines(buffer, y, len)) = y + 1
        /\ \A n \in 1 .. y + 1 : Lines(buffer, y, len)[n] = TextOf(buffer, len, n - 1)
        /\ \A r \in 0 .. rows - 1 : /\ TextOf(buffer, len, r) \in Seq(V)
                                    /\ Len(TextOf(buffer, len, r)) = len[r]
    BY <1>1, <2>2, LinesTyped
  <2> HIDE DEF V
  <2> QED
    BY <1>1, <1>3, <2>1, <2>2, <2>3
<1>5. Screenful!Last(Shown) = TextOf(buffer, len, y)
  BY <1>4 DEF Screenful!Last
<1>6. Len(line) = x + 1 /\ line = [k \in 1 .. x + 1 |-> IF k <= x THEN TextOf(buffer, len, y)[k] ELSE c]
  <2> DEFINE W == V \cup {c}
             text == TextOf(buffer, len, y)
  <2> HIDE DEF V
  <2>1. text \in Seq(W) /\ c \in W /\ Len(text) = x /\ x \in Nat
    BY <1>2, <1>4
  <2> HIDE DEF W, text
  <2>2. /\ Len(Append(text, c)) = x + 1
        /\ Append(text, c) = [k \in 1 .. x + 1 |-> IF k <= x THEN text[k] ELSE c]
    <3>1. x = Len(text) /\ text \in Seq(W) /\ c \in W
      BY <2>1
    <3> QED
      BY <3>1, LongerIs
  <2> QED
    BY <2>2 DEF text
<1> HIDE DEF line
<1>7. torn' = (Len(line) >= columns) /\ unset' = unset
  <2>1. torn' = (torn \/ x + 1 >= columns) /\ unset' = unset
    BY <1>2, <1>6 DEF Put
  <2>2. torn = FALSE
    BY DEF ScreenInv
  <2> QED
    BY <1>6, <2>1, <2>2
<1>8. CASE torn'
  <2>1. Shown' = << <<>> >>
    BY <1>8 DEF Shown
  <2>2. Screenful!Put(c)
    BY <1>5, <1>7, <1>8, <2>1 DEF Screenful!Put, Screenful!Blank, line
  <2> QED
    BY <1>8, <2>2 DEF Carries
<1>9. CASE ~torn'
  <2>1. x + 1 < columns /\ x + 1 \in 0 .. columns - 1
    <3>1. ~(Len(line) >= columns)
      BY <1>7, <1>9, Zenon
    <3> QED
      BY <1>2, <1>6, <3>1
  <2>2. ~(Offset(x + 1, y) >= rows * columns)
    <3>1. Offset(x + 1, y) \in Screen
      BY <1>2, <2>1, CellOf
    <3>2. rows * columns \in Nat
      BY SMT
    <3> QED
      BY <3>1, <3>2 DEF Screen
  <2>3. /\ buffer' = [buffer EXCEPT ![Offset(x, y)] = c]
        /\ x' = x + 1 /\ y' = y
    BY <2>2 DEF Put, MoveOrScroll
  <2> DEFINE len2 == [len EXCEPT ![y] = x + 1]
  <2>4. len2 \in [0 .. rows - 1 -> 0 .. columns - 1]
    BY <1>2, <2>1
  <2>5. \A r \in 0 .. rows - 1, k \in 0 .. columns - 1 :
          buffer'[Offset(k, r)] = IF r = y /\ k = x THEN c ELSE buffer[Offset(k, r)]
    <3>1. buffer = [o \in Cells |-> buffer[o]]
      BY DEF ScreenInv
    <3> QED
      BY <1>2, <2>3, <3>1, CellOf
  <2>6. c # Empty
    OBVIOUS
  <2>7. \A r \in 0 .. rows - 1, k \in 0 .. columns - 1 :
          buffer'[Offset(k, r)] = Empty <=> len2[r] <= k
    <3> SUFFICES ASSUME NEW r \in 0 .. rows - 1, NEW k \in 0 .. columns - 1
                 PROVE  buffer'[Offset(k, r)] = Empty <=> len2[r] <= k
      OBVIOUS
    <3>1. buffer[Offset(k, r)] = Empty <=> len[r] <= k
      BY <1>1 DEF LineEnds
    <3>2. CASE r = y /\ k = x
      BY <1>2, <2>5, <2>6, <3>2
    <3>3. CASE r = y /\ k # x
      BY <1>1, <1>2, <2>5, <3>1, <3>3
    <3>4. CASE r # y
      BY <1>2, <2>5, <3>1, <3>4
    <3> QED
      BY <3>2, <3>3, <3>4
  <2>8. LineEnds(buffer', y', len2)
    <3>1. \A r \in 0 .. rows - 1 : r > y => len2[r] = 0
      BY <1>1, <1>2 DEF LineEnds
    <3> QED
      BY <2>3, <2>4, <2>7, <3>1 DEF LineEnds
  <2>9. len2[y'] = x'
    BY <1>2, <2>3
  <2>10. \A r \in 0 .. rows - 1 :
           TextOf(buffer', len2, r) = IF r = y THEN line ELSE TextOf(buffer, len, r)
    <3> SUFFICES ASSUME NEW r \in 0 .. rows - 1
                 PROVE  TextOf(buffer', len2, r) = IF r = y THEN line ELSE TextOf(buffer, len, r)
      OBVIOUS
    <3>1. CASE r = y
      <4>1. len2[r] = x + 1 /\ len[r] = x
        BY <1>1, <1>2, <3>1
      <4>2. \A k \in 1 .. x + 1 : k - 1 \in 0 .. columns - 1 /\ (k <= x <=> k - 1 # x)
        BY <1>2
      <4>3. \A k \in 1 .. x + 1 : buffer'[Offset(k - 1, y)] =
                                    IF k <= x THEN buffer[Offset(k - 1, y)] ELSE c
        BY <1>2, <2>5, <4>2
      <4>4. \A k \in 1 .. x + 1 : k <= x => TextOf(buffer, len, y)[k] = buffer[Offset(k - 1, y)]
        BY <1>2, <3>1, <4>1 DEF TextOf
      <4> HIDE DEF len2
      <4>5. TextOf(buffer', len2, y) = [k \in 1 .. x + 1 |-> buffer'[Offset(k - 1, y)]]
        BY <3>1, <4>1 DEF TextOf
      <4> QED
        BY <1>6, <3>1, <4>3, <4>4, <4>5
    <3>2. CASE r # y
      <4>1. len2[r] = len[r] /\ len[r] \in 0 .. columns - 1
        BY <1>2, <3>2
      <4>2. \A k \in 1 .. len[r] : k - 1 \in 0 .. columns - 1
        BY <4>1
      <4>3. \A k \in 1 .. len[r] : buffer'[Offset(k - 1, r)] = buffer[Offset(k - 1, r)]
        BY <2>5, <3>2, <4>2
      <4> HIDE DEF len2
      <4> QED
        BY <3>2, <4>1, <4>3, Zenon DEF TextOf
    <3> QED
      BY <3>1, <3>2
  <2> HIDE DEF len2
  <2>11. Shown' = Lines(buffer', y', len2)
    BY <1>2, <1>7, <1>9, <2>3, <2>8, ShownNextIs
  <2>12. Shown' = [Shown EXCEPT ![Len(Shown)] = line]
    <3>1. Shown' = [n \in 1 .. y + 1 |-> TextOf(buffer', len2, n - 1)]
      BY <2>3, <2>11, Zenon DEF Lines
    <3>2. Shown = [n \in 1 .. y + 1 |-> TextOf(buffer, len, n - 1)]
      BY <1>3, Zenon DEF Lines
    <3>3. \A n \in 1 .. y + 1 : /\ n - 1 \in 0 .. rows - 1
                                /\ n - 1 = y <=> n = y + 1
      BY <1>2
    <3>4. \A n \in 1 .. y + 1 : TextOf(buffer', len2, n - 1) =
                                  IF n = y + 1 THEN line ELSE TextOf(buffer, len, n - 1)
      BY <2>10, <3>3
    <3>5. [Shown EXCEPT ![y + 1] = line] =
            [n \in 1 .. y + 1 |-> IF n = y + 1 THEN line ELSE TextOf(buffer, len, n - 1)]
      BY <3>2
    <3> QED
      BY <1>4, <3>1, <3>4, <3>5
  <2>13. Screenful!Put(c)
    BY <1>5, <1>7, <1>9, <2>12 DEF Screenful!Put, line
  <2> QED
    BY <1>2, <1>7, <2>8, <2>9, <2>13 DEF Carries
<1> QED
  BY <1>8, <1>9

\* All but the last line; with another last line; without the first.
LEMMA FrontIs ==
  ASSUME NEW W, NEW s \in Seq(W), Len(s) > 0, NEW n, n = Len(s) - 1
  PROVE  Screenful!Front(s) = [k \in 1 .. n |-> s[k]]
<1>1. /\ Screenful!Front(s) \in Seq(W)
      /\ Len(Screenful!Front(s)) = Len(s) - 1
      /\ \A k \in 1 .. Len(s) - 1 : Screenful!Front(s)[k] = s[k]
  <2>1. Screenful!Front(s) = SubSeq(s, 1, Len(s) - 1)
    BY DEF Screenful!Front
  <2>2. \A k \in 1 .. Len(s) - 1 : s[k] \in W
    OBVIOUS
  <2>3. 1 \in Int /\ Len(s) - 1 \in Int
    OBVIOUS
  <2>4. /\ SubSeq(s, 1, Len(s) - 1) \in Seq(W)
        /\ Len(SubSeq(s, 1, Len(s) - 1)) = IF 1 <= Len(s) - 1 THEN Len(s) - 1 - 1 + 1 ELSE 0
        /\ \A k \in 1 .. Len(s) - 1 - 1 + 1 : SubSeq(s, 1, Len(s) - 1)[k] = s[1 + k - 1]
    BY <2>2, <2>3, SubSeqProperties
  <2>5. /\ Len(s) - 1 - 1 + 1 = Len(s) - 1
        /\ (IF 1 <= Len(s) - 1 THEN Len(s) - 1 - 1 + 1 ELSE 0) = Len(s) - 1
        /\ \A k \in 1 .. Len(s) - 1 : 1 + k - 1 = k
    OBVIOUS
  <2> QED
    BY <2>1, <2>4, <2>5
<1> DEFINE front == [k \in 1 .. n |-> s[k]]
<1>2. front \in Seq(W) /\ Len(front) = Len(s) - 1
  OBVIOUS
<1>3. \A k \in 1 .. Len(s) - 1 : front[k] = s[k]
  OBVIOUS
<1> HIDE DEF front
<1>4. Screenful!Front(s) = front
  BY <1>1, <1>2, <1>3, SeqEqual
<1> QED
  BY <1>4 DEF front

\* The state's lines as a sequence.
LEMMA ShownTyped ==
  ASSUME NEW len, LineEnds(buffer, y, len), ~torn, ~unset, y \in 0 .. rows - 1
  PROVE  /\ Shown = [n \in 1 .. y + 1 |-> TextOf(buffer, len, n - 1)]
         /\ Len(Shown) = y + 1 /\ Shown \in Seq(Seq(Vals(buffer)))
         /\ Screenful!Last(Shown) = TextOf(buffer, len, y)
         /\ TextOf(buffer, len, y) \in Seq(Vals(buffer))
         /\ Len(TextOf(buffer, len, y)) = len[y]
<1>1. Shown = Lines(buffer, y, len)
  BY ShownIs
<1>2. y + 1 \in 1 .. y + 1 /\ (y + 1) - 1 = y
  OBVIOUS
<1>3. /\ Lines(buffer, y, len) \in Seq(Seq(Vals(buffer)))
      /\ Len(Lines(buffer, y, len)) = y + 1
      /\ \A n \in 1 .. y + 1 : Lines(buffer, y, len)[n] = TextOf(buffer, len, n - 1)
  BY LinesTyped
<1>4. /\ Len(Shown) = y + 1 /\ Shown \in Seq(Seq(Vals(buffer)))
      /\ Shown[y + 1] = TextOf(buffer, len, y)
  BY <1>1, <1>2, <1>3
<1> QED
  BY <1>1, <1>4, LinesTyped DEF Lines, Screenful!Last

LEMMA NewlineLines ==
  ASSUME ScreenInv, ~torn, Newline
  PROVE  Carries(Screenful!Newline)
<1>1. PICK len : LineEnds(buffer, y, len) /\ len[y] = x
  BY DEF ScreenInv
<1>2. /\ ~unset /\ x \in Nat /\ y \in 0 .. rows - 1
      /\ len \in [0 .. rows - 1 -> 0 .. columns - 1]
      /\ unset' = unset /\ torn' = torn /\ MoveOrScroll(buffer, 0, y + 1)
  BY <1>1 DEF ScreenInv, CursorInv, LineEnds, Newline
<1>3. /\ Shown = [n \in 1 .. y + 1 |-> TextOf(buffer, len, n - 1)]
      /\ Len(Shown) = y + 1 /\ Shown \in Seq(Seq(Vals(buffer)))
  BY <1>1, <1>2, ShownTyped
<1> DEFINE V == Seq(Vals(buffer))
<1>4. <<>> \in V
  OBVIOUS
<1> HIDE DEF V
<1>5. Offset(0, y + 1) >= rows * columns <=> y + 1 = rows
  <2>1. Offset(0, y + 1) = (y + 1) * columns
    <3>1. (y + 1) * columns \in Nat
      BY <1>2, SMT
    <3> QED
      BY <3>1 DEF Offset
  <2>2. y + 1 # rows => (y + 2) * columns <= rows * columns
    BY <1>2, SMT
  <2>3. (y + 2) * columns = (y + 1) * columns + columns /\ rows * columns \in Nat
        /\ (y + 1) * columns \in Nat
    BY <1>2, SMT
  <2> QED
    BY <2>1, <2>2, <2>3
<1>6. CASE y + 1 # rows
  <2>1. buffer' = buffer /\ x' = 0 /\ y' = y + 1
    BY <1>2, <1>5, <1>6 DEF MoveOrScroll
  <2>2. y + 1 \in 0 .. rows - 1 /\ len[y + 1] = 0
    BY <1>1, <1>2, <1>6 DEF LineEnds
  <2>3. LineEnds(buffer, y + 1, len)
    BY <1>1, <1>2 DEF LineEnds
  <2>4. Shown' = Lines(buffer', y', len)
    BY <1>2, <2>1, <2>2, <2>3, ShownNextIs
  <2>5. TextOf(buffer, len, y + 1) = <<>>
    BY <2>2 DEF TextOf
  <2>6. Shown' = Append(Shown, <<>>)
    <3>1. Append(Shown, <<>>) = [n \in 1 .. y + 2 |-> IF n <= y + 1 THEN Shown[n] ELSE <<>>]
      <4>1. Shown \in Seq(V)
        BY <1>3 DEF V
      <4>2. (y + 1) + 1 = y + 2 /\ y + 1 = Len(Shown)
        BY <1>2, <1>3
      <4>3. Append(Shown, <<>>) = [n \in 1 .. (y + 1) + 1 |-> IF n <= y + 1 THEN Shown[n] ELSE <<>>]
        BY <1>4, <4>1, <4>2, LongerIs
      <4> QED
        BY <4>2, <4>3, Zenon
    <3>2. Shown' = [n \in 1 .. y + 2 |-> TextOf(buffer, len, n - 1)]
      BY <1>2, <2>1, <2>4 DEF Lines
    <3>3. \A n \in 1 .. y + 2 : n <= y + 1 => Shown[n] = TextOf(buffer, len, n - 1)
      BY <1>2, <1>3
    <3>4. \A n \in 1 .. y + 2 : ~(n <= y + 1) => n - 1 = y + 1
      BY <1>2
    <3> QED
      BY <2>5, <3>1, <3>2, <3>3, <3>4
  <2>7. Screenful!Newline
    BY <1>2, <1>3, <1>6, <2>6 DEF Screenful!Newline
  <2> QED
    BY <1>2, <2>1, <2>2, <2>3, <2>7 DEF Carries
<1>7. CASE y + 1 = rows
  <2>1. buffer' = Scrolled(buffer) /\ x' = 0 /\ y' = rows - 1 /\ y = rows - 1
    BY <1>2, <1>5, <1>7 DEF MoveOrScroll
  <2> DEFINE up == [r \in 0 .. rows - 1 |-> IF r = rows - 1 THEN 0 ELSE len[r + 1]]
  <2>2. /\ LineEnds(Scrolled(buffer), rows - 1, up)
        /\ \A r \in 0 .. rows - 2 : TextOf(Scrolled(buffer), up, r) = TextOf(buffer, len, r + 1)
    BY <1>1, <2>1, ScrolledEnds
  <2>3. up[rows - 1] = 0
    OBVIOUS
  <2> HIDE DEF up
  <2>4. Shown' = Lines(buffer', y', up)
    BY <1>2, <2>1, <2>2, LastRow, ShownNextIs
  <2>5. TextOf(Scrolled(buffer), up, rows - 1) = <<>>
    BY <2>3 DEF TextOf
  <2>6. Shown' = Append(Tail(Shown), <<>>)
    <3>1. Shown \in Seq(V) /\ Len(Shown) = rows
      BY <1>3, <1>7 DEF V
    <3>2. /\ Tail(Shown) \in Seq(V) /\ Len(Tail(Shown)) = rows - 1
          /\ \A n \in 1 .. rows - 1 : Tail(Shown)[n] = Shown[n + 1]
      BY <3>1
    <3>3. Append(Tail(Shown), <<>>) =
            [n \in 1 .. rows |-> IF n <= rows - 1 THEN Tail(Shown)[n] ELSE <<>>]
      <4> DEFINE rest == Tail(Shown)
      <4>1. PICK last : last = rows - 1
        OBVIOUS
      <4>2. last = Len(rest) /\ rest \in Seq(V) /\ last + 1 = rows
        BY <3>2, <4>1
      <4> HIDE DEF rest
      <4>3. Append(rest, <<>>) = [n \in 1 .. last + 1 |-> IF n <= last THEN rest[n] ELSE <<>>]
        BY <1>4, <4>2, LongerIs
      <4> QED
        BY <4>1, <4>2, <4>3, Zenon DEF rest
    <3>4. Shown' = [n \in 1 .. rows |-> TextOf(Scrolled(buffer), up, n - 1)]
      BY <2>1, <2>4 DEF Lines
    <3>5. \A n \in 1 .. rows - 1 : Tail(Shown)[n] = TextOf(Scrolled(buffer), up, n - 1)
      <4> SUFFICES ASSUME NEW n \in 1 .. rows - 1
                   PROVE  Tail(Shown)[n] = TextOf(Scrolled(buffer), up, n - 1)
        OBVIOUS
      <4>1. n + 1 \in 1 .. y + 1 /\ (n + 1) - 1 = n /\ n - 1 \in 0 .. rows - 2 /\ (n - 1) + 1 = n
        BY <2>1
      <4>2. Shown[n + 1] = TextOf(buffer, len, n)
        BY <1>3, <4>1
      <4>3. TextOf(Scrolled(buffer), up, n - 1) = TextOf(buffer, len, n)
        BY <2>2, <4>1
      <4> QED
        BY <3>2, <4>2, <4>3
    <3>6. \A n \in 1 .. rows : /\ n <= rows - 1 => n \in 1 .. rows - 1
                               /\ ~(n <= rows - 1) => n - 1 = rows - 1
      OBVIOUS
    <3> QED
      BY <2>5, <3>3, <3>4, <3>5, <3>6
  <2>7. Screenful!Newline
    BY <1>2, <1>3, <1>7, <2>6 DEF Screenful!Newline
  <2> QED
    BY <1>2, <2>1, <2>2, <2>3, <2>7 DEF Carries
<1> QED
  BY <1>6, <1>7

LEMMA JoinLines ==
  ASSUME ScreenInv, ~torn, Join
  PROVE  Carries(Screenful!Join)
<1>1. PICK len : LineEnds(buffer, y, len) /\ len[y] = x
  BY DEF ScreenInv
<1>2. /\ ~unset /\ x = 0 /\ y \in 0 .. rows - 1 /\ y > 0
      /\ len \in [0 .. rows - 1 -> 0 .. columns - 1]
      /\ torn' = torn /\ buffer' = buffer /\ y' = y - 1
      /\ y - 1 \in 0 .. rows - 1
  BY <1>1 DEF ScreenInv, CursorInv, LineEnds, Join
<1>3. /\ Shown = [n \in 1 .. y + 1 |-> TextOf(buffer, len, n - 1)]
      /\ Len(Shown) = y + 1 /\ Shown \in Seq(Seq(Vals(buffer)))
      /\ Screenful!Last(Shown) = TextOf(buffer, len, y)
      /\ Len(TextOf(buffer, len, y)) = 0
  BY <1>1, <1>2, ShownTyped
<1> DEFINE ends == {c \in 0 .. columns - 1 : buffer[Offset(c, y - 1)] = Empty}
<1>4. \A c \in 0 .. columns - 1 : buffer[Offset(c, y - 1)] = Empty <=> len[y - 1] <= c
  BY <1>1, <1>2 DEF LineEnds
<1>5. len[y - 1] \in 0 .. columns - 1
  BY <1>2
<1>6. len[y - 1] \in ends /\ \A c \in ends : len[y - 1] <= c
  <2>1. len[y - 1] <= len[y - 1]
    BY <1>5
  <2> QED
    BY <1>4, <1>5, <2>1
<1>7. x' = len[y - 1] /\ unset' = unset
  <2>1. PICK last \in ends : /\ \A c \in ends : last <= c
                             /\ x' = last /\ UNCHANGED unset
    BY <1>6 DEF Join
  <2>2. last <= len[y - 1] /\ len[y - 1] <= last /\ last \in 0 .. columns - 1
    BY <1>6, <2>1
  <2> QED
    BY <1>5, <2>1, <2>2
<1>8. LineEnds(buffer, y - 1, len)
  <2>1. \A r \in 0 .. rows - 1 : r > y - 1 => r > y \/ r = y
    BY <1>2
  <2> QED
    BY <1>1, <1>2, <2>1 DEF LineEnds
<1>9. Shown' = Lines(buffer', y', len)
  BY <1>2, <1>7, <1>8, ShownNextIs
<1>10. Shown' = Screenful!Front(Shown)
  <2>1. Screenful!Front(Shown) = [n \in 1 .. y |-> Shown[n]]
    <3> DEFINE V == Seq(Vals(buffer))
    <3>1. Len(Shown) > 0 /\ y = Len(Shown) - 1 /\ Shown \in Seq(V)
      BY <1>2, <1>3
    <3> HIDE DEF V
    <3> QED
      BY <3>1, FrontIs
  <2>2. Shown' = [n \in 1 .. y |-> TextOf(buffer, len, n - 1)]
    <3>1. (y - 1) + 1 = y
      BY <1>2
    <3> QED
      BY <1>2, <1>9, <3>1 DEF Lines
  <2>3. \A n \in 1 .. y : Shown[n] = TextOf(buffer, len, n - 1)
    BY <1>2, <1>3
  <2> QED
    BY <2>1, <2>2, <2>3
<1>11. TextOf(buffer, len, y) = <<>>
  BY <1>1, <1>2 DEF TextOf
<1>12. Screenful!Join
  <2>1. Len(Shown) > 1
    BY <1>2, <1>3
  <2> QED
    BY <1>2, <1>3, <1>10, <1>11, <2>1 DEF Screenful!Join
<1> QED
  BY <1>2, <1>7, <1>8, <1>12 DEF Carries

LEMMA EraseLines ==
  ASSUME ScreenInv, ~torn, Erase
  PROVE  Carries(Screenful!Erase)
<1>1. PICK len : LineEnds(buffer, y, len) /\ len[y] = x
  BY DEF ScreenInv
<1>2. /\ ~unset /\ y \in 0 .. rows - 1
      /\ len \in [0 .. rows - 1 -> 0 .. columns - 1]
      /\ torn' = torn /\ unset' = unset /\ y' = y /\ x' = x - 1 /\ x > 0
      /\ buffer' = [buffer EXCEPT ![Offset(x - 1, y)] = Empty]
  BY <1>1 DEF ScreenInv, CursorInv, LineEnds, Erase
<1>3. x \in 0 .. columns - 1 /\ x - 1 \in 0 .. columns - 1
  <2>1. len[y] \in 0 .. columns - 1
    BY <1>2
  <2> QED
    BY <1>1, <1>2, <2>1
<1> DEFINE text == TextOf(buffer, len, y)
<1>4. /\ Shown = [n \in 1 .. y + 1 |-> TextOf(buffer, len, n - 1)]
      /\ Len(Shown) = y + 1 /\ Shown \in Seq(Seq(Vals(buffer)))
      /\ Screenful!Last(Shown) = text
      /\ text \in Seq(Vals(buffer)) /\ Len(text) = x
  BY <1>1, <1>2, ShownTyped
<1> DEFINE len2 == [len EXCEPT ![y] = x - 1]
<1>5. len2 \in [0 .. rows - 1 -> 0 .. columns - 1]
  BY <1>2, <1>3
<1>6. \A r \in 0 .. rows - 1, k \in 0 .. columns - 1 :
        buffer'[Offset(k, r)] = IF r = y /\ k = x - 1 THEN Empty ELSE buffer[Offset(k, r)]
  <2>1. buffer = [o \in Cells |-> buffer[o]]
    BY DEF ScreenInv
  <2> QED
    BY <1>2, <1>3, <2>1, CellOf
<1>7. \A r \in 0 .. rows - 1, k \in 0 .. columns - 1 :
        buffer'[Offset(k, r)] = Empty <=> len2[r] <= k
  <2> SUFFICES ASSUME NEW r \in 0 .. rows - 1, NEW k \in 0 .. columns - 1
               PROVE  buffer'[Offset(k, r)] = Empty <=> len2[r] <= k
    OBVIOUS
  <2>1. buffer[Offset(k, r)] = Empty <=> len[r] <= k
    BY <1>1 DEF LineEnds
  <2>2. CASE r = y /\ k = x - 1
    BY <1>2, <1>3, <1>6, <2>2
  <2>3. CASE r = y /\ k # x - 1
    BY <1>1, <1>2, <1>3, <1>6, <2>1, <2>3
  <2>4. CASE r # y
    BY <1>2, <1>6, <2>1, <2>4
  <2> QED
    BY <2>2, <2>3, <2>4
<1>8. LineEnds(buffer', y', len2)
  <2>1. \A r \in 0 .. rows - 1 : r > y => len2[r] = 0
    BY <1>1, <1>2 DEF LineEnds
  <2> QED
    BY <1>2, <1>5, <1>7, <2>1 DEF LineEnds
<1>9. len2[y'] = x'
  BY <1>2
<1>10. \A r \in 0 .. rows - 1 :
         TextOf(buffer', len2, r) = IF r = y THEN Screenful!Front(text) ELSE TextOf(buffer, len, r)
  <2> SUFFICES ASSUME NEW r \in 0 .. rows - 1
               PROVE  TextOf(buffer', len2, r) =
                        IF r = y THEN Screenful!Front(text) ELSE TextOf(buffer, len, r)
    OBVIOUS
  <2>1. CASE r = y
    <3>1. Screenful!Front(text) = [k \in 1 .. x - 1 |-> text[k]]
      <4>1. Len(text) > 0 /\ x - 1 = Len(text) - 1
        BY <1>2, <1>4
      <4> QED
        BY <1>4, <4>1, FrontIs
    <3>2. \A k \in 1 .. x - 1 : k - 1 \in 0 .. columns - 1 /\ k - 1 # x - 1 /\ k \in 1 .. x
      BY <1>3
    <3>3. \A k \in 1 .. x - 1 : text[k] = buffer[Offset(k - 1, y)]
      BY <1>1, <3>2 DEF TextOf
    <3>4. \A k \in 1 .. x - 1 : buffer'[Offset(k - 1, y)] = buffer[Offset(k - 1, y)]
      BY <1>2, <1>6, <3>2
    <3>5. len2[r] = x - 1
      BY <1>2, <2>1
    <3> HIDE DEF len2, text
    <3>6. TextOf(buffer', len2, r) = [k \in 1 .. x - 1 |-> buffer'[Offset(k - 1, y)]]
      BY <2>1, <3>5 DEF TextOf
    <3> QED
      BY <2>1, <3>1, <3>3, <3>4, <3>6
  <2>2. CASE r # y
    <3>1. len2[r] = len[r] /\ len[r] \in 0 .. columns - 1
      BY <1>2, <2>2
    <3>2. \A k \in 1 .. len[r] : k - 1 \in 0 .. columns - 1
      BY <3>1
    <3>3. \A k \in 1 .. len[r] : buffer'[Offset(k - 1, r)] = buffer[Offset(k - 1, r)]
      BY <1>6, <2>2, <3>2
    <3> HIDE DEF len2, text
    <3> QED
      BY <2>2, <3>1, <3>3, Zenon DEF TextOf
  <2> QED
    BY <2>1, <2>2
<1> HIDE DEF len2, text
<1>11. Shown' = Lines(buffer', y', len2)
  BY <1>2, <1>8, ShownNextIs
<1>12. Shown' = [Shown EXCEPT ![Len(Shown)] = Screenful!Front(Shown[y + 1])]
  <2>1. Shown' = [n \in 1 .. y + 1 |-> TextOf(buffer', len2, n - 1)]
    BY <1>2, <1>11, Zenon DEF Lines
  <2>2. \A n \in 1 .. y + 1 : n - 1 \in 0 .. rows - 1 /\ (n - 1 = y <=> n = y + 1)
    BY <1>2
  <2>3. \A n \in 1 .. y + 1 : TextOf(buffer', len2, n - 1) =
                IF n = y + 1 THEN Screenful!Front(text) ELSE TextOf(buffer, len, n - 1)
    BY <1>10, <2>2
  <2>4. Shown[y + 1] = text
    BY <1>4 DEF Screenful!Last
  <2>5. [Shown EXCEPT ![y + 1] = Screenful!Front(text)] =
          [n \in 1 .. y + 1 |-> IF n = y + 1 THEN Screenful!Front(text) ELSE TextOf(buffer, len, n - 1)]
    BY <1>4
  <2> QED
    BY <1>4, <2>1, <2>3, <2>4, <2>5
<1>13. Screenful!Erase
  <2>1. text # <<>>
    BY <1>2, <1>4
  <2> QED
    BY <1>2, <1>4, <1>12, <2>1 DEF Screenful!Erase
<1> QED
  BY <1>2, <1>8, <1>9, <1>13 DEF Carries

\* A cleared screen shows one empty line.
LEMMA BlankLines ==
  ASSUME \A o \in Screen : buffer'[o] = Empty, x' = 0, y' = 0, ~unset', torn' = FALSE
  PROVE  Carries(Shown' = << <<>> >>)
<1> DEFINE len == [r \in 0 .. rows - 1 |-> 0]
<1>1. LineEnds(buffer', y', len)
  BY CellOf DEF LineEnds
<1>2. len[y'] = x'
  BY LastRow, FirstRow
<1>3. TextOf(buffer', len, 0) = <<>>
  BY <1>2 DEF TextOf
<1> HIDE DEF len
<1>4. Shown' = Lines(buffer', y', len)
  BY <1>1, FirstRow, ShownNextIs
<1>5. Shown' = [n \in 1 .. 1 |-> TextOf(buffer', len, n - 1)]
  BY <1>4 DEF Lines
<1>6. [n \in 1 .. 1 |-> TextOf(buffer', len, n - 1)] = << <<>> >>
  BY <1>3
<1> QED
  BY <1>1, <1>2, <1>5, <1>6 DEF Carries

LEMMA ScreenStep ==
  ASSUME ScreenInv, [Next]_vars
  PROVE  ScreenInv' /\ [Screenful!Next]_<<Shown, torn>>
<1>1. /\ CursorInv' /\ buffer' = [o \in Cells |-> buffer'[o]]
      /\ NoJunk' /\ torn' \in BOOLEAN
  BY BufferStep, CursorStep DEF ScreenInv
<1> SUFFICES Carries([Screenful!Next]_<<Shown, torn>>)
  BY <1>1 DEF ScreenInv, Carries
<1>2. CASE Clear
  <2>1. \A o \in Screen : o \in Cells
    <3>1. rows * columns <= (rows + 2) * columns /\ rows * columns \in Nat
          /\ (rows + 2) * columns \in Nat
      BY SMT
    <3> QED
      BY <3>1 DEF Screen, Cells
  <2>2. /\ \A o \in Screen : buffer'[o] = Empty
        /\ x' = 0 /\ y' = 0 /\ ~unset' /\ torn' = FALSE
    BY <1>2, <2>1 DEF Clear
  <2>3. Carries(Shown' = << <<>> >>)
    BY <2>2, BlankLines
  <2>4. Screenful!Clear
    BY <2>2, <2>3 DEF Carries, Screenful!Clear, Screenful!Blank
  <2> QED
    BY <2>3, <2>4 DEF Carries, Screenful!Next
<1>3. CASE UNCHANGED vars
  <2>1. Shown' = Shown /\ torn' = torn
    BY <1>3 DEF vars, Shown, Tidy, Row
  <2> QED
    BY <1>3, <2>1 DEF Carries, vars, ScreenInv
<1>4. CASE torn /\ (Newline \/ (\E c \in Chars : Put(c)) \/ Erase \/ Join)
  <2>1. torn' /\ torn = TRUE /\ torn' = TRUE
    BY <1>1, <1>4 DEF Newline, Put, Erase, Join, ScreenInv
  <2>2. Shown' = Shown /\ torn' = torn
    BY <1>4, <2>1 DEF Shown
  <2> QED
    BY <2>1, <2>2 DEF Carries
<1>5. CASE ~torn /\ Newline
  BY <1>5, NewlineLines DEF Carries, Screenful!Next
<1>6. ASSUME ~torn, NEW c \in Chars, Put(c)
      PROVE  Carries([Screenful!Next]_<<Shown, torn>>)
  BY <1>6, PutLines DEF Carries, Screenful!Next
<1>7. CASE ~torn /\ Erase
  BY <1>7, EraseLines DEF Carries, Screenful!Next
<1>8. CASE ~torn /\ Join
  BY <1>8, JoinLines DEF Carries, Screenful!Next
<1> QED
  BY <1>2, <1>3, <1>4, <1>5, <1>6, <1>7, <1>8 DEF Next

LEMMA ScreenInit == Init => ScreenInv /\ Shown = << <<>> >>
<1> SUFFICES ASSUME Init PROVE ScreenInv /\ Shown = << <<>> >>
  OBVIOUS
<1> DEFINE len == [r \in 0 .. rows - 1 |-> 0]
<1>1. /\ buffer = [o \in Cells |-> IF o \in Screen THEN Empty ELSE Junk]
      /\ x = 0 /\ y = 0 /\ torn = FALSE /\ unset = FALSE
  BY DEF Init
<1>2. Empty # Junk
  BY DEF Empty, Junk
<1>3. \A o \in Screen : o \in Cells
  <2>1. rows * columns <= (rows + 2) * columns /\ rows * columns \in Nat
        /\ (rows + 2) * columns \in Nat
    BY SMT
  <2> QED
    BY <2>1 DEF Screen, Cells
<1>4. \A o \in Screen : buffer[o] = Empty
  BY <1>1, <1>3
<1>5. LineEnds(buffer, y, len)
  BY <1>4, CellOf DEF LineEnds
<1>6. len[y] = x
  BY <1>1, FirstRow
<1>7. TextOf(buffer, len, 0) = <<>>
  BY <1>1, <1>6 DEF TextOf
<1> HIDE DEF len
<1>8. Shown = Lines(buffer, y, len)
  BY <1>1, <1>5, FirstRow, ShownIs
<1>9. Shown = [n \in 1 .. 1 |-> TextOf(buffer, len, n - 1)]
  BY <1>1, <1>8 DEF Lines
<1>10. [n \in 1 .. 1 |-> TextOf(buffer, len, n - 1)] = << <<>> >>
  BY <1>7
<1>11. NoJunk /\ buffer = [o \in Cells |-> buffer[o]]
  BY <1>1, <1>2, <1>4 DEF NoJunk
<1>12. ScreenInv
  BY <1>1, <1>5, <1>6, <1>11, CursorInit DEF ScreenInv
<1> QED
  BY <1>9, <1>10, <1>12

\* What is known of video memory between two characters, on a screen of any size.
THEOREM ScreenInvariant == Spec => []ScreenInv
<1>1. ScreenInv /\ [Next]_vars => ScreenInv'
  BY ScreenStep
<1> QED
  BY <1>1, ScreenInit, PTL DEF Spec

\* However long it is printed, what stands in video memory behind the screen is
\* never scrolled into view, although the scroll loop copies from there.
THEOREM ScreenClean == Spec => []NoJunk
<1>1. ScreenInv => NoJunk
  BY DEF ScreenInv
<1> QED
  BY <1>1, ScreenInvariant, PTL

\* As long as no line fills its row the screen is a terminal: it shows the last
\* lines of the text, backspaces included, and the column a backspace moves to is
\* never unset (ConsoleStream::write).
THEOREM ConsoleImplementsTerminal == Spec => ImplementsTerminal
<1>1. Init => Screenful!Init
  BY ScreenInit DEF Init, Screenful!Init, Screenful!Blank
<1>2. ScreenInv /\ [Next]_vars => [Screenful!Next]_<<Shown, torn>>
  BY ScreenStep
<1> QED
  BY <1>1, <1>2, ScreenInvariant, PTL DEF Spec, ImplementsTerminal, Screenful!Spec
=============================================================================
