---------------------------- MODULE LoaderProofs ----------------------------
(***************************************************************************)
(* Theorems about Loader, for every archive, every image and every size of *)
(* blocks and pages.                                                       *)
(***************************************************************************)
EXTENDS Loader, SequenceTheorems, FiniteSetTheorems, WellFoundedInduction, TLAPS

USE LoaderAssumption

Member == [name : Names, dir : BOOLEAN, size : Nat]
Phdr == [load : BOOLEAN, offset : Nat, vaddr : Nat, filesz : Nat, memsz : Nat]

\* What the boot loader has put into memory stays there.
Given ==
    /\ archive \in Seq(Member)
    /\ image \in [elf : BOOLEAN, phdrs : Seq(Phdr)]
    /\ \A k \in DOMAIN archive : InFile(archive[k])
    /\ end \in Nat /\ end % Page = 0 /\ runs \in 0 .. 2

-----------------------------------------------------------------------------
(* Induction over the natural numbers, for sets. *)

LEMMA LeastNumber ==
  ASSUME NEW T, T \subseteq Nat, T # {}
  PROVE  \E n \in T : \A m \in T : n <= m
<1> DEFINE R == OpToRel(<, Nat)
<1>1. IsWellFoundedOn(R, Nat)
  BY NatLessThanWellFounded, Zenon
<1>2. \A n \in Nat, m \in Nat : m < n => <<m, n>> \in R
  BY Zenon DEF OpToRel
<1> HIDE DEF R
<1>3. PICK n \in T : \A m \in T : ~ (<<m, n>> \in R)
  BY <1>1, WFMin
<1>4. ASSUME NEW m \in T PROVE n <= m
  <2>1. n \in Nat /\ m \in Nat
    OBVIOUS
  <2>2. ~(m < n)
    BY <1>2, <1>3, <2>1, Zenon
  <2> QED
    BY <2>1, <2>2
<1> QED
  BY <1>4

LEMMA Induction ==
  ASSUME NEW S, 0 \in S, \A n \in Nat : n \in S => n + 1 \in S
  PROVE  Nat \subseteq S
<1> DEFINE T == Nat \ S
<1>1. CASE T # {}
  <2>1. PICK n \in T : \A m \in T : n <= m
    BY <1>1, LeastNumber
  <2>2. n - 1 \in Nat /\ n - 1 \notin T
    BY <2>1
  <2> QED
    BY <2>1, <2>2
<1> QED
  BY <1>1

-----------------------------------------------------------------------------
(* Numbers. *)

\* Up rounds up, by less than a unit.
LEMMA UpIs ==
  ASSUME NEW n \in Int, NEW unit \in Nat \ {0}
  PROVE  \E q \in Int : /\ Up(n, unit) = q * unit
                        /\ n <= Up(n, unit) /\ Up(n, unit) < n + unit
<1> DEFINE q == (n + unit - 1) \div unit
<1>1. q \in Int /\ q * unit <= n + unit - 1 /\ n + unit - 1 < q * unit + unit
  BY SMT
<1>2. q * unit \in Int
  BY <1>1, SMT
<1>3. Up(n, unit) = q * unit
  BY DEF Up
<1> HIDE DEF q
<1>4. PICK qu \in Int : q * unit = qu
  BY <1>2
<1>5. n <= qu /\ qu < n + unit
  <2>1. qu <= n + unit - 1 /\ n + unit - 1 < qu + unit /\ unit \in Int
    BY <1>1, <1>4
  <2> QED
    BY <2>1
<1> QED
  BY <1>1, <1>3, <1>4, <1>5

\* Pages: multiples of Page are in the order of their factors.
LEMMA Mul ==
  ASSUME NEW a \in Int, NEW b \in Int
  PROVE  /\ a * Page \in Int /\ b * Page \in Int
         /\ a < b <=> a * Page < b * Page
         /\ a <= b <=> a * Page <= b * Page
         /\ (a - b) * Page = a * Page - b * Page
         /\ (a + b) * Page = a * Page + b * Page
         /\ (a + 1) * Page = a * Page + Page
         /\ a >= 0 => a <= a * Page
<1>1. Page \in Nat /\ Page >= 1
  OBVIOUS
<1>2. /\ a * Page \in Int /\ b * Page \in Int
      /\ (a - b) * Page = a * Page - b * Page
      /\ (a + b) * Page = a * Page + b * Page
      /\ (a + 1) * Page = a * Page + Page
  BY <1>1, SMT
<1>3. a < b => a * Page < b * Page
  BY <1>1, SMT
<1>4. b < a => b * Page < a * Page
  BY <1>1, SMT
<1>5. a >= 0 => a <= a * Page
  BY <1>1, SMT
<1>6. a = b \/ a < b \/ b < a
  OBVIOUS
<1> QED
  BY <1>2, <1>3, <1>4, <1>5, <1>6

LEMMA Div ==
  ASSUME NEW v \in Nat
  PROVE  \E q \in Nat, r \in 0 .. Page - 1 :
            /\ v \div Page = q /\ v % Page = r /\ v = q * Page + r
            /\ q * Page \in Nat /\ (q + 1) * Page = q * Page + Page
<1> DEFINE q == v \div Page
           r == v % Page
<1>1. q \in Nat /\ r \in 0 .. Page - 1 /\ v = q * Page + r
  BY SMT
<1> HIDE DEF q, r
<1>2. q * Page \in Nat /\ (q + 1) * Page = q * Page + Page
  BY <1>1, SMT
<1> QED
  BY <1>1, <1>2 DEF q, r

LEMMA PageOf ==
  ASSUME NEW v \in Nat, NEW p \in Int, p * Page <= v, v < (p + 1) * Page
  PROVE  v \div Page = p /\ v % Page = v - p * Page
<1>1. PICK q \in Nat, r \in 0 .. Page - 1 :
            /\ v \div Page = q /\ v % Page = r /\ v = q * Page + r
            /\ q * Page \in Nat /\ (q + 1) * Page = q * Page + Page
  BY Div
<1>2. p * Page < (q + 1) * Page /\ q * Page < (p + 1) * Page
  BY <1>1, Mul
<1>3. p < q + 1
  BY <1>2, Mul
<1>4. q < p + 1
  BY <1>2, Mul
<1>5. p = q
  BY <1>3, <1>4
<1> QED
  BY <1>1, <1>5

-----------------------------------------------------------------------------
(* Where the members of the archive lie. *)

Sums(s, f) == f = [k \in 0 .. Len(s) |-> IF k = 0 THEN 0 ELSE f[k - 1] + Extent(s[k])]

\* The sums of the first n members only.
SumsTo(s, n, f) == f = [k \in 0 .. n |-> IF k = 0 THEN 0 ELSE f[k - 1] + Extent(s[k])]

LEMMA SumsExist ==
  ASSUME NEW s, NEW n \in Nat
  PROVE  \E f : SumsTo(s, n, f)
<1> DEFINE S == {m \in Nat : \E f : SumsTo(s, m, f)}
<1>1. 0 \in S
  <2> DEFINE f == [k \in 0 .. 0 |-> 0]
  <2>1. SumsTo(s, 0, f)
    BY DEF SumsTo
  <2> QED
    BY <2>1, Zenon
<1>2. ASSUME NEW m \in Nat, m \in S
      PROVE  m + 1 \in S
  <2>1. PICK f : SumsTo(s, m, f)
    BY <1>2
  <2> DEFINE g == [k \in 0 .. m + 1 |-> IF k <= m THEN f[k] ELSE f[m] + Extent(s[m + 1])]
  <2>2. ASSUME NEW k \in 0 .. m + 1
        PROVE  g[k] = IF k = 0 THEN 0 ELSE g[k - 1] + Extent(s[k])
    <3>1. CASE k = 0
      BY <2>1, <3>1 DEF SumsTo
    <3>2. CASE k # 0 /\ k <= m
      BY <2>1, <3>2 DEF SumsTo
    <3>3. CASE k = m + 1
      BY <2>1, <3>3 DEF SumsTo
    <3> QED
      BY <3>1, <3>2, <3>3
  <2> HIDE DEF g
  <2>3. SumsTo(s, m + 1, g)
    BY <2>2 DEF SumsTo, g
  <2>4. \E h : SumsTo(s, m + 1, h)
    BY <2>3, Zenon
  <2> QED
    BY <2>4
<1> HIDE DEF S
<1>3. Nat \subseteq S
  BY <1>1, <1>2, Induction
<1> QED
  BY <1>3 DEF S

\* The sums of a prefix are the sums of the whole.
LEMMA SumsAgree ==
  ASSUME NEW s, NEW t, NEW n \in Nat, NEW N \in Nat, n <= N,
         NEW f, SumsTo(s, n, f), NEW g, SumsTo(t, N, g),
         \A k \in 1 .. n : s[k] = t[k]
  PROVE  f[n] = g[n]
<1> DEFINE S == {m \in Nat : m <= n => f[m] = g[m]}
<1>1. 0 \in S
  BY DEF SumsTo
<1>2. ASSUME NEW m \in Nat, m \in S
      PROVE  m + 1 \in S
  <2> SUFFICES ASSUME m + 1 <= n PROVE f[m + 1] = g[m + 1]
    OBVIOUS
  <2>1. f[m + 1] = f[m] + Extent(s[m + 1]) /\ g[m + 1] = g[m] + Extent(t[m + 1])
    BY DEF SumsTo
  <2>2. f[m] = g[m] /\ s[m + 1] = t[m + 1]
    BY <1>2
  <2> QED
    BY <2>1, <2>2
<1> HIDE DEF S
<1>3. Nat \subseteq S
  BY <1>1, <1>2, Induction
<1> QED
  BY <1>3 DEF S

LEMMA ExtentIs ==
  ASSUME NEW m \in Member
  PROVE  Extent(m) \in Nat /\ Extent(m) >= m.size + Block
<1>1. m.size \in Nat
  BY DEF Member
<1>2. PICK q \in Int : Up(m.size, Block) = q * Block /\ m.size <= Up(m.size, Block)
  <2>1. m.size \in Int /\ Block \in Nat \ {0}
    BY <1>1
  <2> QED
    BY <2>1, UpIs
<1>3. q * Block \in Int
  BY <1>2
<1> QED
  BY <1>1, <1>2, <1>3 DEF Extent

LEMMA AtIs ==
  ASSUME archive \in Seq(Member), NEW g, SumsTo(archive, Len(archive), g),
         NEW k \in 1 .. Len(archive) + 1
  PROVE  At(k) = g[k - 1]
<1> DEFINE s == SubSeq(archive, 1, k - 1)
<1>1. Len(s) = k - 1 /\ \A j \in 1 .. k - 1 : s[j] = archive[j]
  <2>1. \A j \in 1 .. k - 1 : archive[j] \in Member
    OBVIOUS
  <2> QED
    BY <2>1, SubSeqProperties
<1> HIDE DEF s
<1> DEFINE f == CHOOSE f : f = [j \in 0 .. Len(s) |-> IF j = 0 THEN 0 ELSE f[j - 1] + Extent(s[j])]
<1>2. At(k) = f[Len(s)]
  BY Zenon DEF At, SumOver, s
<1>3. SumsTo(s, Len(s), f)
  <2>0. Len(s) \in Nat
    BY <1>1
  <2>1. \E h : SumsTo(s, Len(s), h)
    BY <2>0, SumsExist, Zenon
  <2> QED
    BY <2>1, Zenon DEF SumsTo
<1> HIDE DEF f
<1>4. f[k - 1] = g[k - 1]
  <2>1. PICK n \in Nat, N \in Nat : n = k - 1 /\ N = Len(archive) /\ n <= N
    <3>1. k - 1 \in Nat /\ Len(archive) \in Nat /\ k - 1 <= Len(archive)
      OBVIOUS
    <3> QED
      BY <3>1
  <2>2. SumsTo(s, n, f) /\ SumsTo(archive, N, g) /\ \A j \in 1 .. n : s[j] = archive[j]
    BY <1>1, <1>3, <2>1
  <2>3. f[n] = g[n]
    BY <2>1, <2>2, SumsAgree
  <2> QED
    BY <2>1, <2>3
<1> QED
  BY <1>1, <1>2, <1>4

\* Every member lies behind those before it.
LEMMA Places ==
  ASSUME archive \in Seq(Member)
  PROVE  /\ \A k \in 1 .. Len(archive) + 1 : At(k) \in Nat
         /\ \A k \in 1 .. Len(archive) : At(k) + archive[k].size + Block <= At(Len(archive) + 1)
         /\ \A k \in 1 .. Len(archive) + 1 : At(k) <= At(Len(archive) + 1)
<1>0. Len(archive) \in Nat
  OBVIOUS
<1>1. PICK g : SumsTo(archive, Len(archive), g)
  BY <1>0, SumsExist, Zenon
<1> DEFINE N == Len(archive)
           S == {n \in Nat : n <= N => /\ g[n] \in Nat
                                       /\ \A k \in 1 .. n : g[k - 1] + archive[k].size + Block <= g[n]
                                       /\ \A k \in 0 .. n : g[k] \in Nat /\ g[k] <= g[n]}
<1>2. N \in Nat /\ \A k \in 1 .. N : archive[k] \in Member /\ archive[k].size \in Nat
  <2>1. \A k \in 1 .. N : archive[k] \in Member
    OBVIOUS
  <2>2. \A m \in Member : m.size \in Nat
    BY DEF Member
  <2> QED
    BY <2>1, <2>2
<1>3. 0 \in S
  BY <1>1 DEF SumsTo
<1>4. ASSUME NEW n \in Nat, n \in S
      PROVE  n + 1 \in S
  <2> SUFFICES ASSUME n + 1 <= N
               PROVE  /\ g[n + 1] \in Nat
                      /\ \A k \in 1 .. n + 1 : g[k - 1] + archive[k].size + Block <= g[n + 1]
                      /\ \A k \in 0 .. n + 1 : g[k] \in Nat /\ g[k] <= g[n + 1]
    OBVIOUS
  <2>1. g[n + 1] = g[n] + Extent(archive[n + 1])
    BY <1>1 DEF SumsTo
  <2>2. Extent(archive[n + 1]) \in Nat /\ Extent(archive[n + 1]) >= archive[n + 1].size + Block
        /\ archive[n + 1].size \in Nat
    BY <1>2, ExtentIs
  <2>3. /\ g[n] \in Nat
        /\ \A k \in 1 .. n : g[k - 1] + archive[k].size + Block <= g[n]
        /\ \A k \in 0 .. n : g[k] \in Nat /\ g[k] <= g[n]
    BY <1>4
  <2>4. g[n + 1] \in Nat /\ g[n] <= g[n + 1] /\ g[n] + archive[n + 1].size + Block <= g[n + 1]
    BY <2>1, <2>2, <2>3
  <2>5. ASSUME NEW k \in 1 .. n + 1
        PROVE  g[k - 1] + archive[k].size + Block <= g[n + 1]
    <3>1. CASE k = n + 1
      BY <2>4, <3>1
    <3>2. CASE k \in 1 .. n
      <4>1. archive[k].size \in Nat /\ g[k - 1] \in Nat
        BY <1>2, <2>3, <3>2
      <4>2. PICK x \in Nat : x = g[k - 1] + archive[k].size + Block
        BY <4>1
      <4>3. x <= g[n] /\ g[n] \in Nat
        BY <2>3, <3>2, <4>2
      <4> QED
        BY <2>4, <4>2, <4>3
    <3> QED
      BY <3>1, <3>2
  <2>6. \A k \in 0 .. n + 1 : g[k] \in Nat /\ g[k] <= g[n + 1]
    BY <2>3, <2>4
  <2> QED
    BY <2>4, <2>5, <2>6
<1> HIDE DEF S
<1>5. Nat \subseteq S
  BY <1>3, <1>4, Induction
<1>6. /\ g[N] \in Nat
      /\ \A k \in 1 .. N : g[k - 1] + archive[k].size + Block <= g[N]
      /\ \A k \in 0 .. N : g[k] \in Nat /\ g[k] <= g[N]
  <2>1. N \in S
    BY <1>2, <1>5
  <2>2. N \in Nat /\ N <= N
    BY <1>2
  <2>3. N <= N => /\ g[N] \in Nat
                  /\ \A k \in 1 .. N : g[k - 1] + archive[k].size + Block <= g[N]
                  /\ \A k \in 0 .. N : g[k] \in Nat /\ g[k] <= g[N]
    <3> HIDE DEF N
    <3> QED
      BY <2>1 DEF S
  <2> QED
    BY <2>2, <2>3, Zenon
<1>7. \A k \in 1 .. N + 1 : At(k) = g[k - 1] /\ g[k - 1] \in Nat
  <2> SUFFICES ASSUME NEW k \in 1 .. N + 1 PROVE At(k) = g[k - 1] /\ g[k - 1] \in Nat
    OBVIOUS
  <2>1. k - 1 \in 0 .. N
    BY <1>2
  <2>2. At(k) = g[k - 1]
    BY <1>1, AtIs
  <2> QED
    BY <1>6, <2>1, <2>2
<1>8. At(N + 1) = g[N] /\ N + 1 \in 1 .. N + 1
  <2>1. N + 1 \in 1 .. N + 1 /\ (N + 1) - 1 = N
    BY <1>2
  <2> QED
    BY <1>7, <2>1
<1>9. ASSUME NEW k \in 1 .. N
      PROVE  At(k) + archive[k].size + Block <= At(N + 1)
  <2>1. g[k - 1] + archive[k].size + Block <= g[N]
    BY <1>6
  <2>2. At(k) = g[k - 1]
    BY <1>2, <1>7
  <2> QED
    BY <1>8, <2>1, <2>2
<1>10. ASSUME NEW k \in 1 .. N + 1
       PROVE  At(k) <= At(N + 1)
  <2>1. k - 1 \in 0 .. N
    BY <1>2
  <2> QED
    BY <1>6, <1>7, <1>8, <2>1
<1> QED
  BY <1>7, <1>9, <1>10

-----------------------------------------------------------------------------
(* What becomes of the load. *)

\* UserHeap begins at kernel_pg_end.
LEMMA Untouched ==
  ASSUME NEW bytes, bytes \subseteq Int, end \in Nat, \A a \in bytes : a < end,
         NEW n \in 1 .. 2
  PROVE  ~Clobbered(bytes, n)
<1> SUFFICES ASSUME NEW c \in 1 .. n, NEW a \in bytes, a - end \in Touched[c]
             PROVE  FALSE
  BY DEF Clobbered
<1>1. Touched[c] \subseteq Nat
  <2>1. c \in 1 .. 2
    OBVIOUS
  <2> QED
    BY <2>1
<1>2. a - end \in Nat /\ a \in Int /\ a < end
  BY <1>1
<1> QED
  BY <1>2

\* The walk ends somewhere; if all is mapped and UserHeap lies behind it, at
\* the end of the archive.
LEMMA StopIs ==
  ASSUME archive \in Seq(Member), end \in Nat
  PROVE  /\ Stop \in 1 .. Len(archive) + 1
         /\ Within => Stop = Len(archive) + 1 /\ Mapped(At(Stop))
<1> DEFINE N == Len(archive)
           ends(j) == j = N + 1 \/ ~Mapped(At(j)) \/ Clobbered(Header(j), 1)
           T == {j \in 1 .. N + 1 : ends(j)}
<1>1. N \in Nat /\ T \subseteq Nat /\ N + 1 \in T
  OBVIOUS
<1>2. PICK n \in T : \A m \in T : n <= m
  BY <1>1, LeastNumber
<1>3. n \in 1 .. N + 1 /\ ends(n) /\ \A j \in 1 .. n - 1 : ~ends(j)
  BY <1>1, <1>2
<1>4. Stop = CHOOSE k \in 1 .. N + 1 : ends(k) /\ \A j \in 1 .. k - 1 : ~ends(j)
  BY Zenon DEF Stop
<1> HIDE DEF ends
<1>5. Stop \in 1 .. N + 1 /\ ends(Stop)
  BY <1>3, <1>4
<1>6. ASSUME Within PROVE Stop = N + 1 /\ Mapped(At(Stop))
  <2>1. \A k \in 1 .. N + 1 : At(k) \in Nat /\ At(k) <= At(N + 1)
    BY Places
  <2>2. At(N + 1) \in Nat /\ At(N + 1) + Block <= end
    BY <1>1, <1>6, <2>1 DEF Within
  <2>3. At(Stop) \in Nat /\ At(Stop) + Block <= end
    BY <1>5, <2>1, <2>2
  <2>4. Mapped(At(Stop)) /\ ~Clobbered(Header(Stop), 1)
    <3>1. Header(Stop) \subseteq Int /\ \A a \in Header(Stop) : a < end
      BY <2>3 DEF Header
    <3>2. ~Clobbered(Header(Stop), 1)
      BY <3>1, Untouched
    <3> QED
      BY <2>3, <3>2 DEF Mapped
  <2> QED
    BY <1>5, <2>4 DEF ends
<1> QED
  BY <1>5, <1>6

\* tar_fopen and tar_ftell look for the first member that passes their test.
IsFirst(found, n) ==
    IF found = {} THEN n = Null ELSE n \in found /\ \A j \in found : n <= j

Files == {k \in 1 .. Stop - 1 : IsFile(archive[k])}
Named == {k \in 1 .. Stop - 1 : HasName(archive[k])}

LEMMA FirstIs ==
  ASSUME archive \in Seq(Member), end \in Nat
  PROVE  IsFirst(Files, First(IsFile)) /\ IsFirst(Named, First(HasName))
<1>1. Stop \in Nat
  BY StopIs
<1>2. Files \subseteq Nat /\ Named \subseteq Nat
  BY <1>1 DEF Files, Named
<1>3. /\ First(IsFile) = IF Files = {} THEN Null
                         ELSE CHOOSE k \in Files : \A j \in Files : k <= j
      /\ First(HasName) = IF Named = {} THEN Null
                          ELSE CHOOSE k \in Named : \A j \in Named : k <= j
  BY Zenon DEF First, Files, Named
<1>4. Files # {} => \E k \in Files : \A j \in Files : k <= j
  BY <1>2, LeastNumber
<1>5. Named # {} => \E k \in Named : \A j \in Named : k <= j
  BY <1>2, LeastNumber
<1> QED
  BY <1>3, <1>4, <1>5, Zenon DEF IsFirst

NoFile == \A k \in DOMAIN archive : archive[k].dir \/ archive[k].name # Kern

FoundInv ==
    /\ Given
    /\ data # Null => data \in DOMAIN archive /\ IsFile(archive[data])
    /\ pc \in {"elf32_load", "null process"} /\ data = Null /\ Within => NoFile
    /\ pc \in {"create", "calloc", "segments", "run"} => data # Null /\ image.elf
    /\ i \in Nat /\ full \in BOOLEAN
    /\ pc = "fault" => \/ ~Within \/ Starved
                       \/ \E k \in Segments : Segment(k).vaddr % Page # 0
    /\ pc = "damaged" => ~Within
    /\ pc = "null process" => ~image.elf \/ data = Null
    /\ pc \in {"calloc", "segments", "run"} /\ proc = Null => runs < 2
    /\ pc = "for ever" => size % 2 = 1 \/ \E k \in Segments : Segment(k).filesz % 2 = 1
    /\ pc = "remapped" =>
         \E k \in Segments : Segment(k).filesz > 0 /\ Segment(k).vaddr < end

LEMMA FoundInit == LInit => FoundInv
<1> SUFFICES ASSUME LInit PROVE FoundInv
  OBVIOUS
<1>1. Given
  BY DEF LInit, Given, Member, Phdr
<1> QED
  BY <1>1 DEF LInit, FoundInv, Null

LEMMA PhdrIs ==
  ASSUME Given, NEW k \in DOMAIN image.phdrs
  PROVE  /\ Segment(k) \in Phdr /\ Segment(k).load \in BOOLEAN
         /\ Segment(k).offset \in Nat /\ Segment(k).vaddr \in Nat
         /\ Segment(k).filesz \in Nat /\ Segment(k).memsz \in Nat
<1>1. image.phdrs \in Seq(Phdr)
  BY DEF Given
<1>2. Segment(k) \in Phdr
  BY <1>1 DEF Segment
<1> QED
  BY <1>2 DEF Phdr

LEMMA MemberIs ==
  ASSUME Given, NEW k \in DOMAIN archive
  PROVE  /\ archive[k] \in Member /\ archive[k].size \in Nat
         /\ k \in 1 .. Len(archive) /\ k \in Nat /\ k # Null
         /\ Len(archive) \in Nat
<1>1. archive \in Seq(Member)
  BY DEF Given
<1>2. archive[k] \in Member /\ k \in 1 .. Len(archive) /\ Len(archive) \in Nat
  BY <1>1
<1> QED
  BY <1>2 DEF Member, Null

\* A segment of the file lies in the archive.
LEMMA SegmentLies ==
  ASSUME Given, NEW m \in DOMAIN archive, IsFile(archive[m]), image.elf,
         NEW k \in DOMAIN image.phdrs
  PROVE  /\ At(m) \in Nat /\ At(Len(archive) + 1) \in Nat
         /\ At(m) + Block + Segment(k).offset + Segment(k).filesz <= At(Len(archive) + 1)
<1>1. Segment(k).offset + Segment(k).filesz <= archive[m].size
  BY DEF Given, InFile, IsFile, Segment
<1>2. /\ m \in 1 .. Len(archive) /\ m \in 1 .. Len(archive) + 1 /\ Len(archive) \in Nat
      /\ Len(archive) + 1 \in 1 .. Len(archive) + 1 /\ archive[m].size \in Nat
  BY MemberIs
<1>3. archive \in Seq(Member)
  BY DEF Given
<1>4. /\ At(m) \in Nat /\ At(Len(archive) + 1) \in Nat
      /\ At(m) + archive[m].size + Block <= At(Len(archive) + 1)
  BY <1>2, <1>3, Places
<1> QED
  BY <1>1, <1>2, <1>4, PhdrIs

\* The pages of an aligned segment's part of the file hold all its bytes.
LEMMA AlignedPages ==
  ASSUME NEW h \in Phdr, h.vaddr % Page = 0, NEW v \in Bytes(h)
  PROVE  \E n \in Pages(h) : v \div Page = h.vaddr \div Page + n
<1>1. h.vaddr \in Nat /\ h.filesz \in Nat
  BY DEF Phdr
<1>2. v \in Nat /\ h.vaddr <= v /\ v < h.vaddr + h.filesz
  BY <1>1 DEF Bytes
<1>3. PICK q \in Nat, r \in 0 .. Page - 1 :
            /\ v \div Page = q /\ v % Page = r /\ v = q * Page + r
            /\ q * Page \in Nat /\ (q + 1) * Page = q * Page + Page
  BY <1>2, Div
<1>4. PICK first \in Nat, z \in 0 .. Page - 1 :
            /\ h.vaddr \div Page = first /\ h.vaddr % Page = z /\ h.vaddr = first * Page + z
            /\ first * Page \in Nat /\ (first + 1) * Page = first * Page + Page
  BY <1>1, Div
<1>5. h.vaddr = first * Page
  BY <1>1, <1>4
<1>6. first < q + 1
  <2>1. PICK fp \in Nat, qp \in Nat, pg \in Nat :
           fp = first * Page /\ qp = q * Page /\ pg = Page
    BY <1>3, <1>4, LoaderAssumption
  <2>2. v < qp + pg /\ (q + 1) * Page = qp + pg
    BY <1>3, <2>1
  <2>3. fp <= v /\ v \in Nat
    BY <1>2, <1>5, <2>1
  <2>4. fp < qp + pg
    BY <2>2, <2>3
  <2>5. first * Page < (q + 1) * Page
    BY <2>1, <2>2, <2>4
  <2> QED
    BY <2>5, Mul
<1>7. q - first \in Nat /\ (q - first) * Page = q * Page - first * Page
      /\ q - first <= (q - first) * Page
  BY <1>6, Mul
<1>8. (q - first) * Page < h.filesz
  <2>1. q * Page <= v
    BY <1>2, <1>3
  <2>2. \A a, b \in Nat : a <= v /\ h.vaddr = b => a - b < h.filesz
    BY <1>1, <1>2
  <2> QED
    BY <1>3, <1>4, <1>5, <1>7, <2>1, <2>2
<1>9. q - first \in Pages(h)
  BY <1>1, <1>7, <1>8 DEF Pages
<1> QED
  BY <1>3, <1>4, <1>9

LEMMA GivenFixed ==
  ASSUME UNCHANGED <<archive, image, end, runs>>
  PROVE  /\ (Given' <=> Given) /\ (Within' <=> Within) /\ (NoFile' <=> NoFile)
         /\ Segments' = Segments /\ \A k : Segment(k)' = Segment(k)
<1>1. At(Len(archive) + 1)' = At(Len(archive) + 1)
  BY DEF At
<1> QED
  BY <1>1 DEF Given, InFile, Within, NoFile, Segments, Segment

LEMMA PagesFixed ==
  ASSUME UNCHANGED <<image, end>>
  PROVE  /\ Segments' = Segments /\ \A k : PagesAt(Segment(k))' = PagesAt(Segment(k))
         /\ \A p : Slot(p)' = Slot(p)
  BY DEF Segments, Segment, PagesAt, Pages, Slot

LEMMA FoundFind == ASSUME FoundInv, Find PROVE FoundInv'
<1>1. archive \in Seq(Member) /\ end \in Nat /\ Len(archive) \in Nat
      /\ DOMAIN archive = 1 .. Len(archive)
  <2>1. archive \in Seq(Member) /\ end \in Nat
    BY DEF FoundInv, Given
  <2> QED
    BY <2>1
<1>2. IsFirst(Files, data')
  BY <1>1, FirstIs DEF Find
<1>3. /\ Stop \in 1 .. Len(archive) + 1
      /\ Within => Stop = Len(archive) + 1 /\ Mapped(At(Stop))
  BY <1>1, StopIs
<1>4. data' # Null => data' \in DOMAIN archive /\ IsFile(archive[data'])
  BY <1>1, <1>2, <1>3 DEF IsFirst, Files
<1>5. data' = Null /\ Within => NoFile
  <2> SUFFICES ASSUME data' = Null, Within, NEW k \in DOMAIN archive
               PROVE  archive[k].dir \/ archive[k].name # Kern
    BY DEF NoFile
  <2>1. k \in 1 .. Stop - 1
    BY <1>1, <1>3
  <2>2. Files = {}
    BY <1>2, <1>1, <1>3 DEF IsFirst, Files, Null
  <2> QED
    BY <2>1, <2>2 DEF Files, IsFile
<1>6. pc' \in {"fault", "elf32_load"} /\ (pc' = "fault" => ~Within)
  BY <1>3 DEF Find
<1>7. UNCHANGED <<archive, image, end, runs, i, full>>
  BY DEF Find, boot
<1> QED
  BY <1>4, <1>5, <1>6, <1>7, GivenFixed DEF FoundInv

\* Where the file's headers are.
LEMMA FrontLies ==
  ASSUME Given, data \in DOMAIN archive, Within
  PROVE  Mapped(File) /\ \A n \in 1 .. 2 : ~Clobbered(Front, n)
<1>1. archive \in Seq(Member) /\ end \in Nat
  BY DEF Given
<1>2. /\ data \in 1 .. Len(archive) /\ data \in 1 .. Len(archive) + 1
      /\ Len(archive) + 1 \in 1 .. Len(archive) + 1 /\ archive[data].size \in Nat
  BY MemberIs
<1>3. /\ At(data) \in Nat /\ At(Len(archive) + 1) \in Nat
      /\ At(data) + archive[data].size + Block <= At(Len(archive) + 1)
  BY <1>1, <1>2, Places
<1>4. File \in Nat /\ File + Block <= end
  BY <1>1, <1>2, <1>3 DEF File, Within
<1>5. Mapped(File)
  BY <1>1, <1>4 DEF Mapped
<1>6. Front \subseteq Int /\ \A a \in Front : a < end
  BY <1>1, <1>4 DEF Front
<1> QED
  BY <1>1, <1>5, <1>6, Untouched

LEMMA FoundReadHeader == ASSUME FoundInv, ReadHeader PROVE FoundInv'
<1>1. UNCHANGED <<archive, image, end, runs, data, size, i, full>> /\ pc = "elf32_load"
  BY DEF ReadHeader, boot
<1>2. CASE data = Null
  <2>1. pc' = "null process"
    BY <1>2 DEF ReadHeader
  <2> QED
    BY <1>1, <1>2, <2>1, GivenFixed DEF FoundInv
<1>3. CASE data # Null
  <2>1. Given /\ data \in DOMAIN archive
    BY <1>3 DEF FoundInv
  <2>2. Within => Mapped(File) /\ ~Clobbered(Front, 1)
    BY <2>1, FrontLies
  <2>3. image.elf \in BOOLEAN
    BY <2>1 DEF Given
  <2>4. \/ pc' \in {"fault", "damaged"} /\ ~Within
        \/ pc' = "create" /\ image.elf
        \/ pc' = "null process" /\ ~image.elf
    BY <1>3, <2>2, <2>3 DEF ReadHeader
  <2>5. CASE pc' \in {"fault", "damaged"} /\ ~Within
    BY <1>1, <1>3, <2>5, GivenFixed DEF FoundInv
  <2>6. CASE pc' = "create" /\ image.elf
    BY <1>1, <1>3, <2>6, GivenFixed DEF FoundInv
  <2>7. CASE pc' = "null process" /\ ~image.elf
    BY <1>1, <1>3, <2>7, GivenFixed DEF FoundInv
  <2> QED
    BY <2>4, <2>5, <2>6, <2>7
<1> QED
  BY <1>2, <1>3

LEMMA FoundCreate == ASSUME FoundInv, Create PROVE FoundInv'
<1>1. /\ UNCHANGED <<archive, image, end, runs, data, size, i>> /\ pc = "create"
      /\ proc' = IF runs = 2 THEN Somewhere ELSE Null
      /\ pc' = IF Clobbered(Front, 2) THEN "damaged" ELSE "calloc"
      /\ full' \in BOOLEAN
  <2>1. full' \in BOOLEAN
    <3>1. \E refused \in {full, TRUE} : \E pages : GetTables(pages, refused)
      BY Zenon DEF Create
    <3>2. full \in BOOLEAN
      BY DEF FoundInv
    <3> QED
      BY <3>1, <3>2 DEF GetTables
  <2> QED
    BY <2>1 DEF Create, boot
<1>2. Given /\ data # Null /\ image.elf /\ data \in DOMAIN archive
  BY <1>1 DEF FoundInv
<1>3. Within => ~Clobbered(Front, 2)
  BY <1>2, FrontLies
<1>4. proc' = Null => runs < 2
  BY <1>1, <1>2 DEF Somewhere, Null, Given
<1>5. CASE pc' = "damaged" /\ ~Within
  BY <1>1, <1>2, <1>5, GivenFixed DEF FoundInv
<1>6. CASE pc' = "calloc"
  BY <1>1, <1>2, <1>4, <1>6, GivenFixed DEF FoundInv
<1> QED
  BY <1>1, <1>3, <1>5, <1>6

LEMMA FoundCalloc == ASSUME FoundInv, Calloc PROVE FoundInv'
<1>1. /\ UNCHANGED <<archive, image, end, runs, data, size, proc, i, full>> /\ pc = "calloc"
      /\ pc' = IF size % 2 = 1 THEN "for ever" ELSE "segments"
  BY DEF Calloc, boot, process
<1>2. CASE pc' = "for ever" /\ size % 2 = 1
  BY <1>1, <1>2, GivenFixed DEF FoundInv
<1>3. CASE pc' = "segments"
  BY <1>1, <1>3, GivenFixed DEF FoundInv
<1> QED
  BY <1>1, <1>2, <1>3

\* The three ends of a segment's copy.
LEMMA CopyIs ==
  ASSUME NEW h \in Phdr
  PROVE  \/ CopyOutcome(h) = "for ever" /\ h.filesz % 2 = 1
         \/ /\ CopyOutcome(h) = "fault"
            /\ \E v \in Bytes(h) : ~Seen(v) \/ ~Seen(Source(h, v))
         \/ CopyOutcome(h) = "segments" /\ \A v \in Bytes(h) : Seen(v)
<1>1. h.filesz % 2 = 0 \/ h.filesz % 2 = 1
  <2>1. h.filesz \in Nat
    BY DEF Phdr
  <2> QED
    BY <2>1
<1> DEFINE bad == \E v \in Bytes(h) : ~Seen(v) \/ ~Seen(Source(h, v))
<1> HIDE DEF bad
<1>3. CASE h.filesz % 2 = 1
  BY <1>3 DEF CopyOutcome
<1>4. CASE h.filesz % 2 = 0 /\ bad
  BY <1>4 DEF bad, CopyOutcome
<1>5. CASE h.filesz % 2 = 0 /\ ~bad
  BY <1>5 DEF bad, CopyOutcome
<1> QED
  BY <1>1, <1>3, <1>4, <1>5

\* What the next program header does.
Next(h) ==
    /\ \A p \in PagesAt(h) : ~Below(p)
    /\ (\E p \in PagesAt(h) : Slot(p) \notin tables') => full'
    /\ full' \in BOOLEAN
    /\ table' = TableWith(h)
    /\ \/ pc' = "for ever" /\ h.filesz % 2 = 1
       \/ /\ pc' = "fault"
          /\ \E v \in Bytes(h) : ~Seen(v) \/ ~Seen(Source(h, v))
       \/ pc' = "segments" /\ \A v \in Bytes(h) : Seen(v)
    /\ memory' = (IF pc' = "segments" THEN MemoryWith(h) ELSE memory)
    /\ prog_data' = (IF pc' = "segments" THEN Advance(h) ELSE prog_data)

\* A page for whose slot there is no table had to do without.
LEMMA TablesGot ==
  ASSUME NEW pages, NEW refused \in BOOLEAN, GetTables(pages, refused),
         NEW p \in pages, Slot(p) \notin tables'
  PROVE  full' = TRUE
<1> DEFINE new == {Slot(q) : q \in pages} \ tables
<1>1. PICK got \in SUBSET new :
         tables' = tables \cup got /\ full' = (refused \/ got # new)
  BY DEF GetTables
<1>2. Slot(p) \in new /\ Slot(p) \notin got
  BY <1>1
<1> QED
  BY <1>1, <1>2, Zenon

LEMMA SegmentStep ==
  ASSUME FoundInv, LoadSegment
  PROVE  LET h == Segment(i + 1) IN
         /\ i + 1 \in DOMAIN image.phdrs /\ pc = "segments" /\ h \in Phdr
         /\ UNCHANGED <<archive, image, end, runs, data, size, buffer, room, proc,
                        object>>
         /\ i' = i + 1
         /\ \/ /\ i + 1 \notin Segments
               /\ UNCHANGED <<pc, full, tables, table, memory, prog_data>>
            \/ /\ i + 1 \in Segments /\ pc' = "remapped"
               /\ \E p \in PagesAt(h) : Below(p)
               /\ UNCHANGED <<full, table, memory, prog_data>>
            \/ i + 1 \in Segments /\ Next(h)
<1> DEFINE h == Segment(i + 1)
<1>1. Given /\ i \in Nat /\ i < Len(image.phdrs)
  BY DEF FoundInv, LoadSegment
<1>2. image.phdrs \in Seq(Phdr)
  BY <1>1 DEF Given
<1>3. i + 1 \in DOMAIN image.phdrs
  BY <1>1, <1>2
<1>4. h \in Phdr
  BY <1>1, <1>3, PhdrIs
<1>5. i + 1 \in Segments <=> h.load
  BY <1>3 DEF Segments, Segment
<1>6. /\ pc = "segments" /\ i' = i + 1
      /\ UNCHANGED <<archive, image, end, runs, data, size, buffer, room, proc, object>>
  BY DEF LoadSegment, boot, process
<1>7. \/ /\ ~h.load
         /\ UNCHANGED <<pc, full, tables, table, memory, prog_data>>
      \/ /\ h.load /\ \E p \in PagesAt(h) : Below(p)
         /\ pc' = "remapped"
         /\ UNCHANGED <<full, tables, table, memory, prog_data>>
      \/ /\ h.load /\ \A p \in PagesAt(h) : ~Below(p)
         /\ GetTables(PagesAt(h), full)
         /\ table' = TableWith(h)
         /\ pc' = CopyOutcome(h)
         /\ memory' = IF pc' = "segments" THEN MemoryWith(h) ELSE memory
         /\ prog_data' = IF pc' = "segments" THEN Advance(h) ELSE prog_data
  BY Zenon DEF LoadSegment, Segment
<1> HIDE DEF h
<1>8. CASE /\ h.load /\ \A p \in PagesAt(h) : ~Below(p)
           /\ GetTables(PagesAt(h), full)
           /\ table' = TableWith(h)
           /\ pc' = CopyOutcome(h)
           /\ memory' = IF pc' = "segments" THEN MemoryWith(h) ELSE memory
           /\ prog_data' = IF pc' = "segments" THEN Advance(h) ELSE prog_data
  <2>1. /\ (\E p \in PagesAt(h) : Slot(p) \notin tables') => full'
        /\ full' \in BOOLEAN
    <3>1. full \in BOOLEAN
      BY DEF FoundInv
    <3>2. ASSUME NEW p \in PagesAt(h), Slot(p) \notin tables' PROVE full'
      BY <1>8, <3>1, <3>2, TablesGot
    <3>3. full' \in BOOLEAN
      BY <1>8, <3>1 DEF GetTables
    <3> QED
      BY <3>2, <3>3
  <2>2. \/ pc' = "for ever" /\ h.filesz % 2 = 1
        \/ /\ pc' = "fault"
           /\ \E v \in Bytes(h) : ~Seen(v) \/ ~Seen(Source(h, v))
        \/ pc' = "segments" /\ \A v \in Bytes(h) : Seen(v)
    BY <1>4, <1>8, CopyIs
  <2>3. Next(h)
    BY <1>8, <2>1, <2>2 DEF Next
  <2> QED
    BY <1>3, <1>4, <1>5, <1>6, <1>8, <2>3 DEF h
<1>9. CASE ~h.load /\ UNCHANGED <<pc, full, tables, table, memory, prog_data>>
  BY <1>3, <1>4, <1>5, <1>6, <1>9 DEF h
<1>10. CASE /\ h.load /\ \E p \in PagesAt(h) : Below(p)
            /\ pc' = "remapped"
            /\ UNCHANGED <<full, tables, table, memory, prog_data>>
  BY <1>3, <1>4, <1>5, <1>6, <1>10 DEF h
<1> QED
  BY <1>7, <1>8, <1>9, <1>10

\* The pages of a segment and kernel_pg_end.
LEMMA BelowIs ==
  ASSUME NEW h \in Phdr, end \in Nat, end % Page = 0
  PROVE  /\ (\E p \in PagesAt(h) : Below(p)) => h.filesz > 0 /\ h.vaddr < end
         /\ (\A p \in PagesAt(h) : ~Below(p)) => \A v \in Bytes(h) : v >= end
<1>1. h.vaddr \in Nat /\ h.filesz \in Nat
  BY DEF Phdr
<1>2. PICK first \in Nat, z \in 0 .. Page - 1 :
            /\ h.vaddr \div Page = first /\ h.vaddr % Page = z /\ h.vaddr = first * Page + z
            /\ first * Page \in Nat /\ (first + 1) * Page = first * Page + Page
  BY <1>1, Div
<1>3. PICK e \in Nat, y \in 0 .. Page - 1 :
            /\ end \div Page = e /\ end % Page = y /\ end = e * Page + y
            /\ e * Page \in Nat /\ (e + 1) * Page = e * Page + Page
  BY Div
<1>4. end = e * Page
  BY <1>3
<1>5. ASSUME NEW p \in PagesAt(h), Below(p)
      PROVE  h.filesz > 0 /\ h.vaddr < end
  <2>1. PICK n \in Pages(h) : p = first + n
    BY <1>2 DEF PagesAt
  <2>2. n \in Nat /\ n * Page < h.filesz /\ n <= n * Page
    <3>1. n \in Nat /\ n * Page < h.filesz
      BY DEF Pages
    <3> QED
      BY <3>1, Mul
  <2>3. n * Page \in Nat
    BY <2>2, Mul
  <2>4. h.filesz > 0
    BY <1>1, <2>2, <2>3
  <2>5. p * Page < e * Page
    BY <1>4, <1>5 DEF Below
  <2>6. p < e
    BY <2>1, <2>2, <2>5, Mul
  <2>7. first + 1 <= e
    BY <2>1, <2>2, <2>6
  <2>8. (first + 1) * Page <= e * Page
    BY <2>7, Mul
  <2> QED
    BY <1>1, <1>2, <1>4, <2>4, <2>8
<1>6. ASSUME \A p \in PagesAt(h) : ~Below(p), NEW v \in Bytes(h)
      PROVE  v >= end
  <2>1. v \in Nat /\ h.vaddr <= v /\ h.filesz > 0
    BY <1>1 DEF Bytes
  <2>2. 0 \in Pages(h)
    <3>1. 0 * Page = 0
      BY Mul
    <3> QED
      BY <1>1, <2>1, <3>1 DEF Pages
  <2>3. first \in PagesAt(h)
    <3>1. first + 0 \in PagesAt(h)
      BY <1>2, <2>2 DEF PagesAt
    <3> QED
      BY <1>2, <3>1
  <2>4. ~(first * Page < end)
    BY <1>6, <2>3 DEF Below
  <2> QED
    BY <1>1, <1>2, <2>1, <2>4
<1> QED
  BY <1>5, <1>6

LEMMA FoundLoadSegment == ASSUME FoundInv, LoadSegment PROVE FoundInv'
<1> DEFINE h == Segment(i + 1)
<1>1. /\ i + 1 \in DOMAIN image.phdrs /\ pc = "segments" /\ h \in Phdr
      /\ UNCHANGED <<archive, image, end, runs, data, size, proc>> /\ i' = i + 1
      /\ \/ i + 1 \notin Segments /\ pc' = pc
         \/ /\ i + 1 \in Segments /\ pc' = "remapped"
            /\ \E p \in PagesAt(h) : Below(p)
         \/ i + 1 \in Segments /\ Next(h)
      /\ full' \in BOOLEAN
  BY SegmentStep DEF Next, FoundInv
<1>2. /\ Given /\ data \in DOMAIN archive /\ IsFile(archive[data]) /\ image.elf /\ i' \in Nat
      /\ data # Null /\ (proc = Null => runs < 2) /\ i \in Nat
      /\ end \in Nat /\ end % Page = 0
  BY <1>1 DEF FoundInv, Given
<1>3. CASE i + 1 \notin Segments /\ pc' = pc
  BY <1>1, <1>2, <1>3, GivenFixed DEF FoundInv
<1>4. CASE i + 1 \in Segments /\ pc' = "remapped" /\ \E p \in PagesAt(h) : Below(p)
  <2>1. h.filesz > 0 /\ h.vaddr < end
    BY <1>1, <1>2, <1>4, BelowIs
  <2>2. \E k \in Segments : Segment(k).filesz > 0 /\ Segment(k).vaddr < end
    BY <1>4, <2>1
  <2> QED
    BY <1>1, <1>2, <1>4, <2>2, GivenFixed DEF FoundInv
<1>5. CASE i + 1 \in Segments /\ Next(h)
  <2>1. \/ pc' = "for ever" /\ h.filesz % 2 = 1
        \/ pc' = "fault" /\ \E v \in Bytes(h) : ~Seen(v) \/ ~Seen(Source(h, v))
        \/ pc' = "segments"
    BY <1>5 DEF Next
  <2>2. CASE pc' = "for ever" /\ h.filesz % 2 = 1
    <3>1. \E k \in Segments : Segment(k).filesz % 2 = 1
      BY <1>5, <2>2
    <3> QED
      BY <1>1, <1>2, <2>2, <3>1, GivenFixed DEF FoundInv
  <2>3. CASE pc' = "segments"
    BY <1>1, <1>2, <2>3, GivenFixed DEF FoundInv
  <2>4. CASE pc' = "fault" /\ \E v \in Bytes(h) : ~Seen(v) \/ ~Seen(Source(h, v))
    <3>1. PICK v \in Bytes(h) : ~Seen(v) \/ ~Seen(Source(h, v))
      BY <2>4
    <3>2. ASSUME Within PROVE Seen(Source(h, v))
      <4>1. /\ At(data) \in Nat /\ At(Len(archive) + 1) \in Nat
            /\ At(data) + Block + h.offset + h.filesz <= At(Len(archive) + 1)
        BY <1>1, <1>2, SegmentLies
      <4>2. h.offset \in Nat /\ h.filesz \in Nat /\ h.vaddr \in Nat
        BY <1>1 DEF Phdr
      <4>3. v \in Nat /\ v < h.vaddr + h.filesz
        BY <4>2 DEF Bytes
      <4>4. At(data) + Block + h.offset + v - h.vaddr < end
        <5>0. Block \in Nat \ {0}
          BY LoaderAssumption
        <5>1. PICK at \in Nat : at = At(data) + Block
          BY <4>1, <5>0
        <5>2. PICK all \in Nat : all = At(Len(archive) + 1)
          BY <4>1, Zenon
        <5>3. PICK off \in Nat, sz \in Nat, va \in Nat :
                 off = h.offset /\ sz = h.filesz /\ va = h.vaddr
          BY <4>2, Zenon
        <5>4. at + off + sz <= all /\ v < va + sz
          BY <4>1, <4>3, <5>1, <5>2, <5>3
        <5>5. all < end
          BY <1>2, <3>2, <5>0, <5>2 DEF Within
        <5>6. at + off + v - va < end
          BY <1>2, <4>3, <5>4, <5>5
        <5> QED
          BY <5>1, <5>3, <5>6
      <4> QED
        BY <4>4 DEF Seen, Source, File
    <3>3. ASSUME ~Seen(v), h.vaddr % Page = 0 PROVE Starved'
      <4>1. PICK n \in Pages(h) : v \div Page = h.vaddr \div Page + n
        BY <1>1, <3>3, AlignedPages
      <4>2. v \div Page \in PagesAt(h)
        BY <4>1 DEF PagesAt
      <4>3. v \div Page \notin DOMAIN TableWith(h)
        BY <1>5, <3>3 DEF Seen, Next
      <4>4. Slot(v \div Page) \notin tables'
        BY <4>2, <4>3 DEF TableWith
      <4>5. full'
        BY <1>5, <4>2, <4>4 DEF Next
      <4>6. PICK k \in Segments : k = i + 1 /\ k <= i' /\ h = Segment(k)
        BY <1>1, <1>2, <1>5
      <4>7. \E p \in PagesAt(Segment(k)) : Slot(p) \notin tables'
        BY <4>2, <4>4, <4>6
      <4>8. /\ PagesAt(Segment(k))' = PagesAt(Segment(k)) /\ Segments' = Segments
            /\ \A p : Slot(p)' = Slot(p)
        BY <1>1, PagesFixed
      <4> QED
        BY <4>5, <4>6, <4>7, <4>8 DEF Starved
    <3>4. \/ ~Within \/ Starved'
          \/ \E k \in Segments : Segment(k).vaddr % Page # 0
      BY <1>5, <3>1, <3>2, <3>3
    <3> QED
      BY <1>1, <1>2, <2>4, <3>4, GivenFixed DEF FoundInv
  <2> QED
    BY <2>1, <2>2, <2>3, <2>4
<1> QED
  BY <1>1, <1>3, <1>4, <1>5

LEMMA FoundKept == FoundInv /\ [LNext]_lvars => FoundInv'
<1> SUFFICES ASSUME FoundInv, [LNext]_lvars PROVE FoundInv'
  OBVIOUS
<1>1. CASE CalcSize
  <2>1. UNCHANGED <<archive, image, end, runs, data, size, i, full>> /\ pc' = "tar_fopen"
    BY <1>1 DEF CalcSize, boot
  <2> QED
    BY <2>1, GivenFixed DEF FoundInv
<1>2. CASE Loaded
  <2>1. /\ UNCHANGED <<archive, image, end, runs, data, size, proc, i, full>>
        /\ pc = "segments" /\ pc' = "run"
    BY <1>2 DEF Loaded, boot, process
  <2> QED
    BY <2>1, GivenFixed DEF FoundInv
<1>3. CASE UNCHANGED lvars
  <2>1. UNCHANGED <<archive, image, end, runs, data, size, proc, full, tables, i, pc>>
    BY <1>3 DEF lvars, boot, process
  <2>2. Starved' <=> Starved
    BY <2>1 DEF Starved, Segments, Segment, PagesAt, Pages, Slot
  <2> QED
    BY <2>1, <2>2, GivenFixed DEF FoundInv
<1> QED
  BY <1>1, <1>2, <1>3, FoundFind, FoundReadHeader, FoundCreate, FoundCalloc,
     FoundLoadSegment DEF LNext

\* Whatever the archive and the image, a load that does not end in a running
\* process has one of the reasons OutcomeExplained names (kernel.cpp:54-95,
\* ustar.cpp:14-78, elf.cpp:28-80).
THEOREM OutcomesAreExplained == LSpec => []OutcomeExplained
<1>1. FoundInv => OutcomeExplained
  <2> SUFFICES ASSUME FoundInv PROVE OutcomeExplained
    OBVIOUS
  <2>1. pc = "null process" => ~image.elf \/ ~Within \/ NoFile
    BY DEF FoundInv
  <2> QED
    BY <2>1 DEF FoundInv, OutcomeExplained, NoFile
<1> QED
  BY <1>1, FoundInit, FoundKept, PTL DEF LSpec

-----------------------------------------------------------------------------
(* The image in the process's pages. *)

\* Where the process's address v lies.
PA(t, v) == t[v \div Page] * Page + (v % Page)

LEMMA UpPages ==
  ASSUME NEW n \in Nat
  PROVE  \E q \in Nat : /\ Up(n, Page) = q * Page /\ Up(n, Page) \div Page = q
                        /\ q * Page \in Nat /\ n <= q * Page /\ q * Page < n + Page
<1>1. n \in Int /\ Page \in Nat \ {0}
  OBVIOUS
<1>2. PICK q \in Int : /\ Up(n, Page) = q * Page
                      /\ n <= Up(n, Page) /\ Up(n, Page) < n + Page
  BY <1>1, UpIs
<1>3. q \in Nat
  <2>1. 0 * Page = 0 /\ (q + 1) * Page = q * Page + Page /\ q * Page \in Int
    BY Mul
  <2>2. 0 * Page < (q + 1) * Page
    BY <1>1, <1>2, <2>1
  <2>3. 0 < q + 1
    BY <2>2, Mul
  <2> QED
    BY <2>3
<1>4. q * Page \in Nat /\ (q + 1) * Page = q * Page + Page
  BY <1>3, <1>2, Mul
<1>5. (q * Page) \div Page = q
  BY <1>3, <1>4, PageOf
<1> QED
  BY <1>2, <1>3, <1>4, <1>5

\* Whole pages are added behind the rounding.
LEMMA UpAdds ==
  ASSUME NEW a \in Nat, NEW m \in Nat
  PROVE  Up(a + m * Page, Page) = Up(a, Page) + m * Page
<1>1. m * Page \in Nat
  BY Mul
<1>2. PICK q \in Nat : /\ Up(a, Page) = q * Page /\ q * Page \in Nat
                      /\ a <= q * Page /\ q * Page < a + Page
  BY UpPages
<1>3. PICK p \in Nat : /\ Up(a + m * Page, Page) = p * Page /\ p * Page \in Nat
                      /\ a + m * Page <= p * Page /\ p * Page < a + m * Page + Page
  <2>1. a + m * Page \in Nat
    BY <1>1
  <2> QED
    BY <2>1, UpPages
<1>4. /\ (q + m) * Page = q * Page + m * Page
      /\ (p + 1) * Page = p * Page + Page
      /\ ((q + m) + 1) * Page = (q + m) * Page + Page
  BY Mul
<1>5. p * Page < ((q + m) + 1) * Page /\ (q + m) * Page < (p + 1) * Page
  <2>1. PICK pp \in Nat, qp \in Nat, mp \in Nat, pg \in Nat :
           pp = p * Page /\ qp = q * Page /\ mp = m * Page /\ pg = Page
    BY <1>1, <1>2, <1>3, LoaderAssumption
  <2>2. a <= qp /\ qp < a + pg /\ a + mp <= pp /\ pp < a + mp + pg
    BY <1>2, <1>3, <2>1
  <2>3. pp < (qp + mp) + pg /\ qp + mp < pp + pg
    BY <2>2
  <2> QED
    BY <1>4, <2>1, <2>3
<1>6. p < (q + m) + 1
  BY <1>5, Mul
<1>7. q + m < p + 1
  BY <1>5, Mul
<1>8. p = q + m
  BY <1>6, <1>7
<1> QED
  BY <1>2, <1>3, <1>4, <1>8

\* Every page entered for a segment holds a byte of it.
LEMMA PageTouched ==
  ASSUME NEW h \in Phdr, NEW n \in Pages(h)
  PROVE  n \in Nat /\ \E v \in Bytes(h) : v \div Page = h.vaddr \div Page + n
<1>1. h.vaddr \in Nat /\ h.filesz \in Nat /\ n \in Nat /\ n * Page < h.filesz
  BY DEF Phdr, Pages
<1>2. PICK np \in Nat : n * Page = np
  BY <1>1, Mul
<1>3. PICK v \in Nat : v = h.vaddr + np /\ v \in Bytes(h)
  <2>1. np < h.filesz
    BY <1>1, <1>2
  <2>2. h.vaddr + np \in Bytes(h)
    BY <1>1, <2>1 DEF Bytes
  <2> QED
    BY <1>1, <2>2
<1>4. PICK q \in Nat, r \in 0 .. Page - 1 :
            /\ h.vaddr \div Page = q /\ h.vaddr % Page = r /\ h.vaddr = q * Page + r
            /\ q * Page \in Nat /\ (q + 1) * Page = q * Page + Page
  BY <1>1, Div
<1>5. PICK qp \in Nat : q * Page = qp
  BY <1>4, Mul
<1>6. /\ (q + n) * Page = qp + np
      /\ ((q + n) + 1) * Page = (qp + np) + Page
  BY <1>1, <1>2, <1>4, <1>5, Mul
<1>7. h.vaddr = qp + r
  BY <1>4, <1>5
<1>8. (q + n) * Page <= v /\ v < ((q + n) + 1) * Page
  <2>1. v = qp + r + np
    BY <1>3, <1>7
  <2>2. r < Page /\ r \in Nat /\ Page \in Nat
    BY LoaderAssumption
  <2>3. qp + np <= v /\ v < (qp + np) + Page
    BY <2>1, <2>2
  <2> QED
    BY <1>6, <2>3
<1>9. v \div Page = q + n
  <2>1. q + n \in Int
    BY <1>1
  <2> QED
    BY <1>8, <2>1, PageOf
<1> QED
  BY <1>1, <1>3, <1>4, <1>9

\* A segment whose pages begin at page goal lies there in one piece.
LEMMA SegmentPlaced ==
  ASSUME NEW h \in Phdr, NEW t, NEW goal \in Nat,
         NEW v \in Bytes(h),
         \E n \in Pages(h) : v \div Page = h.vaddr \div Page + n /\ t[v \div Page] = goal + n
  PROVE  /\ PA(t, v) = goal * Page + v - (h.vaddr \div Page) * Page
         /\ PA(t, v) \in Nat /\ goal * Page <= PA(t, v)
         /\ h.filesz <= h.memsz => PA(t, v) < goal * Page + Up(h.memsz, Page)
<1>1. h.vaddr \in Nat /\ h.filesz \in Nat /\ h.memsz \in Nat /\ v \in Nat
      /\ h.vaddr <= v
  BY DEF Phdr, Bytes
<1>2. PICK first \in Nat : h.vaddr \div Page = first
  BY <1>1, Div
<1>3. PICK n \in Pages(h) : v \div Page = first + n /\ t[v \div Page] = goal + n
  BY <1>2
<1>4. n \in Nat /\ n * Page < h.filesz
  BY DEF Pages
<1>5. PICK q \in Nat, r \in 0 .. Page - 1 :
            /\ v \div Page = q /\ v % Page = r /\ v = q * Page + r
            /\ q * Page \in Nat /\ (q + 1) * Page = q * Page + Page
  BY <1>1, Div
<1>6. q = first + n /\ t[v \div Page] = goal + n
  BY <1>2, <1>3, <1>5
<1>7. PICK np \in Nat, gp \in Nat, fp \in Nat :
         /\ n * Page = np /\ goal * Page = gp /\ first * Page = fp
         /\ (goal + n) * Page = gp + np /\ (first + n) * Page = fp + np
         /\ (n + 1) * Page = np + Page
  BY <1>2, <1>4, Mul
<1>8. PA(t, v) = gp + np + r /\ v = fp + np + r
  BY <1>5, <1>6, <1>7 DEF PA
<1>9. /\ PA(t, v) = gp + v - fp
      /\ PA(t, v) \in Nat /\ gp <= PA(t, v)
  <2>1. r \in Nat
    BY <1>5
  <2>2. PICK x \in Nat : x = gp + np + r
    BY <1>7, <2>1
  <2>3. x = gp + v - fp /\ gp <= x
    BY <1>7, <1>8, <2>1, <2>2
  <2> QED
    BY <1>8, <2>2, <2>3
<1>10. ASSUME h.filesz <= h.memsz
       PROVE  PA(t, v) < gp + Up(h.memsz, Page)
  <2>1. PICK u \in Nat : /\ Up(h.memsz, Page) = u * Page /\ h.memsz <= u * Page
    BY <1>1, UpPages
  <2>2. PICK up \in Nat : u * Page = up
    BY <2>1, Mul
  <2>3. np < up
    <3>1. np < h.filesz /\ h.memsz <= up
      BY <1>4, <1>7, <2>1, <2>2
    <3> QED
      BY <1>1, <1>10, <3>1
  <2>4. n < u
    <3>1. n * Page < u * Page
      BY <1>7, <2>2, <2>3
    <3>2. n \in Int /\ u \in Int
      BY <1>4
    <3> QED
      BY <3>1, <3>2, Mul
  <2>5. (n + 1) * Page <= u * Page
    <3>1. n + 1 <= u /\ n + 1 \in Int
      BY <1>4, <2>4
    <3> QED
      BY <3>1, Mul
  <2>6. np + Page <= up
    BY <1>7, <2>2, <2>5
  <2>7. PA(t, v) < gp + up
    <3>1. r < Page /\ r \in Int
      OBVIOUS
    <3> QED
      BY <1>8, <2>6, <3>1
  <2> QED
    BY <2>1, <2>2, <2>7
<1> QED
  BY <1>2, <1>7, <1>9, <1>10

\* Where all pages of a segment are found, through the process's table, its bytes
\* lie in physical memory as in the file.
Placed(h, goal) ==
    \A v \in Bytes(h) :
       /\ v \div Page \in DOMAIN table'
       /\ \E n \in Pages(h) : /\ v \div Page = h.vaddr \div Page + n
                              /\ table'[v \div Page] = goal + n

Mine(m, t, h) == \A v \in Bytes(h) : /\ v \div Page \in DOMAIN t
                                     /\ PA(t, v) \in DOMAIN m
                                     /\ m[PA(t, v)] = Byte(h, v)

LEMMA CopiedIs ==
  ASSUME NEW h \in Phdr, NEW goal \in Nat, Placed(h, goal), NEW c, c = MemoryWith(h)
  PROVE  /\ \A v \in Bytes(h) : PA(table', v) \in DOMAIN c /\ c[PA(table', v)] = Byte(h, v)
         /\ \A a \in DOMAIN memory : a < goal * Page /\ a \in Int =>
               a \in DOMAIN c /\ c[a] = memory[a]
         /\ \A a \in DOMAIN c : a \in DOMAIN memory \/ \E v \in Bytes(h) : a = PA(table', v)
<1> DEFINE written == {Physical(v) : v \in Bytes(h)}
<1>1. c = [a \in DOMAIN memory \cup written |->
             IF a \in written THEN Byte(h, CHOOSE v \in Bytes(h) : Physical(v) = a)
             ELSE memory[a]]
  BY Zenon DEF MemoryWith
<1>2. ASSUME NEW v \in Bytes(h)
      PROVE  /\ Physical(v) = PA(table', v)
             /\ PA(table', v) = goal * Page + v - (h.vaddr \div Page) * Page
             /\ goal * Page <= PA(table', v) /\ v \in Int /\ PA(table', v) \in Int
  <2>1. /\ v \div Page \in DOMAIN table'
        /\ \E n \in Pages(h) : v \div Page = h.vaddr \div Page + n
                               /\ table'[v \div Page] = goal + n
    BY DEF Placed
  <2>2. /\ PA(table', v) = goal * Page + v - (h.vaddr \div Page) * Page
        /\ PA(table', v) \in Nat /\ goal * Page <= PA(table', v)
    BY <2>1, SegmentPlaced
  <2>3. v \in Int
    BY DEF Bytes, Phdr
  <2>4. Physical(v) = PA(table', v)
    BY <2>1 DEF Physical, PA
  <2> QED
    BY <2>2, <2>3, <2>4
<1>3. PICK gp \in Nat, fp \in Nat : goal * Page = gp /\ (h.vaddr \div Page) * Page = fp
  <2>1. h.vaddr \in Nat
    BY DEF Phdr
  <2>2. PICK first \in Nat : h.vaddr \div Page = first
    BY <2>1, Div
  <2>3. goal * Page \in Nat /\ first * Page \in Nat
    BY Mul
  <2> QED
    BY <2>2, <2>3
<1>4. ASSUME NEW v \in Bytes(h), NEW w \in Bytes(h), Physical(v) = Physical(w)
      PROVE  v = w
  <2>1. Physical(v) = gp + v - fp /\ Physical(w) = gp + w - fp /\ v \in Int /\ w \in Int
    BY <1>2, <1>3
  <2>2. gp + v - fp = gp + w - fp
    BY <1>4, <2>1, Zenon
  <2> QED
    BY <2>1, <2>2
<1>5. ASSUME NEW v \in Bytes(h)
      PROVE  PA(table', v) \in DOMAIN c /\ c[PA(table', v)] = Byte(h, v)
  <2>1. Physical(v) \in written
    OBVIOUS
  <2>2. (CHOOSE w \in Bytes(h) : Physical(w) = Physical(v)) = v
    <3>1. \E w \in Bytes(h) : Physical(w) = Physical(v)
      BY Zenon
    <3> DEFINE w == CHOOSE w \in Bytes(h) : Physical(w) = Physical(v)
    <3>2. w \in Bytes(h) /\ Physical(w) = Physical(v)
      BY <3>1, Zenon
    <3> HIDE DEF w
    <3>3. w = v
      BY <1>4, <3>2, Zenon
    <3> QED
      BY <3>3 DEF w
  <2>3. Physical(v) \in DOMAIN c /\ c[Physical(v)] = Byte(h, v)
    BY <1>1, <2>1, <2>2, Zenon
  <2> QED
    BY <1>2, <2>3, Zenon
<1>6. ASSUME NEW a \in DOMAIN memory, a < goal * Page, a \in Int
      PROVE  a \in DOMAIN c /\ c[a] = memory[a]
  <2>1. a \notin written
    <3> SUFFICES ASSUME NEW v \in Bytes(h), a = Physical(v) PROVE FALSE
      OBVIOUS
    <3>1. a = PA(table', v) /\ goal * Page <= PA(table', v)
      BY <1>2, Zenon
    <3> QED
      BY <1>3, <1>6, <3>1
  <2> QED
    BY <1>1, <2>1, Zenon
<1>7. \A a \in DOMAIN c : a \in DOMAIN memory \/ \E v \in Bytes(h) : a = PA(table', v)
  <2>1. DOMAIN c = DOMAIN memory \cup written
    BY <1>1, Zenon
  <2>2. \A a \in written : \E v \in Bytes(h) : a = PA(table', v)
    BY <1>2, Zenon
  <2> QED
    BY <2>1, <2>2, Zenon
<1> QED
  BY <1>5, <1>6, <1>7

ArriveInv ==
    /\ pc \in {"tar_calc_size", "tar_fopen", "elf32_load", "create", "calloc"} =>
         i = 0 /\ table = <<>> /\ memory = <<>>
    /\ pc \in {"segments", "run"} /\ Separate =>
         /\ prog_data \in Nat
         /\ \A p \in DOMAIN table :
              \E k \in Segments : k <= i /\ \E v \in Bytes(Segment(k)) : p = v \div Page
         /\ \A a \in DOMAIN memory : a \in Nat /\ a < Up(prog_data, Page)
         /\ \A k \in Segments : k <= i => /\ Mine(memory, table, Segment(k))
                                          /\ \A v \in Bytes(Segment(k)) : v >= end
    /\ pc = "run" => i = Len(image.phdrs)

\* The table after a segment's pages have been entered, those that can be.
LEMMA TableIs ==
  ASSUME NEW h \in Phdr, prog_data \in Nat
  PROVE  \E goal \in Nat, first \in Nat : \E new \in SUBSET {first + n : n \in Pages(h)} :
            /\ goal * Page = Up(prog_data, Page) /\ first = h.vaddr \div Page
            /\ DOMAIN TableWith(h) = DOMAIN table \cup new
            /\ \A n \in Pages(h) : first + n \in new => TableWith(h)[first + n] = goal + n
            /\ \A p \in DOMAIN table : p \notin new => TableWith(h)[p] = table[p]
<1>1. PICK goal \in Nat : Up(prog_data, Page) = goal * Page /\ Target(h) = goal
  BY UpPages DEF Target
<1>2. PICK first \in Nat : first = h.vaddr \div Page
  <2>1. h.vaddr \in Nat
    BY DEF Phdr
  <2> QED
    BY <2>1, Div
<1> DEFINE new == {v \in PagesAt(h) : Slot(v) \in tables'}
<1>3. TableWith(h) = [v \in DOMAIN table \cup new |->
                        IF v \in new THEN goal + v - first ELSE table[v]]
  BY <1>1, <1>2, Zenon DEF TableWith
<1>4. new \in SUBSET {first + n : n \in Pages(h)}
  BY <1>2 DEF PagesAt
<1> HIDE DEF new
<1>5. ASSUME NEW n \in Pages(h), first + n \in new
      PROVE  TableWith(h)[first + n] = goal + n
  <2>1. n \in Nat
    BY DEF Pages
  <2>2. TableWith(h)[first + n] = goal + (first + n) - first
    BY <1>3, <1>5, Zenon
  <2> QED
    BY <2>1, <2>2
<1>6. ASSUME NEW p \in DOMAIN table, p \notin new
      PROVE  TableWith(h)[p] = table[p]
  BY <1>3, <1>6, Zenon
<1>7. DOMAIN TableWith(h) = DOMAIN table \cup new
  BY <1>3, Zenon
<1> QED
  <2>1. /\ goal * Page = Up(prog_data, Page) /\ first = h.vaddr \div Page
        /\ DOMAIN TableWith(h) = DOMAIN table \cup new
        /\ \A n \in Pages(h) : first + n \in new => TableWith(h)[first + n] = goal + n
        /\ \A p \in DOMAIN table : p \notin new => TableWith(h)[p] = table[p]
    BY <1>1, <1>2, <1>5, <1>6, <1>7
  <2> QED
    BY <1>4, <2>1, Zenon

\* What ArriveInv says of a state in which j program headers are done.
Arrived(j) ==
    /\ prog_data' \in Nat
    /\ \A p \in DOMAIN table' :
         \E k \in Segments : k <= j /\ \E v \in Bytes(Segment(k)) : p = v \div Page
    /\ \A a \in DOMAIN memory' : a \in Nat /\ a < Up(prog_data', Page)
    /\ \A k \in Segments : k <= j => /\ Mine(memory', table', Segment(k))
                                     /\ \A v \in Bytes(Segment(k)) : v >= end

LEMMA SegmentArrives ==
  ASSUME FoundInv, ArriveInv, LoadSegment, Separate, pc' = "segments"
  PROVE  Arrived(i + 1)
<1> DEFINE h == Segment(i + 1)
<1>1. /\ i + 1 \in DOMAIN image.phdrs /\ pc = "segments" /\ i \in Nat /\ Given
      /\ image.phdrs \in Seq(Phdr) /\ end \in Nat /\ end % Page = 0
  BY SegmentStep DEF FoundInv, Given
<1>2. Segments \subseteq Nat
  BY <1>1 DEF Segments
<1>3. /\ prog_data \in Nat
      /\ \A p \in DOMAIN table :
           \E k \in Segments : k <= i /\ \E v \in Bytes(Segment(k)) : p = v \div Page
      /\ \A a \in DOMAIN memory : a \in Nat /\ a < Up(prog_data, Page)
      /\ \A k \in Segments : k <= i => /\ Mine(memory, table, Segment(k))
                                       /\ \A v \in Bytes(Segment(k)) : v >= end
  BY <1>1 DEF ArriveInv
<1>4. CASE i + 1 \notin Segments /\ UNCHANGED <<table, memory, prog_data>>
  <2>1. \A k \in Segments : k <= i + 1 <=> k <= i
    BY <1>1, <1>2, <1>4
  <2> QED
    BY <1>3, <1>4, <2>1 DEF Arrived
<1>5. CASE i + 1 \in Segments /\ Next(h)
  <2>1. /\ h \in Phdr /\ h.memsz \in Nat
    BY <1>1, PhdrIs
  <2>2. PICK goal \in Nat, first \in Nat : \E new \in SUBSET {first + n : n \in Pages(h)} :
            /\ goal * Page = Up(prog_data, Page) /\ first = h.vaddr \div Page
            /\ DOMAIN TableWith(h) = DOMAIN table \cup new
            /\ \A n \in Pages(h) : first + n \in new => TableWith(h)[first + n] = goal + n
            /\ \A p \in DOMAIN table : p \notin new => TableWith(h)[p] = table[p]
    BY <1>3, <2>1, TableIs
  <2>3. PICK new \in SUBSET {first + n : n \in Pages(h)} :
            /\ goal * Page = Up(prog_data, Page) /\ first = h.vaddr \div Page
            /\ DOMAIN table' = DOMAIN table \cup new
            /\ \A n \in Pages(h) : first + n \in new => table'[first + n] = goal + n
            /\ \A p \in DOMAIN table : p \notin new => table'[p] = table[p]
    BY <1>5, <2>2 DEF Next
  <2>4. ASSUME NEW v \in Bytes(h) PROVE v >= end /\ v \div Page \in DOMAIN table'
    <3>1. v >= end
      BY <1>1, <1>5, <2>1, BelowIs DEF Next
    <3>2. Seen(v)
      BY <1>5 DEF Next
    <3>3. v \div Page \notin object
      BY <1>5 DEF Separate
    <3>4. v \in Int
      BY <2>1 DEF Bytes, Phdr
    <3> QED
      BY <1>1, <3>1, <3>2, <3>3, <3>4 DEF Seen
  <2>5. memory' = MemoryWith(h) /\ prog_data' = prog_data + Up(h.memsz, Page)
    BY <1>5 DEF Next, Advance
  \* The other segments' bytes are in other pages.
  <2>7. ASSUME NEW k \in Segments, k <= i, NEW w \in Bytes(Segment(k))
        PROVE  w \div Page \notin new /\ \A v \in Bytes(h) : v \div Page # w \div Page
    <3>1. k # i + 1
      BY <1>1, <1>2, <2>7
    <3>2. \A v \in Bytes(h) : v \div Page # w \div Page
      BY <1>5, <3>1 DEF Separate
    <3>3. \A n \in Pages(h) : \E v \in Bytes(h) : v \div Page = first + n
      BY <2>1, <2>3, PageTouched
    <3> QED
      BY <2>3, <3>2, <3>3
  <2>8. Placed(h, goal)
    <3> SUFFICES ASSUME NEW v \in Bytes(h)
                 PROVE  /\ v \div Page \in DOMAIN table'
                        /\ \E n \in Pages(h) : /\ v \div Page = first + n
                                               /\ table'[v \div Page] = goal + n
      BY <2>3 DEF Placed
    <3>1. v \div Page \notin DOMAIN table
      BY <1>3, <2>7
    <3>2. v \div Page \in new
      BY <2>3, <2>4, <3>1
    <3>3. PICK n \in Pages(h) : v \div Page = first + n
      BY <2>3, <3>2
    <3> QED
      BY <2>3, <2>4, <3>2, <3>3
  <2>9. h.filesz <= h.memsz
    BY <1>5 DEF Separate
  <2> HIDE DEF h
  <2>11. /\ \A v \in Bytes(h) : PA(table', v) \in DOMAIN memory'
                                /\ memory'[PA(table', v)] = Byte(h, v)
         /\ \A a \in DOMAIN memory : a < goal * Page /\ a \in Int =>
                a \in DOMAIN memory' /\ memory'[a] = memory[a]
         /\ \A a \in DOMAIN memory' : a \in DOMAIN memory \/ \E v \in Bytes(h) : a = PA(table', v)
    BY <2>1, <2>5, <2>8, CopiedIs
  <2>12. /\ prog_data' \in Nat
         /\ Up(prog_data', Page) = Up(prog_data, Page) + Up(h.memsz, Page)
         /\ Up(h.memsz, Page) \in Nat /\ Up(prog_data, Page) \in Nat
    <3>1. PICK m \in Nat : Up(h.memsz, Page) = m * Page /\ m * Page \in Nat
      BY <2>1, UpPages
    <3>2. Up(prog_data + m * Page, Page) = Up(prog_data, Page) + m * Page
      BY <1>3, UpAdds
    <3>3. goal * Page \in Nat
      BY <1>3, <2>3, UpPages
    <3> QED
      BY <1>3, <2>3, <2>5, <3>1, <3>2, <3>3
  <2>13. ASSUME NEW a \in DOMAIN memory'
         PROVE  a \in Nat /\ a < Up(prog_data', Page)
    <3>1. CASE a \in DOMAIN memory
      BY <1>3, <2>12, <3>1
    <3>2. CASE \E v \in Bytes(h) : a = PA(table', v)
      <4>1. PICK v \in Bytes(h) : a = PA(table', v)
        BY <3>2
      <4>2. \E n \in Pages(h) : /\ v \div Page = h.vaddr \div Page + n
                                /\ table'[v \div Page] = goal + n
        BY <2>8 DEF Placed
      <4>3. PA(table', v) \in Nat /\ PA(table', v) < goal * Page + Up(h.memsz, Page)
        BY <2>1, <2>9, <4>2, SegmentPlaced
      <4> QED
        BY <2>3, <2>12, <4>1, <4>3
    <3> QED
      BY <2>11, <3>1, <3>2
  <2>14. ASSUME NEW k \in Segments, k <= i
         PROVE  Mine(memory', table', Segment(k))
    <3> SUFFICES ASSUME NEW v \in Bytes(Segment(k))
                 PROVE  /\ v \div Page \in DOMAIN table'
                        /\ PA(table', v) \in DOMAIN memory'
                        /\ memory'[PA(table', v)] = Byte(Segment(k), v)
      BY DEF Mine
    <3>1. /\ v \div Page \in DOMAIN table /\ PA(table, v) \in DOMAIN memory
          /\ memory[PA(table, v)] = Byte(Segment(k), v)
      BY <1>3, <2>14 DEF Mine
    <3>2. v \div Page \in DOMAIN table' /\ table'[v \div Page] = table[v \div Page]
      BY <2>3, <2>7, <2>14, <3>1
    <3>3. PA(table', v) = PA(table, v)
      BY <3>2 DEF PA
    <3>4. PA(table, v) < goal * Page /\ PA(table, v) \in Int
      BY <1>3, <2>3, <3>1
    <3> QED
      BY <2>11, <3>1, <3>2, <3>3, <3>4
  <2>15. Mine(memory', table', h)
    BY <2>4, <2>11 DEF Mine
  <2>16. ASSUME NEW k \in Segments, k <= i + 1 PROVE k <= i \/ k = i + 1
    <3>1. k \in Nat
      BY <1>2
    <3> QED
      BY <1>1, <2>16, <3>1
  <2>17. \A k \in Segments : k <= i + 1 => /\ Mine(memory', table', Segment(k))
                                           /\ \A v \in Bytes(Segment(k)) : v >= end
    BY <1>3, <2>4, <2>14, <2>15, <2>16 DEF h
  <2>18. ASSUME NEW p \in DOMAIN table'
         PROVE  \E k \in Segments : k <= i + 1 /\ \E v \in Bytes(Segment(k)) : p = v \div Page
    <3>1. CASE p \in DOMAIN table
      <4>1. PICK k \in Segments : k <= i /\ \E v \in Bytes(Segment(k)) : p = v \div Page
        BY <1>3, <3>1
      <4>2. k <= i + 1
        BY <1>1, <1>2, <4>1
      <4> QED
        BY <4>1, <4>2
    <3>2. CASE p \in new
      <4>1. PICK n \in Pages(h) : p = first + n
        BY <2>3, <3>2
      <4>2. \E v \in Bytes(h) : v \div Page = first + n
        BY <2>1, <2>3, PageTouched
      <4>3. i + 1 <= i + 1
        BY <1>1
      <4> QED
        BY <1>5, <4>1, <4>2, <4>3 DEF h
    <3> QED
      BY <2>3, <3>1, <3>2
  <2> QED
    BY <2>12, <2>13, <2>17, <2>18 DEF Arrived
<1> QED
  BY <1>4, <1>5, SegmentStep

LEMMA NoPages == DOMAIN <<>> = {}
  OBVIOUS

\* What the boot loader and the process have put where stays there.
LEMMA ImageFixed ==
  ASSUME UNCHANGED <<archive, image, end, data, object>>
  PROVE  /\ Segments' = Segments /\ (Separate' <=> Separate)
         /\ \A k : Segment(k)' = Segment(k)
         /\ \A k, v : Byte(Segment(k), v)' = Byte(Segment(k), v)
<1>1. At(data)' = At(data)
  BY DEF At
<1> QED
  BY <1>1 DEF Segments, Separate, Segment, Byte, Source, File, Bytes

\* The parts of ArriveInv in the state a step leads to.
LEMMA ArriveNext ==
  ASSUME UNCHANGED <<archive, image, end, data, object>>, NEW j, i' = j,
         pc' \notin {"tar_calc_size", "tar_fopen", "elf32_load", "create", "calloc"},
         pc' \in {"segments", "run"} /\ Separate => Arrived(j),
         pc' = "run" => j = Len(image.phdrs)
  PROVE  ArriveInv'
<1>1. /\ Segments' = Segments /\ (Separate' <=> Separate)
      /\ \A k : Segment(k)' = Segment(k)
      /\ \A k, v : Byte(Segment(k), v)' = Byte(Segment(k), v)
  BY ImageFixed
<1>2. \A k : Mine(memory, table, Segment(k))' <=> Mine(memory', table', Segment(k))
  BY <1>1 DEF Mine, PA, Bytes
<1>3. (\A p \in DOMAIN table :
         \E k \in Segments : k <= i /\ \E v \in Bytes(Segment(k)) : p = v \div Page)'
      <=> \A p \in DOMAIN table' :
         \E k \in Segments : k <= j /\ \E v \in Bytes(Segment(k)) : p = v \div Page
  BY <1>1 DEF Bytes
<1>4. (\A a \in DOMAIN memory : a \in Nat /\ a < Up(prog_data, Page))'
      <=> \A a \in DOMAIN memory' : a \in Nat /\ a < Up(prog_data', Page)
  BY DEF Up
<1>5. (\A k \in Segments : k <= i => /\ Mine(memory, table, Segment(k))
                                     /\ \A v \in Bytes(Segment(k)) : v >= end)'
      <=> \A k \in Segments : k <= j => /\ Mine(memory', table', Segment(k))
                                        /\ \A v \in Bytes(Segment(k)) : v >= end
  BY <1>1, <1>2 DEF Bytes
<1> QED
  BY <1>1, <1>3, <1>4, <1>5 DEF ArriveInv, Arrived

\* Steps that leave the segments alone.
LEMMA ArriveSame ==
  ASSUME ArriveInv, UNCHANGED <<archive, image, end, data, object, i, table, memory, prog_data>>,
         pc \in {"segments", "run"},
         pc' \in {"segments", "run"}, pc' = "run" => i = Len(image.phdrs)
  PROVE  ArriveInv'
<1>1. Separate => Arrived(i)
  BY DEF ArriveInv, Arrived
<1> QED
  BY <1>1, ArriveNext

LEMMA ArriveKept == FoundInv /\ ArriveInv /\ [LNext]_lvars => ArriveInv'
<1> SUFFICES ASSUME FoundInv, ArriveInv, [LNext]_lvars PROVE ArriveInv'
  OBVIOUS
<1>1. image.phdrs \in Seq(Phdr) /\ Segments \subseteq Nat \ {0}
  <2>1. image.phdrs \in Seq(Phdr)
    BY DEF FoundInv, Given
  <2> QED
    BY <2>1 DEF Segments
<1>2. CASE CalcSize \/ Find \/ ReadHeader \/ Create
  <2>1. /\ UNCHANGED <<image, i, table, memory>> /\ i = 0 /\ table = <<>> /\ memory = <<>>
        /\ pc' \in {"tar_fopen", "fault", "elf32_load", "null process", "create", "damaged",
                    "calloc"}
    BY <1>2 DEF CalcSize, Find, ReadHeader, Create, boot, ArriveInv
  <2> QED
    BY <2>1 DEF ArriveInv
<1>3. CASE Calloc
  <2>1. /\ UNCHANGED <<archive, image, end, data, object, i, table, memory>>
        /\ i = 0 /\ table = <<>> /\ memory = <<>>
        /\ prog_data' \in Nat /\ pc' \in {"for ever", "segments"}
    BY <1>3 DEF Calloc, boot, process, ArriveInv
  <2>2. DOMAIN table' = {} /\ DOMAIN memory' = {} /\ i' = 0
    BY <2>1, NoPages
  <2>3. \A k \in Segments : ~(k <= 0)
    <3> SUFFICES ASSUME NEW k \in Segments PROVE ~(k <= 0)
      OBVIOUS
    <3>1. k \in Nat /\ k # 0
      BY <1>1
    <3> QED
      BY <3>1
  <2>4. Arrived(0)
    BY <2>1, <2>2, <2>3 DEF Arrived
  <2> QED
    BY <2>1, <2>2, <2>4, ArriveNext
<1>4. CASE LoadSegment
  <2>1. UNCHANGED <<archive, image, end, data, object>> /\ i' = i + 1 /\ pc = "segments"
        /\ pc' \in {"segments", "fault", "for ever", "remapped"}
    BY <1>4, SegmentStep DEF Next
  <2>2. pc' \in {"segments", "run"} /\ Separate => Arrived(i + 1)
    BY <1>4, <2>1, SegmentArrives
  <2>3. pc' \notin {"tar_calc_size", "tar_fopen", "elf32_load", "create", "calloc"} /\ pc' # "run"
    BY <2>1
  <2> QED
    BY <2>1, <2>2, <2>3, ArriveNext
<1>5. CASE Loaded
  <2>1. /\ UNCHANGED <<archive, image, end, data, object, i, table, memory, prog_data>>
        /\ pc = "segments" /\ pc' = "run" /\ i = Len(image.phdrs)
    BY <1>5 DEF Loaded, boot, process
  <2> QED
    BY <2>1, ArriveSame
<1>6. CASE UNCHANGED lvars
  <2>1. UNCHANGED <<archive, image, end, data, object, i, table, memory, prog_data, pc>>
    BY <1>6 DEF lvars, boot, process
  <2>2. CASE pc \in {"segments", "run"}
    BY <2>1, <2>2, ArriveSame DEF ArriveInv
  <2>3. CASE pc \notin {"segments", "run"}
    BY <2>1, <2>3 DEF ArriveInv
  <2> QED
    BY <2>2, <2>3
<1> QED
  BY <1>2, <1>3, <1>4, <1>5, <1>6 DEF LNext

\* A process that runs finds every byte of its separate segments that the ramdisk
\* has below kernel_pg_end where the linker has put it, behind kernel_pg_end, for
\* every archive and image, whatever UserHeap has entries for, whichever tables
\* PagesHeap could give and wherever calloc's block begins (elf.cpp:37-76).
THEOREM ImageArrives == LSpec => []ImageRight
<1>1. LInit => ArriveInv
  BY DEF LInit, ArriveInv
<1>2. FoundInv /\ ArriveInv => ImageRight
  <2> SUFFICES ASSUME FoundInv, ArriveInv, pc = "run", Separate, NEW k \in Segments,
                      NEW v \in Bytes(Segment(k))
               PROVE  /\ v >= end
                      /\ Source(Segment(k), v) < end =>
                            memory[table[v \div Page] * Page + (v % Page)]
                              = Segment(k).offset + v - Segment(k).vaddr
    BY DEF ImageRight
  <2>1. k <= i
    <3>1. image.phdrs \in Seq(Phdr)
      BY DEF FoundInv, Given
    <3> QED
      BY <3>1 DEF Segments, ArriveInv
  <2>2. Mine(memory, table, Segment(k)) /\ v >= end
    BY <2>1 DEF ArriveInv
  <2> QED
    BY <2>2 DEF Mine, PA, Byte
<1> QED
  BY <1>1, <1>2, FoundInit, FoundKept, ArriveKept, PTL DEF LSpec

-----------------------------------------------------------------------------
(* The room of the image. *)

NamesFiles == \A k \in DOMAIN archive : archive[k].name = Kern => ~archive[k].dir

Exact == \A k \in Segments : Segment(k).memsz = Segment(k).filesz

FileApart == \A j, k \in Segments : j # k =>
                FilePages(Segment(j)) \cap FilePages(Segment(k)) = {}

Tidy == NamesFiles /\ Exact /\ FileApart

\* The pages of the file that hold a part of the first j segments.
Used(j) == UNION {FilePages(Segment(k)) : k \in {k \in Segments : k <= j}}

Early == {"tar_calc_size", "tar_fopen", "elf32_load", "create", "calloc"}

RoomInv ==
    /\ size \in Nat
    /\ pc \in Early => i = 0 /\ table = <<>>
    /\ NamesFiles /\ pc \notin {"tar_calc_size", "tar_fopen"} /\ data # Null =>
         size = archive[data].size
    /\ pc = "segments" \/ DOMAIN table # {} =>
         buffer \in Nat /\ room = size + 2 * Page /\ data # Null /\ image.elf
         /\ pc \notin Early
    /\ Tidy => \A p \in DOMAIN table :
         /\ table[p] \in Nat
         /\ Up(buffer, Page) <= table[p] * Page
         /\ (table[p] + 1) * Page <= Up(buffer, Page) + Cardinality(Used(i)) * Page
    /\ pc = "segments" /\ Tidy =>
         /\ prog_data \in Nat
         /\ Up(buffer, Page) <= Up(prog_data, Page)
         /\ Up(prog_data, Page) <= Up(buffer, Page) + Cardinality(Used(i)) * Page

LEMMA FilePagesFinite ==
  ASSUME size \in Nat, NEW j
  PROVE  /\ Used(j) \subseteq 0 .. size /\ IsFiniteSet(Used(j)) /\ Cardinality(Used(j)) \in Nat
         /\ \A h : IsFiniteSet(FilePages(h)) /\ Cardinality(FilePages(h)) \in Nat
<1>1. IsFiniteSet(0 .. size)
  BY FS_Interval
<1>2. Used(j) \subseteq 0 .. size /\ \A h : FilePages(h) \subseteq 0 .. size
  BY DEF Used, FilePages
<1>3. IsFiniteSet(Used(j)) /\ \A h : IsFiniteSet(FilePages(h))
  BY <1>1, <1>2, FS_Subset
<1> QED
  BY <1>2, <1>3, FS_CardinalityType

\* A segment touches at least as many pages of the file as are entered for it.
LEMMA FilePagesEnough ==
  ASSUME size \in Nat, NEW h \in Phdr, h.offset + h.filesz <= size,
         NEW m \in Nat, Up(h.filesz, Page) = m * Page
  PROVE  m <= Cardinality(FilePages(h))
<1>1. h.offset \in Nat /\ h.filesz \in Nat
  BY DEF Phdr
<1>2. PICK lo \in Nat, z \in 0 .. Page - 1 :
            /\ h.offset \div Page = lo /\ h.offset % Page = z /\ h.offset = lo * Page + z
            /\ lo * Page \in Nat /\ (lo + 1) * Page = lo * Page + Page
  BY <1>1, Div
<1>3. PICK q \in Nat : /\ Up(h.filesz, Page) = q * Page /\ Up(h.filesz, Page) \div Page = q
                      /\ q * Page \in Nat /\ h.filesz <= q * Page /\ q * Page < h.filesz + Page
  BY <1>1, UpPages
<1>4. PICK mp \in Nat, lp \in Nat : m * Page = mp /\ lo * Page = lp
  BY Mul
<1>5. mp < h.filesz + Page /\ h.offset = lp + z /\ z < Page /\ z \in Nat
  BY <1>2, <1>3, <1>4
<1>6. ASSUME NEW n \in lo .. lo + m - 1
      PROVE  n \in FilePages(h)
  <2>1. PICK d \in Nat : n = lo + d /\ d + 1 <= m
    <3>1. n - lo \in Nat /\ n = lo + (n - lo) /\ (n - lo) + 1 <= m
      OBVIOUS
    <3> QED
      BY <3>1
  <2>2. PICK dp \in Nat : d * Page = dp
    BY Mul
  <2>3. (d + 1) * Page = dp + Page /\ (d + 1) * Page <= mp
    <3>1. d + 1 \in Int
      OBVIOUS
    <3> QED
      BY <2>1, <2>2, <1>4, <3>1, Mul
  <2>4. n * Page = lp + dp /\ (n + 1) * Page = lp + dp + Page /\ n \in Nat
    <3>1. (lo + d) * Page = lo * Page + d * Page
      BY Mul
    <3>2. n \in Int /\ (n + 1) * Page = n * Page + Page
      BY Mul
    <3> QED
      BY <1>4, <2>1, <2>2, <3>1, <3>2
  <2>5. lp + dp < h.offset + h.filesz /\ lp + dp + Page > h.offset
    <3>1. PICK off \in Nat, sz \in Nat, pg \in Nat : off = h.offset /\ sz = h.filesz /\ pg = Page
      BY <1>1, LoaderAssumption
    <3>2. dp + pg <= mp /\ mp < sz + pg /\ off = lp + z /\ z < pg
      BY <1>5, <2>3, <3>1
    <3>3. lp + dp < off + sz /\ lp + dp + pg > off
      BY <3>2
    <3> QED
      BY <3>1, <3>3
  <2>6. n <= n * Page
    BY <2>4, Mul
  <2>7. n \in 0 .. size
    <3>1. PICK end_of \in Nat, sz \in Nat : end_of = h.offset + h.filesz /\ sz = size
      BY <1>1
    <3>2. n <= lp + dp /\ lp + dp < end_of /\ end_of <= sz /\ n \in Nat
      BY <2>4, <2>5, <2>6, <3>1
    <3>3. n <= sz
      BY <3>2
    <3> QED
      BY <3>1, <3>2, <3>3
  <2> QED
    BY <2>4, <2>5, <2>7 DEF FilePages
<1>7. Cardinality(lo .. lo + m - 1) = m
  <2>1. PICK hi \in Int : hi = lo + m - 1
    OBVIOUS
  <2>2. Cardinality(lo .. hi) = IF lo > hi THEN 0 ELSE hi - lo + 1
    <3>1. lo \in Int
      OBVIOUS
    <3> QED
      BY <3>1, FS_Interval
  <2>3. lo > hi => m = 0
    BY <2>1
  <2>4. hi - lo + 1 = m
    BY <2>1
  <2> QED
    BY <2>1, <2>2, <2>3, <2>4
<1>8. lo .. lo + m - 1 \in SUBSET FilePages(h)
  BY <1>6
<1> QED
  BY <1>7, <1>8, FilePagesFinite, FS_Subset

\* A segment fits in the file whose size tar_ftell has told.
LEMMA SegmentInSize ==
  ASSUME FoundInv, RoomInv, NamesFiles, pc \notin Early, data # Null, image.elf,
         NEW k \in Segments
  PROVE  /\ Segment(k) \in Phdr /\ Segment(k).offset \in Nat /\ Segment(k).filesz \in Nat
         /\ Segment(k).offset + Segment(k).filesz <= size /\ size \in Nat
<1>1. Given /\ data \in DOMAIN archive /\ IsFile(archive[data]) /\ size = archive[data].size
  BY DEF FoundInv, RoomInv, Early
<1>2. k \in DOMAIN image.phdrs
  BY DEF Segments
<1>3. Segment(k).offset + Segment(k).filesz <= archive[data].size
  BY <1>1, <1>2 DEF Given, InFile, IsFile, Segment
<1> QED
  BY <1>1, <1>2, <1>3, PhdrIs DEF RoomInv

\* No more pages of the file than it has.
LEMMA UsedBound ==
  ASSUME FoundInv, RoomInv, NamesFiles, pc \notin Early, data # Null, image.elf,
         NEW m \in Nat, Up(size, Page) = m * Page, NEW j
  PROVE  Cardinality(Used(j)) <= m
<1>1. size \in Nat
  BY DEF RoomInv
<1>2. size <= m * Page
  BY <1>1, UpPages
<1>3. ASSUME NEW n \in Used(j)
      PROVE  n \in 0 .. m - 1
  <2>1. PICK k \in Segments : n \in FilePages(Segment(k))
    BY DEF Used
  <2>2. Segment(k).offset + Segment(k).filesz <= size
        /\ Segment(k).offset \in Nat /\ Segment(k).filesz \in Nat
    BY SegmentInSize
  <2>3. n \in Nat /\ n * Page < Segment(k).offset + Segment(k).filesz
    BY <1>1, <2>1 DEF FilePages
  <2>4. n * Page \in Int /\ m * Page \in Int
    BY <2>3, Mul
  <2>5. n * Page < m * Page
    BY <1>1, <1>2, <2>2, <2>3, <2>4
  <2>6. n < m
    BY <2>3, <2>5, Mul
  <2> QED
    BY <2>3, <2>6
<1>4. Used(j) \in SUBSET (0 .. m - 1)
  BY <1>3
<1>5. IsFiniteSet(0 .. m - 1) /\ Cardinality(0 .. m - 1) = m
  <2>1. PICK hi \in Int : hi = m - 1
    OBVIOUS
  <2>2. IsFiniteSet(0 .. hi) /\ Cardinality(0 .. hi) = IF 0 > hi THEN 0 ELSE hi - 0 + 1
    <3>1. 0 \in Int
      OBVIOUS
    <3> QED
      BY <3>1, FS_Interval
  <2>3. (0 > hi => m = 0) /\ hi - 0 + 1 = m
    BY <2>1
  <2> QED
    BY <2>1, <2>2, <2>3
<1> QED
  BY <1>4, <1>5, FS_Subset

LEMMA UsedGrows ==
  ASSUME size \in Nat, i \in Nat, Segments \subseteq Nat
  PROVE  /\ i + 1 \notin Segments => Used(i + 1) = Used(i)
         /\ i + 1 \in Segments /\ FileApart =>
              Cardinality(Used(i + 1))
                = Cardinality(Used(i)) + Cardinality(FilePages(Segment(i + 1)))
<1>1. \A k \in Segments : k <= i + 1 <=> k <= i \/ k = i + 1
  <2> SUFFICES ASSUME NEW k \in Segments PROVE k <= i + 1 <=> k <= i \/ k = i + 1
    OBVIOUS
  <2>1. k \in Nat
    OBVIOUS
  <2> QED
    BY <2>1
<1>2. ASSUME i + 1 \notin Segments PROVE Used(i + 1) = Used(i)
  <2>1. \A k \in Segments : k <= i + 1 <=> k <= i
    BY <1>1, <1>2
  <2> QED
    BY <2>1 DEF Used
<1>3. ASSUME i + 1 \in Segments, FileApart
      PROVE  Cardinality(Used(i + 1))
               = Cardinality(Used(i)) + Cardinality(FilePages(Segment(i + 1)))
  <2> DEFINE F == FilePages(Segment(i + 1))
  <2>1. Used(i + 1) = Used(i) \cup F
    BY <1>1, <1>3 DEF Used
  <2>2. Used(i) \cap F = {}
    <3> SUFFICES ASSUME NEW k \in Segments, k <= i
                 PROVE  FilePages(Segment(k)) \cap F = {}
      BY DEF Used
    <3>1. k # i + 1
      <4>1. k \in Nat
        OBVIOUS
      <4> QED
        BY <4>1
    <3> QED
      BY <1>3, <3>1 DEF FileApart
  <2>3. /\ IsFiniteSet(Used(i)) /\ IsFiniteSet(F)
        /\ Cardinality(Used(i)) \in Nat /\ Cardinality(F) \in Nat
    BY FilePagesFinite
  <2>4. Cardinality(Used(i) \cup F)
          = Cardinality(Used(i)) + Cardinality(F) - Cardinality(Used(i) \cap F)
    BY <2>3, FS_Union
  <2>5. Cardinality(Used(i) \cap F) = 0
    BY <2>2, FS_EmptySet
  <2>6. PICK a \in Nat, b \in Nat : a = Cardinality(Used(i)) /\ b = Cardinality(F)
    BY <2>3
  <2>7. Cardinality(Used(i) \cup F) = a + b - 0
    BY <2>4, <2>5, <2>6
  <2>8. a + b - 0 = a + b
    OBVIOUS
  <2>9. Cardinality(Used(i + 1)) = a + b
    BY <2>1, <2>7, <2>8
  <2> QED
    BY <2>6, <2>9
<1> QED
  BY <1>2, <1>3

LEMMA RoomTaken ==
  ASSUME NEW begin \in Nat, NEW gp \in Nat, NEW op \in Nat, NEW ap \in Nat, NEW x \in Nat,
         NEW y \in Nat, begin <= gp, gp <= begin + op, x + y <= ap
  PROVE  gp + x + y <= begin + (op + ap) /\ begin <= gp + x
  OBVIOUS

\* What the next segment takes of the room.
LEMMA SegmentRoom ==
  ASSUME FoundInv, RoomInv, LoadSegment, Tidy, i + 1 \in Segments, Next(Segment(i + 1))
  PROVE  LET begin == Up(buffer, Page)
             taken == Cardinality(Used(i + 1)) * Page
         IN  /\ \A p \in DOMAIN table' :
                  /\ table'[p] \in Nat /\ begin <= table'[p] * Page
                  /\ (table'[p] + 1) * Page <= begin + taken
             /\ pc' = "segments" =>
                  /\ prog_data' \in Nat /\ begin <= Up(prog_data', Page)
                  /\ Up(prog_data', Page) <= begin + taken
<1> DEFINE h == Segment(i + 1)
<1>1. /\ i + 1 \in DOMAIN image.phdrs /\ pc = "segments" /\ i \in Nat /\ Given
      /\ image.phdrs \in Seq(Phdr) /\ data # Null /\ image.elf /\ size \in Nat
  BY SegmentStep DEF FoundInv, Given, RoomInv
<1>2. Segments \subseteq Nat
  BY <1>1 DEF Segments
<1>3. /\ prog_data \in Nat /\ buffer \in Nat
      /\ Up(buffer, Page) <= Up(prog_data, Page)
      /\ Up(prog_data, Page) <= Up(buffer, Page) + Cardinality(Used(i)) * Page
      /\ \A p \in DOMAIN table :
           /\ table[p] \in Nat /\ Up(buffer, Page) <= table[p] * Page
           /\ (table[p] + 1) * Page <= Up(buffer, Page) + Cardinality(Used(i)) * Page
  BY <1>1 DEF RoomInv
<1>4. /\ h \in Phdr /\ h.filesz \in Nat /\ h.offset + h.filesz <= size
      /\ h.memsz = h.filesz
  <2>1. pc \notin Early
    BY <1>1 DEF Early
  <2> QED
    BY <1>1, <2>1, SegmentInSize DEF Tidy, Exact
<1>5. PICK goal \in Nat, first \in Nat : \E new \in SUBSET {first + n : n \in Pages(h)} :
            /\ goal * Page = Up(prog_data, Page) /\ first = h.vaddr \div Page
            /\ DOMAIN TableWith(h) = DOMAIN table \cup new
            /\ \A n \in Pages(h) : first + n \in new => TableWith(h)[first + n] = goal + n
            /\ \A p \in DOMAIN table : p \notin new => TableWith(h)[p] = table[p]
  BY <1>3, <1>4, TableIs
<1>6. PICK t, new : /\ t = table' /\ new \in SUBSET {first + n : n \in Pages(h)}
                    /\ goal * Page = Up(prog_data, Page) /\ first = h.vaddr \div Page
                    /\ DOMAIN t = DOMAIN table \cup new
                    /\ \A n \in Pages(h) : first + n \in new => t[first + n] = goal + n
                    /\ \A p \in DOMAIN table : p \notin new => t[p] = table[p]
  BY <1>5 DEF Next
<1>7. PICK m \in Nat : /\ Up(h.filesz, Page) = m * Page /\ Up(h.filesz, Page) \div Page = m
                      /\ m * Page \in Nat /\ h.filesz <= m * Page
                      /\ m * Page < h.filesz + Page
  BY <1>4, UpPages
<1>8. PICK old \in Nat, more \in Nat :
         old = Cardinality(Used(i)) /\ more = Cardinality(FilePages(h))
  BY <1>1, FilePagesFinite
<1>9. Cardinality(Used(i + 1)) = old + more
  BY <1>1, <1>2, <1>8, UsedGrows DEF Tidy
<1>10. m <= more
  BY <1>1, <1>4, <1>7, <1>8, FilePagesEnough
<1> HIDE DEF h
<1>11. PICK mp \in Nat, op \in Nat, ap \in Nat, gp \in Nat :
          /\ m * Page = mp /\ old * Page = op /\ more * Page = ap /\ goal * Page = gp
          /\ (old + more) * Page = op + ap /\ mp <= ap
  <2>1. m * Page \in Nat /\ old * Page \in Nat /\ more * Page \in Nat /\ goal * Page \in Nat
    BY Mul
  <2>2. (old + more) * Page = old * Page + more * Page /\ m * Page <= more * Page
    BY <1>10, Mul
  <2> QED
    BY <2>1, <2>2
<1>12. PICK begin \in Nat : Up(buffer, Page) = begin
  BY <1>3, UpPages
<1>13. begin <= gp /\ gp <= begin + op /\ gp = Up(prog_data, Page)
  BY <1>3, <1>6, <1>8, <1>11, <1>12
<1>14. ASSUME NEW p \in DOMAIN t
       PROVE  /\ t[p] \in Nat /\ begin <= t[p] * Page
              /\ (t[p] + 1) * Page <= begin + (op + ap)
  <2>1. CASE p \in new
    <3>1. PICK n \in Pages(h) : p = first + n
      BY <1>6, <2>1
    <3>2. n \in Nat /\ n * Page < h.filesz
      BY <3>1 DEF Pages
    <3>3. t[p] = goal + n
      BY <1>6, <2>1, <3>1
    <3>4. PICK np \in Nat : n * Page = np /\ (goal + n) * Page = gp + np
                           /\ ((goal + n) + 1) * Page = gp + np + Page
      <4>1. goal + n \in Int /\ n * Page \in Nat
        BY <3>2, Mul
      <4>2. (goal + n) * Page = goal * Page + n * Page
            /\ ((goal + n) + 1) * Page = (goal + n) * Page + Page
        BY <3>2, <4>1, Mul
      <4> QED
        BY <1>11, <4>1, <4>2
    <3>5. np < mp
      <4>1. np < h.filesz /\ h.filesz <= mp
        BY <1>7, <1>11, <3>2, <3>4
      <4> QED
        BY <1>4, <4>1
    <3>6. np + Page <= mp
      <4>1. n * Page < m * Page
        BY <1>11, <3>4, <3>5
      <4>2. n < m
        BY <3>2, <4>1, Mul
      <4>3. n + 1 <= m /\ n + 1 \in Int
        BY <3>2, <4>2
      <4>4. (n + 1) * Page <= m * Page /\ (n + 1) * Page = n * Page + Page
        BY <3>2, <4>3, Mul
      <4> QED
        BY <1>11, <3>4, <4>4
    <3>7. gp + np + Page <= begin + (op + ap) /\ begin <= gp + np
      <4>1. np + Page <= ap /\ Page \in Nat
        <5>1. Page \in Nat
          BY LoaderAssumption
        <5>2. mp <= ap
          BY <1>11
        <5> QED
          BY <3>6, <5>1, <5>2
      <4>2. begin <= gp /\ gp <= begin + op
        BY <1>13
      <4> QED
        BY <4>1, <4>2, RoomTaken
    <3> QED
      BY <3>2, <3>3, <3>4, <3>7
  <2>2. CASE p \notin new
    <3>1. p \in DOMAIN table /\ t[p] = table[p]
      BY <1>6, <2>2
    <3>2. /\ t[p] \in Nat /\ begin <= t[p] * Page
          /\ (t[p] + 1) * Page <= begin + op
      BY <1>3, <1>8, <1>11, <1>12, <3>1
    <3>3. (t[p] + 1) * Page \in Int
      BY <3>2, Mul
    <3> QED
      BY <3>2, <3>3
  <2> QED
    BY <2>1, <2>2
<1>15. ASSUME pc' = "segments"
       PROVE  /\ prog_data' \in Nat /\ begin <= Up(prog_data', Page)
              /\ Up(prog_data', Page) <= begin + (op + ap)
  <2>1. prog_data' = prog_data + m * Page
    <3>1. prog_data' = prog_data + Up(h.memsz, Page)
      BY <1>15 DEF Next, Advance, h
    <3> QED
      BY <1>4, <1>7, <3>1
  <2>2. Up(prog_data', Page) = gp + mp
    <3>1. Up(prog_data + m * Page, Page) = Up(prog_data, Page) + m * Page
      BY <1>3, UpAdds
    <3> QED
      BY <1>11, <1>13, <2>1, <3>1
  <2>3. prog_data' \in Nat
    BY <1>3, <1>11, <2>1
  <2>4. gp + mp + 0 <= begin + (op + ap) /\ begin <= gp + mp
    <3>1. mp + 0 <= ap
      BY <1>11
    <3>2. begin <= gp /\ gp <= begin + op
      BY <1>13
    <3> QED
      BY <3>1, <3>2, RoomTaken
  <2>5. gp + mp + 0 = gp + mp
    OBVIOUS
  <2> QED
    BY <2>2, <2>3, <2>4, <2>5
<1>16. Cardinality(Used(i + 1)) * Page = op + ap
  BY <1>9, <1>11
<1> QED
  BY <1>6, <1>12, <1>14, <1>15, <1>16

LEMMA ConstantsFixed ==
  ASSUME UNCHANGED <<archive, image, size>>
  PROVE  /\ (Tidy' <=> Tidy) /\ (NamesFiles' <=> NamesFiles)
         /\ \A j : Used(j)' = Used(j)
<1>1. /\ Segments' = Segments
      /\ \A k : Segment(k)' = Segment(k)
  BY DEF Segments, Segment
<1>2. \A k : FilePages(Segment(k))' = FilePages(Segment(k))
  BY <1>1 DEF FilePages
<1>3. (NamesFiles' <=> NamesFiles) /\ (Exact' <=> Exact)
  BY <1>1 DEF NamesFiles, Exact
<1>4. FileApart' <=> FileApart
  BY <1>1, <1>2 DEF FileApart
<1>5. \A j : Used(j)' = Used(j)
  BY <1>1, <1>2 DEF Used
<1> QED
  BY <1>3, <1>4, <1>5 DEF Tidy

\* The parts of RoomInv in a state behind the ramdisk.
LEMMA RoomNext ==
  ASSUME UNCHANGED <<archive, image, size, buffer, room, data>>, RoomInv,
         NEW j, i' = j, NEW t, table' = t, NEW next, prog_data' = next,
         pc \notin Early, pc' \notin Early,
         pc' = "segments" \/ DOMAIN t # {} =>
            pc = "segments" \/ DOMAIN table # {},
         Tidy => \A p \in DOMAIN t :
            /\ t[p] \in Nat
            /\ Up(buffer, Page) <= t[p] * Page
            /\ (t[p] + 1) * Page <= Up(buffer, Page) + Cardinality(Used(j)) * Page,
         pc' = "segments" /\ Tidy =>
            /\ next \in Nat
            /\ Up(buffer, Page) <= Up(next, Page)
            /\ Up(next, Page) <= Up(buffer, Page) + Cardinality(Used(j)) * Page
  PROVE  RoomInv'
<1>1. (Tidy' <=> Tidy) /\ (NamesFiles' <=> NamesFiles) /\ Used(j)' = Used(j)
  BY ConstantsFixed
<1>2. Used(i)' = Used(j)
  BY <1>1 DEF Used
<1>3. /\ size' \in Nat /\ (pc' \in Early => i' = 0 /\ table' = <<>>)
      /\ NamesFiles' /\ pc' \notin {"tar_calc_size", "tar_fopen"} /\ data' # Null =>
           size' = archive'[data'].size
      /\ pc' = "segments" \/ DOMAIN table' # {} =>
           buffer' \in Nat /\ room' = size' + 2 * Page /\ data' # Null /\ image'.elf
           /\ pc' \notin Early
  BY <1>1 DEF RoomInv, Early
<1>4. Tidy' => \A p \in DOMAIN table' :
         /\ table'[p] \in Nat
         /\ Up(buffer', Page) <= table'[p] * Page
         /\ (table'[p] + 1) * Page <= Up(buffer', Page) + Cardinality(Used(i)') * Page
  BY <1>1, <1>2
<1>5. pc' = "segments" /\ Tidy' =>
         /\ prog_data' \in Nat
         /\ Up(buffer', Page) <= Up(prog_data', Page)
         /\ Up(prog_data', Page) <= Up(buffer', Page) + Cardinality(Used(i)') * Page
  BY <1>1, <1>2
<1> QED
  BY <1>3, <1>4, <1>5, Zenon DEF RoomInv, Early, Up

\* tar_ftell tells the size of what tar_fopen has found, unless a directory has
\* the file's name.
LEMMA SizeFound ==
  ASSUME FoundInv, Find
  PROVE  /\ size' \in Nat
         /\ NamesFiles /\ data' # Null => size' = archive[data'].size
<1>1. archive \in Seq(Member) /\ end \in Nat /\ DOMAIN archive \subseteq Nat \ {0}
  <2>1. archive \in Seq(Member) /\ end \in Nat
    BY DEF FoundInv, Given
  <2> QED
    BY <2>1
<1>2. PICK told : told = First(HasName)
  OBVIOUS
<1>3. IsFirst(Files, data') /\ IsFirst(Named, told)
  BY <1>1, <1>2, FirstIs DEF Find
<1>4. size' = IF told = Null THEN 0 ELSE archive[told].size
  BY <1>2 DEF Find
<1>5. Files \subseteq DOMAIN archive /\ Named \subseteq DOMAIN archive
      /\ Files \subseteq Nat \ {0} /\ Named \subseteq Nat \ {0}
  <2>1. Stop \in 1 .. Len(archive) + 1 /\ Len(archive) \in Nat
        /\ DOMAIN archive = 1 .. Len(archive)
    BY <1>1, StopIs
  <2>2. 1 .. Stop - 1 \subseteq DOMAIN archive
    BY <2>1
  <2> QED
    BY <1>1, <2>2 DEF Files, Named
<1>6. size' \in Nat
  <2>1. CASE told = Null
    BY <1>4, <2>1
  <2>2. CASE told # Null
    <3>1. told \in DOMAIN archive
      BY <1>3, <1>5, <2>2 DEF IsFirst
    <3>2. archive[told].size \in Nat
      BY <3>1, MemberIs DEF FoundInv
    <3> QED
      BY <1>4, <2>2, <3>2
  <2> QED
    BY <2>1, <2>2
<1>7. ASSUME NamesFiles, data' # Null PROVE size' = archive[data'].size
  <2>1. Files = Named
    BY <1>5, <1>7 DEF NamesFiles, Files, Named, IsFile, HasName
  <2>2. Files # {} /\ data' \in Files /\ \A j \in Files : data' <= j
    BY <1>3, <1>7 DEF IsFirst
  <2>3. told \in Files /\ \A j \in Files : told <= j
    BY <1>3, <2>1, <2>2 DEF IsFirst
  <2>4. told \in Nat \ {0} /\ data' \in Nat \ {0} /\ told <= data' /\ data' <= told
    BY <1>5, <2>2, <2>3
  <2>5. told = data' /\ told # Null
    BY <2>4 DEF Null
  <2> QED
    BY <1>4, <2>5
<1> QED
  BY <1>6, <1>7

LEMMA RoomKept == FoundInv /\ RoomInv /\ [LNext]_lvars => RoomInv'
<1> SUFFICES ASSUME FoundInv, RoomInv, [LNext]_lvars PROVE RoomInv'
  OBVIOUS
<1>1. CASE CalcSize \/ Find
  <2>1. /\ i = 0 /\ table = <<>> /\ UNCHANGED <<i, table, archive>>
        /\ pc' \in {"tar_fopen", "fault", "elf32_load"}
    BY <1>1 DEF CalcSize, Find, boot, RoomInv, Early
  <2>2. size' \in Nat
    BY <1>1, SizeFound DEF CalcSize, RoomInv
  <2>3. pc' \notin {"tar_calc_size", "tar_fopen"} /\ NamesFiles /\ data' # Null =>
          size' = archive[data'].size
    BY <1>1, SizeFound DEF CalcSize
  <2>4. NamesFiles' <=> NamesFiles
    BY <2>1 DEF NamesFiles
  <2>5. DOMAIN table' = {} /\ i' = 0 /\ table' = <<>>
    BY <2>1, NoPages
  <2>6. pc' # "segments"
    BY <2>1
  <2> QED
    BY <2>1, <2>2, <2>3, <2>4, <2>5, <2>6 DEF RoomInv
<1>6. CASE ReadHeader \/ Create
  <2>1. /\ i = 0 /\ table = <<>> /\ pc \in {"elf32_load", "create"}
        /\ UNCHANGED <<i, table, archive, size, data>>
        /\ pc' \in {"null process", "fault", "damaged", "create", "calloc"}
    BY <1>6 DEF ReadHeader, Create, boot, RoomInv, Early
  <2>2. /\ (NamesFiles' <=> NamesFiles) /\ size \in Nat
        /\ DOMAIN table' = {} /\ i' = 0 /\ table' = <<>>
        /\ (NamesFiles /\ data # Null => size = archive[data].size)
    BY <2>1, NoPages DEF NamesFiles, RoomInv
  <2>3. pc' # "segments"
    BY <2>1
  <2> QED
    BY <2>1, <2>2, <2>3 DEF RoomInv
<1>2. CASE Calloc
  <2>1. /\ i = 0 /\ table = <<>> /\ pc = "calloc"
        /\ UNCHANGED <<i, table, archive, image, size, data>>
        /\ room' = size' + 2 * Page /\ buffer' \in Nat /\ prog_data' = buffer'
        /\ NamesFiles /\ data' # Null => size' = archive[data'].size
    BY <1>2, LoaderAssumption DEF Calloc, boot, Asked, RoomInv, Early
  <2>2. pc' \in {"for ever", "segments"} /\ data' # Null /\ image'.elf
    BY <1>2, <2>1 DEF Calloc, FoundInv
  <2>3. pc' \notin Early /\ pc' \notin {"tar_calc_size", "tar_fopen"}
    BY <2>2 DEF Early
  <2>4. /\ (NamesFiles' <=> NamesFiles) /\ size \in Nat
        /\ DOMAIN table' = {} /\ i' = 0 /\ table' = <<>>
    BY <2>1, NoPages DEF NamesFiles, RoomInv
  <2>5. /\ Up(buffer', Page) <= Up(prog_data', Page)
        /\ Up(prog_data', Page) <= Up(buffer', Page) + Cardinality(Used(i)') * Page
    <3>1. PICK b \in Nat, begin \in Nat : b = buffer' /\ begin = Up(b, Page)
      <4>1. \A b \in Nat : Up(b, Page) \in Nat
        BY UpPages
      <4> QED
        BY <2>1, <4>1
    <3>2. PICK taken \in Nat : Cardinality(Used(0)) = taken
      BY <2>4, FilePagesFinite
    <3>3. Used(i)' = Used(0)
      <4>1. Used(0)' = Used(0)
        BY <2>1, ConstantsFixed
      <4> QED
        BY <2>4, <4>1 DEF Used
    <3>4. taken * Page \in Nat
      BY Mul
    <3>5. begin <= begin + taken * Page
      BY <3>4
    <3> QED
      BY <2>1, <3>1, <3>2, <3>3, <3>5
  <2>6. Tidy' => \A p \in DOMAIN table' : FALSE
    BY <2>4
  <2> QED
    BY <2>1, <2>2, <2>3, <2>4, <2>5, <2>6 DEF RoomInv
<1>3. CASE LoadSegment
  <2>1. /\ UNCHANGED <<archive, image, size, buffer, room, data>> /\ i' = i + 1
        /\ i \in Nat /\ pc = "segments" /\ Segments \subseteq Nat /\ size \in Nat
    <3>1. image.phdrs \in Seq(Phdr)
      BY DEF FoundInv, Given
    <3>2. Segments \subseteq Nat
      BY <3>1 DEF Segments
    <3> QED
      BY <1>3, <3>2, SegmentStep DEF FoundInv, RoomInv
  <2>2. pc' \in {"segments", "fault", "for ever", "remapped"}
    BY <1>3, <2>1, SegmentStep DEF Next
  <2>3. pc \notin Early /\ pc' \notin Early
    BY <2>1, <2>2 DEF Early
  <2>4. PICK t, next : t = table' /\ next = prog_data'
    OBVIOUS
  <2>5. CASE i + 1 \in Segments /\ Next(Segment(i + 1))
    <3>1. Tidy =>
            /\ \A p \in DOMAIN t :
                 /\ t[p] \in Nat
                 /\ Up(buffer, Page) <= t[p] * Page
                 /\ (t[p] + 1) * Page <= Up(buffer, Page) + Cardinality(Used(i + 1)) * Page
            /\ pc' = "segments" =>
                 /\ next \in Nat
                 /\ Up(buffer, Page) <= Up(next, Page)
                 /\ Up(next, Page) <= Up(buffer, Page) + Cardinality(Used(i + 1)) * Page
      BY <1>3, <2>4, <2>5, SegmentRoom
    <3> QED
      BY <2>1, <2>3, <2>4, <3>1, RoomNext
  <2>7. CASE i + 1 \in Segments /\ pc' = "remapped" /\ UNCHANGED <<table, prog_data>>
    <3>1. t = table /\ next = prog_data
      BY <2>4, <2>7
    <3>2. ASSUME Tidy, NEW p \in DOMAIN t
          PROVE  /\ t[p] \in Nat
                 /\ Up(buffer, Page) <= t[p] * Page
                 /\ (t[p] + 1) * Page <= Up(buffer, Page) + Cardinality(Used(i + 1)) * Page
      <4>1. PICK a \in Nat, b \in Nat : /\ a = Cardinality(Used(i)) /\ b >= a
                                       /\ b = Cardinality(Used(i + 1))
        <5>1. PICK a \in Nat, c \in Nat : /\ a = Cardinality(Used(i))
                                         /\ c = Cardinality(FilePages(Segment(i + 1)))
          BY <2>1, FilePagesFinite
        <5>2. Cardinality(Used(i + 1)) = a + c
          BY <2>1, <2>7, <3>2, <5>1, UsedGrows DEF Tidy
        <5> QED
          BY <5>1, <5>2
      <4>2. PICK ap \in Nat, bp \in Nat : a * Page = ap /\ b * Page = bp /\ ap <= bp
        BY <4>1, Mul
      <4>3. /\ t[p] \in Nat /\ Up(buffer, Page) <= t[p] * Page
            /\ (t[p] + 1) * Page <= Up(buffer, Page) + ap
        BY <3>1, <3>2, <4>1, <4>2 DEF RoomInv
      <4>4. buffer \in Nat
        BY <2>1 DEF RoomInv
      <4>5. Up(buffer, Page) \in Nat /\ (t[p] + 1) * Page \in Int
        <5>1. Up(buffer, Page) \in Nat
          BY <4>4, UpPages
        <5>2. t[p] + 1 \in Int
          BY <4>3
        <5> QED
          BY <5>1, <5>2, Mul
      <4> QED
        BY <4>1, <4>2, <4>3, <4>5
    <3>3. Tidy => \A p \in DOMAIN t :
               /\ t[p] \in Nat
               /\ Up(buffer, Page) <= t[p] * Page
               /\ (t[p] + 1) * Page <= Up(buffer, Page) + Cardinality(Used(i + 1)) * Page
      BY <3>2
    <3> QED
      BY <2>1, <2>3, <2>4, <2>7, <3>1, <3>3, RoomNext
  <2>6. CASE i + 1 \notin Segments /\ UNCHANGED <<table, prog_data, pc>>
    <3>1. t = table /\ next = prog_data /\ pc' = pc
      BY <2>4, <2>6
    <3>2. Used(i + 1) = Used(i)
      BY <2>1, <2>6, UsedGrows
    <3>3. /\ Tidy => \A p \in DOMAIN t :
               /\ t[p] \in Nat
               /\ Up(buffer, Page) <= t[p] * Page
               /\ (t[p] + 1) * Page <= Up(buffer, Page) + Cardinality(Used(i + 1)) * Page
          /\ pc' = "segments" /\ Tidy =>
               /\ next \in Nat
               /\ Up(buffer, Page) <= Up(next, Page)
               /\ Up(next, Page) <= Up(buffer, Page) + Cardinality(Used(i + 1)) * Page
      BY <3>1, <3>2 DEF RoomInv
    <3> QED
      BY <2>1, <2>3, <2>4, <3>1, <3>3, RoomNext
  <2> QED
    BY <1>3, <2>5, <2>6, <2>7, SegmentStep
<1>4. CASE Loaded
  <2>1. /\ UNCHANGED <<archive, image, size, buffer, room, data, i, table, prog_data>>
        /\ pc = "segments" /\ pc' = "run"
    BY <1>4 DEF Loaded, boot
  <2>2. pc \notin Early /\ pc' \notin Early /\ pc' # "segments"
    BY <2>1 DEF Early
  <2>3. Tidy => \A p \in DOMAIN table :
               /\ table[p] \in Nat
               /\ Up(buffer, Page) <= table[p] * Page
               /\ (table[p] + 1) * Page <= Up(buffer, Page) + Cardinality(Used(i)) * Page
    BY DEF RoomInv
  <2> QED
    BY <2>1, <2>2, <2>3, RoomNext
<1>5. CASE UNCHANGED lvars
  <2>1. UNCHANGED <<archive, image, size, buffer, room, data, i, table, prog_data, pc>>
    BY <1>5 DEF lvars, boot
  <2>2. CASE pc \notin Early
    BY <2>1, <2>2, RoomNext DEF RoomInv
  <2>3. CASE pc \in Early
    <3>1. i = 0 /\ table = <<>> /\ pc # "segments" /\ DOMAIN table' = {}
      BY <2>1, <2>3, NoPages DEF RoomInv, Early
    <3>2. NamesFiles' <=> NamesFiles
      BY <2>1 DEF NamesFiles
    <3> QED
      BY <2>1, <3>1, <3>2 DEF RoomInv
  <2> QED
    BY <2>2, <2>3
<1> QED
  BY <1>1, <1>2, <1>3, <1>4, <1>5, <1>6 DEF LNext

\* No page of the process lies in part behind calloc's block, for every archive
\* without a directory of the file's name and every image whose segments are as
\* large in memory as in the file and share no page of it: a page of the block is
\* used up for each page of the file that holds part of a segment, and the two
\* pages asked for beyond the size pay for rounding the block's begin and its end
\* (elf.cpp:46-76).
THEOREM ImageStays == LSpec => []StaysInBuffer
<1>1. LInit => RoomInv
  BY NoPages DEF LInit, RoomInv, Early
<1>2. FoundInv /\ RoomInv => StaysInBuffer
  <2> SUFFICES ASSUME FoundInv, RoomInv, Tidy, NEW v \in DOMAIN table
               PROVE  table[v] * Page >= buffer /\ (table[v] + 1) * Page <= buffer + room
    BY DEF StaysInBuffer, Tidy, NamesFiles, Exact, FileApart
  <2>1. /\ buffer \in Nat /\ room = size + 2 * Page /\ data # Null /\ image.elf
        /\ pc \notin Early /\ size \in Nat
    BY DEF RoomInv
  <2>2. /\ table[v] \in Nat
        /\ Up(buffer, Page) <= table[v] * Page
        /\ (table[v] + 1) * Page <= Up(buffer, Page) + Cardinality(Used(i)) * Page
    BY DEF RoomInv
  <2>3. PICK m \in Nat : /\ Up(size, Page) = m * Page /\ Up(size, Page) \div Page = m
                        /\ m * Page \in Nat /\ size <= m * Page
                        /\ m * Page < size + Page
    BY <2>1, UpPages
  <2>4. PICK b \in Nat : /\ Up(buffer, Page) = b * Page /\ Up(buffer, Page) \div Page = b
                        /\ b * Page \in Nat /\ buffer <= b * Page
                        /\ b * Page < buffer + Page
    BY <2>1, UpPages
  <2>5. PICK used \in Nat : used = Cardinality(Used(i))
    BY <2>1, FilePagesFinite
  <2>6. used <= m
    BY <2>1, <2>3, <2>5, UsedBound DEF Tidy
  <2>7. PICK up \in Nat, mp \in Nat, bp \in Nat, low \in Nat, high \in Nat, pg \in Nat :
           /\ used * Page = up /\ m * Page = mp /\ b * Page = bp
           /\ table[v] * Page = low /\ (table[v] + 1) * Page = high /\ Page = pg
           /\ up <= mp
    <3>1. used * Page \in Nat /\ used * Page <= m * Page
      BY <2>6, Mul
    <3>2. PICK t \in Nat : t = table[v]
      BY <2>2
    <3>3. t * Page \in Nat /\ (t + 1) * Page \in Nat
      <4>1. t + 1 \in Nat
        OBVIOUS
      <4> QED
        BY <4>1, Mul
    <3>4. Page \in Nat
      BY LoaderAssumption
    <3> QED
      BY <2>3, <2>4, <3>1, <3>2, <3>3, <3>4
  <2>8. bp <= low /\ high <= bp + up /\ buffer <= bp /\ bp < buffer + pg /\ mp < size + pg
    BY <2>2, <2>3, <2>4, <2>5, <2>7
  <2>9. buffer <= low /\ high <= buffer + (size + 2 * pg)
    <3>1. PICK at \in Nat, sz \in Nat : at = buffer /\ sz = size
      BY <2>1
    <3>2. at <= low
      BY <2>8, <3>1
    <3>3. high <= at + (sz + 2 * pg)
      <4>1. up <= mp
        BY <2>7
      <4>2. high <= bp + up /\ bp < at + pg /\ mp < sz + pg
        BY <2>8, <3>1
      <4> QED
        BY <4>1, <4>2
    <3> QED
      BY <3>1, <3>2, <3>3
  <2> QED
    BY <2>1, <2>7, <2>9
<1> QED
  BY <1>1, <1>2, FoundInit, FoundKept, RoomKept, PTL DEF LSpec
=============================================================================
