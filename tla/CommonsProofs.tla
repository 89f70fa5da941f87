--------------------------- MODULE CommonsProofs ---------------------------
(***************************************************************************)
(* Where a ceremony starts: what ingest-ptau writes is the prefix of the   *)
(* source it was asked for, whatever the flags say and for files of any    *)
(* size, and what a Phase 1 by hand seals folds every file that was        *)
(* listed, for any number of files, contributors and contributions.        *)
(*                                                                         *)
(* What a power of two is has to be told the provers first: 2^n is the     *)
(* number of subsets of a set of n elements.                               *)
(***************************************************************************)
EXTENDS Commons, FiniteSetTheorems, WellFoundedInduction, TLAPS

-----------------------------------------------------------------------------
(* Induction and powers of two *)

LEMMA LeastNumber ==
    ASSUME NEW T \in SUBSET Nat, T # {}
    PROVE  \E m \in T : \A n \in T : m <= n
<1>1. PICK R : IsWellFoundedOn(R, Nat) /\ \A n, m \in Nat : <<n, m>> \in R <=> n < m
  <2>1. \A n, m \in Nat : <<n, m>> \in OpToRel(<, Nat) <=> n < m
    BY DEF OpToRel
  <2> QED
    BY <2>1, NatLessThanWellFounded
<1>2. T \subseteq Nat
  OBVIOUS
<1>3. IsWellFoundedOn(R, Nat)
  BY <1>1
<1>4. PICK m \in T : \A n \in T : ~(<<n, m>> \in R)
  BY ONLY <1>2, <1>3, T # {}, WFMin, Zenon
<1>5. ASSUME NEW n \in T PROVE m <= n
  <2>1. n \in Nat /\ m \in Nat /\ ~(<<n, m>> \in R)
    BY <1>2, <1>4
  <2>2. <<n, m>> \in R <=> n < m
    BY <1>1, <2>1, Zenon
  <2> QED
    BY ONLY <2>1, <2>2
<1> QED
  BY <1>5

(* Induction, over a set in place of a predicate.                          *)
LEMMA SetInduction ==
    ASSUME NEW T, 0 \in T, \A n \in Nat : n \in T => n + 1 \in T
    PROVE  Nat \subseteq T
<1> DEFINE Missing == {n \in Nat : n \notin T}
<1> SUFFICES ASSUME Missing # {} PROVE FALSE
  OBVIOUS
<1>1. Missing \in SUBSET Nat
  OBVIOUS
<1> HIDE DEF Missing
<1>2. PICK m \in Missing : \A n \in Missing : m <= n
  BY <1>1, LeastNumber
<1> USE DEF Missing
<1>3. m \in Nat /\ m # 0 /\ m - 1 \in Nat
  OBVIOUS
<1>4. m - 1 \in T
  BY <1>2, <1>3
<1> QED
  BY <1>3, <1>4

LEMMA PowerIsNat == ASSUME NEW n \in Nat PROVE 2^n \in Nat \ {0}
<1>1. IsFiniteSet(1..n) /\ Cardinality(1..n) = n
  BY FS_Interval
<1>2. IsFiniteSet(SUBSET (1..n)) /\ Cardinality(SUBSET (1..n)) = 2^n
  BY <1>1, FS_SUBSET
<1>3. SUBSET (1..n) # {}
  OBVIOUS
<1> QED
  BY <1>2, <1>3, FS_CardinalityType, FS_EmptySet

LEMMA IsBijection ==
    ASSUME NEW A, NEW B, NEW f \in [A -> B],
           \A s, t \in A : f[s] = f[t] => s = t,
           \A t \in B : \E s \in A : f[s] = t
    PROVE  ExistsBijection(A, B)
<1>1. f \in Injection(A, B)
  BY DEF Injection, IsInjective
<1>2. f \in Surjection(A, B)
  BY DEF Surjection
<1> QED
  BY <1>1, <1>2 DEF ExistsBijection, Bijection

(* The subsets of 1..n+1 are those of 1..n, without n+1 and with it.       *)
LEMMA PowerDoubles == ASSUME NEW n \in Nat PROVE 2^(n + 1) = 2 * 2^n
<1> DEFINE A == SUBSET (1..n)
           B == {S \cup {n + 1} : S \in A}
<1>1. IsFiniteSet(A) /\ Cardinality(A) = 2^n
  <2>1. IsFiniteSet(1..n) /\ Cardinality(1..n) = n
    BY FS_Interval
  <2> QED
    BY <2>1, FS_SUBSET
<1>2. Cardinality(SUBSET (1..(n + 1))) = 2^(n + 1)
  <2>1. IsFiniteSet(1..(n + 1)) /\ Cardinality(1..(n + 1)) = n + 1
    BY FS_Interval
  <2> QED
    BY <2>1, FS_SUBSET
<1>3. SUBSET (1..(n + 1)) = A \cup B
  <2>1. ASSUME NEW S \in SUBSET (1..(n + 1)) PROVE S \in A \cup B
    <3>1. CASE n + 1 \notin S
      BY <3>1
    <3>2. CASE n + 1 \in S
      <4>1. S = (S \ {n + 1}) \cup {n + 1}
        BY <3>2
      <4>2. \A k \in S \ {n + 1} : k \in 1..n
        <5> SUFFICES ASSUME NEW k \in S \ {n + 1} PROVE k \in 1..n
          OBVIOUS
        <5>1. k \in 1..(n + 1) /\ k # n + 1
          OBVIOUS
        <5> QED
          BY <5>1
      <4>3. S \ {n + 1} \in A
        BY <4>2
      <4> QED
        BY <4>1, <4>3
    <3> QED
      BY <3>1, <3>2
  <2>2. ASSUME NEW S \in A \cup B PROVE S \in SUBSET (1..(n + 1))
    <3>1. PICK R \in A : S \subseteq R \cup {n + 1}
      OBVIOUS
    <3>2. ASSUME NEW k \in S PROVE k \in 1..(n + 1)
      <4>1. k \in 1..n \/ k = n + 1
        BY <3>1
      <4> QED
        BY <4>1
    <3> QED
      BY <3>2
  <2> QED
    BY <2>1, <2>2
<1>4. A \cap B = {}
  OBVIOUS
<1>5. IsFiniteSet(B) /\ Cardinality(B) = Cardinality(A)
  <2> DEFINE f == [S \in A |-> S \cup {n + 1}]
  <2>1. f \in [A -> B]
    OBVIOUS
  <2>2. \A S, T \in A : f[S] = f[T] => S = T
    <3> SUFFICES ASSUME NEW S \in A, NEW T \in A, S \cup {n + 1} = T \cup {n + 1}
                 PROVE  S = T
      OBVIOUS
    <3>1. n + 1 \notin S /\ n + 1 \notin T
      OBVIOUS
    <3> QED
      BY <3>1
  <2>3. \A t \in B : \E s \in A : f[s] = t
    OBVIOUS
  <2>4. ExistsBijection(A, B)
    <3> HIDE DEF f, A, B
    <3> QED
      BY <2>1, <2>2, <2>3, IsBijection
  <2> HIDE DEF A, B
  <2> QED
    BY <1>1, <2>4, FS_Bijection
<1> HIDE DEF A, B
<1>6. Cardinality(A \cup B) = Cardinality(A) + Cardinality(B) - Cardinality(A \cap B)
  BY <1>1, <1>5, FS_Union
<1>7. Cardinality(A \cap B) = 0
  BY <1>4, FS_EmptySet
<1>8. 2^n \in Nat
  BY PowerIsNat
<1>9. Cardinality(A \cup B) = 2^n + 2^n
  BY <1>1, <1>5, <1>6, <1>7, <1>8
<1>10. 2^(n + 1) = 2^n + 2^n
  BY ONLY <1>2, <1>3, <1>9, Zenon
<1> QED
  BY <1>8, <1>10

LEMMA PowerDivides ==
    ASSUME NEW m \in Nat, NEW n \in Nat, m <= n
    PROVE  \E u \in Nat \ {0} : 2^n = 2^m * u
<1> DEFINE T == {d \in Nat : \E u \in Nat \ {0} : 2^(m + d) = 2^m * u}
<1>1. 0 \in T
  <2>1. 2^(m + 0) = 2^m * 1
    BY PowerIsNat
  <2> QED
    BY <2>1
<1>2. ASSUME NEW d \in Nat, d \in T PROVE d + 1 \in T
  <2>1. PICK u \in Nat \ {0} : 2^(m + d) = 2^m * u
    BY <1>2
  <2>2. 2^(m + d + 1) = 2 * 2^(m + d)
    BY PowerDoubles
  <2>3. 2^m \in Nat
    BY PowerIsNat
  <2>4. 2^(m + (d + 1)) = 2^m * (2 * u)
    BY <2>1, <2>2, <2>3
  <2>5. 2 * u \in Nat \ {0}
    OBVIOUS
  <2>6. \E v \in Nat \ {0} : 2^(m + (d + 1)) = 2^m * v
    BY <2>4, <2>5
  <2>7. d + 1 \in Nat
    OBVIOUS
  <2> QED
    BY ONLY <2>6, <2>7, Zenon
<1> HIDE DEF T
<1>3. n - m \in T
  BY <1>1, <1>2, SetInduction
<1> QED
  BY <1>3 DEF T

LEMMA PowerGrows ==
    ASSUME NEW m \in Nat, NEW n \in Nat, m < n
    PROVE  \E u \in Nat \ {0} : 2^n = 2 * (2^m * u)
<1>1. PICK u \in Nat \ {0} : 2^n = 2^(m + 1) * u
  <2>1. m + 1 \in Nat /\ m + 1 <= n
    OBVIOUS
  <2> QED
    BY <2>1, PowerDivides
<1>2. 2^(m + 1) = 2 * 2^m /\ 2^m \in Nat
  BY PowerDoubles, PowerIsNat
<1> QED
  BY <1>1, <1>2

LEMMA PowerInjective ==
    ASSUME NEW m \in Nat, NEW n \in Nat, 2^m = 2^n
    PROVE  m = n
<1>1. ASSUME NEW i \in Nat, NEW j \in Nat, i < j PROVE 2^i < 2^j
  <2>1. PICK u \in Nat \ {0} : 2^j = 2 * (2^i * u)
    BY <1>1, PowerGrows
  <2>2. 2^i \in Nat \ {0}
    BY PowerIsNat
  <2> QED
    BY <2>1, <2>2
<1> QED
  BY <1>1, PowerIsNat

-----------------------------------------------------------------------------
(* The arithmetic of the code *)

Half == 2^(IntBits - 1)

LEMMA Widths ==
    /\ Half \in Nat \ {0}
    /\ 2^IntBits = 2 * Half
<1>1. IntBits - 1 \in Nat /\ IntBits = (IntBits - 1) + 1
  BY PtauParameters
<1>2. 2^((IntBits - 1) + 1) = 2 * 2^(IntBits - 1)
  BY <1>1, PowerDoubles
<1> QED
  BY <1>1, <1>2, PowerIsNat DEF Half

(* Int64 adds a multiple of 2^IntBits and lands between -Half and Half.    *)
LEMMA Int64Wraps ==
    ASSUME NEW x \in Int
    PROVE  /\ Int64(x) \in -Half .. Half - 1
           /\ \E k \in Int : Int64(x) = x + k * (2 * Half)
<1> DEFINE d == 2 * Half
           y == x + Half
<1>1. d \in Nat \ {0} /\ y \in Int /\ Half \in Nat
  BY Widths
<1>2. Int64(x) = (y % d) - Half
  BY Widths DEF Int64, Half
<1> HIDE DEF y
<1>3. y = (d * (y \div d)) + (y % d) /\ y % d \in 0..(d - 1) /\ y \div d \in Int
  <2> HIDE DEF d
  <2> QED
    BY <1>1
<1>4. Int64(x) \in -Half .. Half - 1
  BY <1>1, <1>2, <1>3
<1>5. Int64(x) = x + (-(y \div d)) * (2 * Half)
  <2> DEFINE q == y \div d
             r == y % d
  <2>1. q \in Int /\ r \in Int /\ y = (d * q) + r /\ Int64(x) = r - Half /\ y = x + Half
    BY <1>1, <1>2, <1>3 DEF y
  <2> HIDE DEF q, r
  <2>2. Int64(x) = x - (d * q)
    <3> HIDE DEF d, y
    <3>1. d * q \in Int
      BY <1>1, <2>1
    <3> QED
      BY <1>1, <2>1, <3>1
  <2>3. x - (d * q) = x + (-q) * d
    <3> HIDE DEF d, y
    <3> QED
      BY <1>1, <2>1
  <2> QED
    BY <2>2, <2>3 DEF q
<1> QED
  BY <1>3, <1>4, <1>5

LEMMA SmallMultiple ==
    ASSUME NEW D \in Nat \ {0}, NEW m \in Int, -D < m * D, m * D < D
    PROVE  m = 0
<1>1. m >= 1 => m * D >= D
  OBVIOUS
<1>2. m <= -1 => m * D <= -D
  OBVIOUS
<1> QED
  BY <1>1, <1>2

(* It is the only number there that differs by such a multiple.           *)
LEMMA Int64Is ==
    ASSUME NEW x \in Int, NEW y \in -Half .. Half - 1, NEW m \in Int, x = y + m * (2 * Half)
    PROVE  Int64(x) = y
<1>1. Half \in Nat \ {0}
  BY Widths
<1>2. PICK k \in Int : Int64(x) = x + k * (2 * Half)
  BY Int64Wraps
<1> DEFINE D == 2 * Half
           z == Int64(x)
<1>3. z \in -Half .. Half - 1
  BY Int64Wraps
<1>4. z = x + k * D /\ x = y + m * D /\ D \in Nat \ {0}
  BY <1>1, <1>2
<1>5. -D < z - y /\ z - y < D
  BY <1>1, <1>3
<1> HIDE DEF D, z
<1>6. z - y = (m + k) * D
  <2>1. z \in Int /\ y \in Int
    BY <1>1, <1>3
  <2>2. m * D \in Int /\ k * D \in Int /\ (m + k) * D = (m * D) + (k * D)
    BY <1>4
  <2> QED
    BY <1>4, <2>1, <2>2
<1>7. m + k = 0
  BY <1>4, <1>5, <1>6, SmallMultiple
<1>8. z = y
  BY <1>1, <1>3, <1>4, <1>6, <1>7
<1> QED
  BY <1>8 DEF z

(* What fits is not changed.                                               *)
LEMMA Int64Fits ==
    ASSUME NEW x \in -Half .. Half - 1
    PROVE  Int64(x) = x
<1>1. x \in Int /\ x = x + 0 * (2 * Half)
  BY Widths
<1> QED
  BY <1>1, Int64Is

LEMMA ShiftIsInt == ASSUME NEW p \in Nat PROVE Shift(p) \in Int
<1>1. 2^p \in Int
  BY PowerIsNat
<1> QED
  BY <1>1, Int64Wraps DEF Shift

-----------------------------------------------------------------------------
(* The layout of the source and the offsets of the code *)

LEMMA Layout ==
    ASSUME NEW N \in Int
    PROVE  /\ Start(N, "tau_g1") = FileHeader
           /\ Start(N, "tau_g2") = FileHeader + 192 * N - 96
           /\ Start(N, "alpha") = FileHeader + 384 * N - 96
           /\ Start(N, "beta") = FileHeader + 480 * N - 96
           /\ Start(N, "beta_g2") = FileHeader + 576 * N - 96
<1>1. FileHeader \in Int
  BY PtauParameters
<1>2. /\ Length("tau_g1", N) = 2 * N - 1 /\ Width("tau_g1") = 96
      /\ Length("tau_g2", N) = N /\ Width("tau_g2") = 192
      /\ Length("alpha", N) = N /\ Width("alpha") = 96
      /\ Length("beta", N) = N /\ Width("beta") = 96
  BY DEF Length, Width, Group, g1Uncompressed, g2Uncompressed
<1> QED
  BY <1>1, <1>2 DEF Start

LEMMA CodeLayout ==
    ASSUME NEW h \in Int, NEW S \in Int
    PROVE  /\ FirstByte(h, S, "tau_g1") = h
           /\ FirstByte(h, S, "tau_g2") = h + 192 * S - 96
           /\ FirstByte(h, S, "alpha") = h + 384 * S - 96
           /\ FirstByte(h, S, "beta") = h + 480 * S - 96
           /\ FirstByte(h, S, "beta_g2") = h + 576 * S - 96
BY DEF FirstByte, SrcTauG1Len, g1Uncompressed, g2Uncompressed

LEMMA ArrayNames == ArrayName = {"tau_g1", "tau_g2", "alpha", "beta", "beta_g2"}
<1>1. DOMAIN Arrays = 1..5 /\ Arrays[1] = "tau_g1" /\ Arrays[2] = "tau_g2" /\ Arrays[3] = "alpha"
      /\ Arrays[4] = "beta" /\ Arrays[5] = "beta_g2"
  BY DEF Arrays
<1>2. ArrayName = {Arrays[i] : i \in 1..5}
  BY <1>1 DEF ArrayName, ToSet
<1> QED
  BY <1>1, <1>2

(* The file describes itself rightly, as far as offsets can tell.          *)
Located(h, p, N) ==
    \A a \in ArrayName : Int64(FirstByte(h, Shift(p), a)) = Start(N, a)

Fits(N) == N \in Nat \ {0} /\ Start(N, "beta_g2") + 192 < Half

(* tau_g1 and tau_g2 are where the code looks for them, for they start     *)
(* with the generators; the code can ask for beta.  Then all arrays are    *)
(* where it looks for them, whatever the flags are.                        *)
LEMMA GeneratorsLocate ==
    ASSUME NEW h \in Int, NEW p \in Nat, NEW N, Fits(N),
           Int64(FirstByte(h, Shift(p), "tau_g1")) = Start(N, "tau_g1"),
           Int64(FirstByte(h, Shift(p), "tau_g2")) = Start(N, "tau_g2"),
           Int64(FirstByte(h, Shift(p), "beta")) >= 0
    PROVE  /\ Located(h, p, N)
           /\ \E e \in Int : 96 * (Shift(p) - N) = e * (2 * Half)
<1> DEFINE S == Shift(p)
           H == Half
           F == FileHeader
<1>1. S \in Int /\ N \in Nat \ {0} /\ H \in Nat \ {0} /\ F \in Nat
  BY ShiftIsInt, Widths, PtauParameters DEF Fits
<1> HIDE DEF S, H, F
<1>2. F + 576 * N + 96 < H
  BY <1>1, Layout DEF Fits, F, H
<1>3. PICK k1 \in Int : F = h + k1 * (2 * H)
  <2>1. Int64(h) = F
    BY <1>1, Layout, CodeLayout DEF S, F
  <2> QED
    BY <2>1, Int64Wraps DEF H
<1>4. PICK k2 \in Int : F + 192 * N - 96 = (h + 192 * S - 96) + k2 * (2 * H)
  <2>1. h + 192 * S - 96 \in Int
    BY <1>1
  <2>2. Int64(h + 192 * S - 96) = F + 192 * N - 96
    <3>1. FirstByte(h, S, "tau_g2") = h + 192 * S - 96 /\ Start(N, "tau_g2") = F + 192 * N - 96
      BY <1>1, Layout, CodeLayout DEF F
    <3> QED
      BY <3>1 DEF S
  <2> QED
    BY <2>1, <2>2, Int64Wraps DEF H
<1> DEFINE u == k1 * H
           v == k2 * H
<1>5. /\ u \in Int /\ v \in Int
      /\ F = h + 2 * u
      /\ 192 * N = (192 * S) + (2 * v) - (2 * u)
  <2>1. u \in Int /\ v \in Int /\ k1 * (2 * H) = 2 * u /\ k2 * (2 * H) = 2 * v
    BY <1>1
  <2> HIDE DEF u, v
  <2> QED
    BY <1>1, <1>3, <1>4, <2>1
<1> HIDE DEF u, v
<1>6. /\ h = F + (-k1) * (2 * H)
      /\ h + 192 * S - 96 = (F + 192 * N - 96) + (-k2) * (2 * H)
      /\ h + 384 * S - 96 = (F + 384 * N - 96) + (k1 - 2 * k2) * (2 * H)
      /\ h + 576 * S - 96 = (F + 576 * N - 96) + (2 * k1 - 3 * k2) * (2 * H)
      /\ h + 480 * S - 96 = (F + 480 * N - 96) + (3 * k1 - 5 * k2) * H
  <2>1. /\ (-k1) * (2 * H) = -(2 * u)
        /\ (-k2) * (2 * H) = -(2 * v)
        /\ (k1 - 2 * k2) * (2 * H) = (2 * u) - (4 * v)
        /\ (2 * k1 - 3 * k2) * (2 * H) = (4 * u) - (6 * v)
        /\ (3 * k1 - 5 * k2) * H = (3 * u) - (5 * v)
    BY <1>1 DEF u, v
  <2> QED
    BY <1>1, <1>5, <2>1
<1>7. PICK e \in Int : 3 * k1 - 5 * k2 = 2 * e
  <2>1. 3 * k1 - 5 * k2 \in Int
    OBVIOUS
  <2>2. PICK e \in Int : 3 * k1 - 5 * k2 = 2 * e \/ 3 * k1 - 5 * k2 = 2 * e + 1
    <3> DEFINE w == 3 * k1 - 5 * k2
    <3>1. w \in Int
      OBVIOUS
    <3> HIDE DEF w
    <3>2. w \div 2 \in Int /\ (w = 2 * (w \div 2) \/ w = 2 * (w \div 2) + 1)
      BY <3>1
    <3> QED
      BY <3>2 DEF w
  <2>3. CASE 3 * k1 - 5 * k2 = 2 * e + 1
    <3> DEFINE x == h + 480 * S - 96
               y == (F + 480 * N - 96) - H
    <3>1. x \in Int /\ y \in -H .. H - 1 /\ y < 0
      BY <1>1, <1>2
    <3>2. x = y + (e + 1) * (2 * H)
      <4>1. (2 * e + 1) * H = (e + 1) * (2 * H) - H
        BY <1>1
      <4> QED
        BY <1>1, <1>6, <2>3, <4>1
    <3> HIDE DEF x, y
    <3>3. Int64(x) = y
      BY <3>1, <3>2, Int64Is DEF H
    <3>4. Int64(x) >= 0
      <4>1. FirstByte(h, S, "beta") = x
        BY <1>1, CodeLayout DEF x
      <4> QED
        BY <4>1 DEF S
    <3> QED
      BY <3>1, <3>3, <3>4
  <2> QED
    BY <2>2, <2>3
<1>8. h + 480 * S - 96 = (F + 480 * N - 96) + e * (2 * H)
  <2>1. (2 * e) * H = e * (2 * H)
    BY <1>1
  <2> QED
    BY <1>6, <1>7, <2>1
<1>9. ASSUME NEW c \in {0, 192, 384, 480, 576}, NEW m \in Int, NEW d \in {0, 96},
             c = 0 <=> d = 0,
             h + c * S - d = (F + c * N - d) + m * (2 * H)
      PROVE  Int64(h + c * S - d) = F + c * N - d
  <2>1. h + c * S - d \in Int /\ F + c * N - d \in -H .. H - 1
    BY <1>1, <1>2, <1>9
  <2> QED
    BY <1>9, <2>1, Int64Is DEF H
<1>10. Located(h, p, N)
  <2>1. Int64(FirstByte(h, S, "tau_g1")) = Start(N, "tau_g1")
        /\ Int64(FirstByte(h, S, "tau_g2")) = Start(N, "tau_g2")
    BY DEF S
  <2>2. Int64(FirstByte(h, S, "alpha")) = Start(N, "alpha")
    <3>1. k1 - 2 * k2 \in Int
      OBVIOUS
    <3>2. Int64(h + 384 * S - 96) = F + 384 * N - 96
      BY <1>6, <1>9, <3>1
    <3> QED
      BY <1>1, <3>2, Layout, CodeLayout DEF F
  <2>3. Int64(FirstByte(h, S, "beta")) = Start(N, "beta")
    <3>1. Int64(h + 480 * S - 96) = F + 480 * N - 96
      BY <1>8, <1>9
    <3> QED
      BY <1>1, <3>1, Layout, CodeLayout DEF F
  <2>4. Int64(FirstByte(h, S, "beta_g2")) = Start(N, "beta_g2")
    <3>1. 2 * k1 - 3 * k2 \in Int
      OBVIOUS
    <3>2. Int64(h + 576 * S - 96) = F + 576 * N - 96
      BY <1>6, <1>9, <3>1
    <3> QED
      BY <1>1, <3>2, Layout, CodeLayout DEF F
  <2> QED
    BY <2>1, <2>2, <2>3, <2>4, ArrayNames DEF Located, S
<1>11. 96 * (S - N) = (e - k1 + 2 * k2) * (2 * H)
  <2>1. (e - k1 + 2 * k2) * (2 * H) = e * (2 * H) - (k1 - 2 * k2) * (2 * H)
    BY <1>1
  <2>2. e * (2 * H) \in Int /\ (k1 - 2 * k2) * (2 * H) \in Int
    BY <1>1
  <2> QED
    BY <1>1, <1>6, <1>8, <2>1, <2>2
<1>12. e - k1 + 2 * k2 \in Int
  OBVIOUS
<1> QED
  BY <1>10, <1>11, <1>12 DEF S, H

LEMMA ShiftIs ==
    ASSUME NEW p \in Nat
    PROVE  \/ p >= IntBits /\ Shift(p) = 0
           \/ p = IntBits - 1 /\ Shift(p) = -Half
           \/ p < IntBits - 1 /\ Shift(p) = 2^p /\ 2 * 2^p <= Half
<1>1. Half \in Nat \ {0} /\ IntBits \in Nat
  BY Widths, PtauParameters
<1>2. CASE p >= IntBits
  BY <1>2 DEF Shift
<1>3. CASE p = IntBits - 1
  <2>1. Shift(p) = Int64(Half)
    BY <1>1, <1>3 DEF Shift, Half
  <2>2. Half = -Half + 1 * (2 * Half) /\ -Half \in -Half .. Half - 1
    BY <1>1
  <2>3. Int64(Half) = -Half
    BY <1>1, <2>2, Int64Is
  <2> QED
    BY <1>3, <2>1, <2>3
<1>4. CASE p < IntBits - 1
  <2> DEFINE S == 2^p
  <2>1. S \in Nat \ {0}
    BY PowerIsNat
  <2>2. PICK u \in Nat \ {0} : Half = 2 * (S * u)
    <3>1. IntBits - 1 \in Nat
      BY <1>4, PtauParameters
    <3>2. \E u \in Nat \ {0} : 2^(IntBits - 1) = 2 * (2^p * u)
      BY ONLY <1>4, <3>1, PowerGrows, Zenon
    <3> QED
      BY <3>2 DEF Half
  <2>3. Shift(p) = Int64(S)
    BY <1>1, <1>4 DEF Shift
  <2> HIDE DEF S
  <2>4. S * u >= S
    BY <2>1, <2>2
  <2>5. 2 * S <= Half /\ S \in -Half .. Half - 1
    BY <1>1, <2>1, <2>2, <2>4
  <2>6. Int64(S) = S
    BY <2>5, Int64Fits
  <2> QED
    BY <1>4, <2>3, <2>5, <2>6 DEF S
<1> QED
  BY <1>1, <1>2, <1>3, <1>4

(* The source power is right when the offsets are: the distance of two     *)
(* powers of two is no multiple of 2^IntBits for a file that fits.         *)
LEMMA SamePower ==
    ASSUME NEW p \in Nat, NEW q \in Nat, Fits(2^q),
           NEW e \in Int, 96 * (Shift(p) - 2^q) = e * (2 * Half)
    PROVE  p = q
<1> DEFINE N == 2^q
           H == Half
           D == 2 * H
<1>1. N \in Nat \ {0} /\ H \in Nat \ {0} /\ D \in Nat \ {0}
  BY Widths, PowerIsNat
<1>2. 96 * N < H
  BY <1>1, Layout, PtauParameters DEF Fits
<1> HIDE DEF N
<1>3. 96 * (Shift(p) - N) = e * D
  BY DEF N
<1> HIDE DEF H, D
<1>4. ASSUME NEW m \in Int, m * D = -(96 * N) PROVE FALSE
  <2>1. -D < m * D /\ m * D < D
    BY <1>1, <1>2, <1>4 DEF D
  <2>2. m = 0
    BY <1>1, <2>1, SmallMultiple
  <2> QED
    BY <1>1, <1>4, <2>2
<1>5. CASE p >= IntBits
  <2>1. Shift(p) = 0
    BY <1>5 DEF Shift
  <2> QED
    BY <1>1, <1>3, <1>4, <2>1
<1>6. CASE p = IntBits - 1
  <2>1. Shift(p) = -H
    BY <1>6, ShiftIs, PtauParameters DEF H
  <2>2. (e + 48) * D = -(96 * N)
    <3>1. (e + 48) * D = e * D + 48 * D
      BY <1>1
    <3> QED
      BY <1>1, <1>3, <2>1, <3>1 DEF D
  <2> QED
    BY <1>4, <2>2
<1>7. CASE p < IntBits - 1
  <2> DEFINE S == 2^p
  <2>1. S \in Nat \ {0} /\ Shift(p) = S
    BY <1>7, ShiftIs, PowerIsNat, PtauParameters
  <2> HIDE DEF S
  <2>2. 96 * (S - N) = e * D
    BY <1>3, <2>1
  <2>3. CASE p < q
    <3>1. PICK t \in Nat \ {0} : N = 2 * (S * t)
      BY <2>3, PowerGrows DEF N, S
    <3>2. S * t >= S
      BY <2>1, <3>1
    <3>3. S < N
      BY <2>1, <3>1, <3>2
    <3>4. -D < e * D /\ e * D < D
      BY <1>1, <1>2, <2>1, <2>2, <3>3 DEF D
    <3>5. e = 0
      BY <1>1, <3>4, SmallMultiple
    <3> QED
      BY <1>1, <2>1, <2>2, <3>3, <3>5
  <2>4. CASE q < p
    <3>1. PICK t \in Nat \ {0} : S = 2 * (N * t)
      BY <2>4, PowerGrows DEF N, S
    <3>2. 2^(q + 5) = 32 * N
      <4>1. 2^(q + 1) = 2 * N
        BY PowerDoubles DEF N
      <4>2. 2^((q + 1) + 1) = 2 * 2^(q + 1)
        BY PowerDoubles
      <4>3. 2^((q + 2) + 1) = 2 * 2^(q + 2)
        BY PowerDoubles
      <4>4. 2^((q + 3) + 1) = 2 * 2^(q + 3)
        BY PowerDoubles
      <4>5. 2^((q + 4) + 1) = 2 * 2^(q + 4)
        BY PowerDoubles
      <4>6. (q + 1) + 1 = q + 2 /\ (q + 2) + 1 = q + 3 /\ (q + 3) + 1 = q + 4 /\ (q + 4) + 1 = q + 5
        OBVIOUS
      <4> QED
        BY <1>1, <4>1, <4>2, <4>3, <4>4, <4>5, <4>6
    <3>3. q + 5 < IntBits - 1
      <4>1. SUFFICES ASSUME IntBits - 1 <= q + 5 PROVE FALSE
        BY PtauParameters
      <4>2. PICK u \in Nat \ {0} : 2^(q + 5) = H * u
        BY <4>1, PtauParameters, PowerDivides DEF H, Half
      <4>3. H * u >= H
        BY <1>1, <4>2
      <4> QED
        BY <1>1, <1>2, <3>2, <4>2, <4>3
    <3>4. PICK u \in Nat \ {0} : H = 2 * (2^(q + 5) * u)
      <4>1. q + 5 \in Nat /\ IntBits - 1 \in Nat
        BY PtauParameters
      <4>2. \E u \in Nat \ {0} : 2^(IntBits - 1) = 2 * (2^(q + 5) * u)
        BY ONLY <3>3, <4>1, PowerGrows, Zenon
      <4> QED
        BY <4>2 DEF H, Half
    <3> DEFINE w == 96 * (2 * t - 1) - 128 * (e * u)
    <3>5. N * w = 0
      <4>1. e * D = N * (128 * (e * u))
        BY <1>1, <3>2, <3>4 DEF D
      <4>2. 96 * (S - N) = N * (96 * (2 * t - 1))
        BY <1>1, <3>1
      <4> DEFINE x == 96 * (2 * t - 1)
                 y == 128 * (e * u)
      <4>3. N * x = N * y
        BY <2>2, <4>1, <4>2, Zenon
      <4>4. w = x - y /\ x \in Int /\ y \in Int
        OBVIOUS
      <4> HIDE DEF x, y
      <4>5. N * (x - y) = (N * x) - (N * y) /\ N * x \in Int
        BY <1>1, <4>4
      <4> QED
        BY <4>3, <4>4, <4>5
    <3>6. w \in Int
      OBVIOUS
    <3> HIDE DEF w
    <3>7. w = 0
      <4>1. w * N = 0
        BY <1>1, <3>5, <3>6
      <4> QED
        BY <1>1, <3>6, <4>1, SmallMultiple
    <3>8. e * u \in Int /\ 3 * (2 * t - 1) = 4 * (e * u)
      BY <3>7 DEF w
    <3> QED
      BY <3>8
  <2> QED
    BY <2>3, <2>4
<1> QED
  BY <1>5, <1>6, <1>7, PtauParameters

-----------------------------------------------------------------------------
(* Decoding *)

LEMMA Sizes ==
    ASSUME NEW a \in ArrayName, NEW N \in Nat \ {0}
    PROVE  Width(a) \in {96, 192} /\ Length(a, N) \in Nat \ {0} /\ Start(N, a) \in Nat
<1>1. Width(a) \in {96, 192}
  BY DEF Width, g1Uncompressed, g2Uncompressed
<1>2. Length(a, N) \in Nat \ {0}
  BY ArrayNames DEF Length
<1>3. Start(N, a) \in Nat
  <2>1. N \in Int /\ N >= 1 /\ FileHeader \in Nat
    BY PtauParameters
  <2>2. /\ FileHeader \in Nat /\ FileHeader + 192 * N - 96 \in Nat
        /\ FileHeader + 384 * N - 96 \in Nat /\ FileHeader + 480 * N - 96 \in Nat
        /\ FileHeader + 576 * N - 96 \in Nat
    BY <2>1
  <2>3. Start(N, "tau_g1") \in Nat /\ Start(N, "tau_g2") \in Nat /\ Start(N, "alpha") \in Nat
        /\ Start(N, "beta") \in Nat /\ Start(N, "beta_g2") \in Nat
    <3>1. /\ Start(N, "tau_g1") = FileHeader
          /\ Start(N, "tau_g2") = FileHeader + 192 * N - 96
          /\ Start(N, "alpha") = FileHeader + 384 * N - 96
          /\ Start(N, "beta") = FileHeader + 480 * N - 96
          /\ Start(N, "beta_g2") = FileHeader + 576 * N - 96
      BY <2>1, Layout
    <3> QED
      BY ONLY <2>2, <3>1
  <2> QED
    BY <2>3, ArrayNames
<1> QED
  BY <1>1, <1>2, <1>3

(* The arrays of a file do not overlap.                                    *)
LEMMA Apart ==
    ASSUME NEW N \in Nat \ {0},
           NEW a \in ArrayName, NEW i \in 0 .. Length(a, N) - 1,
           NEW b \in ArrayName, NEW j \in 0 .. Length(b, N) - 1,
           Start(N, a) + i * Width(a) = Start(N, b) + j * Width(b)
    PROVE  a = b /\ i = j
<1> DEFINE F == FileHeader
           Covers(c, k, low, high) ==
               low <= Start(N, c) + k * Width(c) /\ Start(N, c) + k * Width(c) < high
<1>1. F \in Int
  BY PtauParameters
<1>2. ASSUME NEW c \in ArrayName, NEW k \in 0 .. Length(c, N) - 1
      PROVE  /\ c = "tau_g1" => Covers(c, k, F, F + 192 * N - 96)
             /\ c = "tau_g2" => Covers(c, k, F + 192 * N - 96, F + 384 * N - 96)
             /\ c = "alpha" => Covers(c, k, F + 384 * N - 96, F + 480 * N - 96)
             /\ c = "beta" => Covers(c, k, F + 480 * N - 96, F + 576 * N - 96)
             /\ c = "beta_g2" => F + 576 * N - 96 <= Start(N, c) + k * Width(c)
  <2>1. c = "tau_g1" => Length(c, N) = 2 * N - 1 /\ Width(c) = 96
    BY DEF Length, Width, Group, g1Uncompressed
  <2>2. c = "tau_g2" => Length(c, N) = N /\ Width(c) = 192
    BY DEF Length, Width, Group, g2Uncompressed
  <2>3. c = "alpha" => Length(c, N) = N /\ Width(c) = 96
    BY DEF Length, Width, Group, g1Uncompressed
  <2>4. c = "beta" => Length(c, N) = N /\ Width(c) = 96
    BY DEF Length, Width, Group, g1Uncompressed
  <2>5. c = "beta_g2" => Length(c, N) = 1 /\ Width(c) = 192
    BY DEF Length, Width, Group, g2Uncompressed
  <2>6. k \in Nat /\ k < Length(c, N)
    BY Sizes
  <2>7. CASE c = "tau_g1"
    <3>1. Start(N, c) = F /\ Width(c) = 96 /\ k \in Nat /\ k < 2 * N - 1
      BY <2>1, <2>6, <2>7, Layout
    <3> QED
      BY <1>1, <2>7, <3>1
  <2>8. CASE c = "tau_g2"
    <3>1. Start(N, c) = F + 192 * N - 96 /\ Width(c) = 192 /\ k \in Nat /\ k < N
      BY <2>2, <2>6, <2>8, Layout
    <3> QED
      BY <1>1, <2>8, <3>1
  <2>9. CASE c = "alpha"
    <3>1. Start(N, c) = F + 384 * N - 96 /\ Width(c) = 96 /\ k \in Nat /\ k < N
      BY <2>3, <2>6, <2>9, Layout
    <3> QED
      BY <1>1, <2>9, <3>1
  <2>10. CASE c = "beta"
    <3>1. Start(N, c) = F + 480 * N - 96 /\ Width(c) = 96 /\ k \in Nat /\ k < N
      BY <2>4, <2>6, <2>10, Layout
    <3> QED
      BY <1>1, <2>10, <3>1
  <2>11. CASE c = "beta_g2"
    BY <1>1, <2>5, <2>6, <2>11, Layout
  <2> QED
    BY <2>7, <2>8, <2>9, <2>10, <2>11, ArrayNames
<1>3. a = b
  <2> DEFINE x == Start(N, a) + i * Width(a)
             y == Start(N, b) + j * Width(b)
  <2>1. x \in Int /\ x = y
    <3>1. Start(N, a) \in Int /\ i \in Int /\ Width(a) \in Int
      BY Sizes
    <3> QED
      BY <3>1
  <2>2. /\ a = "tau_g1" => F <= x /\ x < F + 192 * N - 96
        /\ a = "tau_g2" => F + 192 * N - 96 <= x /\ x < F + 384 * N - 96
        /\ a = "alpha" => F + 384 * N - 96 <= x /\ x < F + 480 * N - 96
        /\ a = "beta" => F + 480 * N - 96 <= x /\ x < F + 576 * N - 96
        /\ a = "beta_g2" => F + 576 * N - 96 <= x
    BY <1>2
  <2>3. /\ b = "tau_g1" => F <= y /\ y < F + 192 * N - 96
        /\ b = "tau_g2" => F + 192 * N - 96 <= y /\ y < F + 384 * N - 96
        /\ b = "alpha" => F + 384 * N - 96 <= y /\ y < F + 480 * N - 96
        /\ b = "beta" => F + 480 * N - 96 <= y /\ y < F + 576 * N - 96
        /\ b = "beta_g2" => F + 576 * N - 96 <= y
    BY <1>2
  <2> HIDE DEF x, y, F
  <2>4. /\ a \in {"tau_g1", "tau_g2", "alpha", "beta", "beta_g2"}
        /\ b \in {"tau_g1", "tau_g2", "alpha", "beta", "beta_g2"}
    BY ArrayNames
  <2> QED
    BY <1>1, <2>1, <2>2, <2>3, <2>4
<1>4. i = j
  <2> DEFINE W == Width(a)
             s == Start(N, a)
  <2>1. W \in Nat \ {0} /\ s \in Int /\ i \in Int /\ j \in Int
    BY Sizes
  <2>2. s + i * W = s + j * W
    BY <1>3
  <2> HIDE DEF W, s
  <2>3. (i - j) * W = 0
    BY <2>1, <2>2
  <2>4. i - j = 0
    BY <2>1, <2>3, SmallMultiple
  <2> QED
    BY <2>1, <2>4
<1> QED
  BY <1>3, <1>4

LEMMA ExactQuotient ==
    ASSUME NEW i \in Nat, NEW W \in {96, 192}
    PROVE  (i * W) % W = 0 /\ (i * W) \div W = i
<1>1. W = 96 \/ W = 192
  OBVIOUS
<1> QED
  BY <1>1

LEMMA Remainderless ==
    ASSUME NEW x \in Nat, NEW W \in {96, 192}, x % W = 0
    PROVE  x \div W \in Nat /\ x = (x \div W) * W
<1>1. W = 96 \/ W = 192
  OBVIOUS
<1> QED
  BY <1>1

Hits(file, group, at) ==
    {a \in ArrayName :
       /\ Group(a) = group
       /\ at - Start(2^file.power, a) >= 0
       /\ (at - Start(2^file.power, a)) % Width(a) = 0
       /\ (at - Start(2^file.power, a)) \div Width(a) < Length(a, 2^file.power)}

LEMMA HitsDecode ==
    ASSUME NEW file, NEW group, NEW at
    PROVE  DecodedAt(file, group, at) =
               IF Hits(file, group, at) = {} THEN Garbage
               ELSE LET a == CHOOSE b \in Hits(file, group, at) : TRUE
                    IN  Stored(file, a, (at - Start(2^file.power, a)) \div Width(a))
BY Zenon DEF DecodedAt, Hits

LEMMA HitMeans ==
    ASSUME NEW file, file.power \in Nat, NEW group, NEW at \in Int,
           NEW a \in Hits(file, group, at)
    PROVE  LET N == 2^file.power
               i == (at - Start(N, a)) \div Width(a)
           IN  /\ a \in ArrayName /\ Group(a) = group
               /\ i \in 0 .. Length(a, N) - 1
               /\ at = Start(N, a) + i * Width(a)
<1> DEFINE N == 2^file.power
           x == at - Start(N, a)
<1>1. N \in Nat \ {0}
  BY PowerIsNat
<1>2. a \in ArrayName /\ Group(a) = group /\ x >= 0 /\ x % Width(a) = 0
      /\ x \div Width(a) < Length(a, N)
  BY DEF Hits
<1> HIDE DEF N
<1>3. Width(a) \in {96, 192} /\ Length(a, N) \in Nat \ {0} /\ Start(N, a) \in Nat
  BY <1>1, <1>2, Sizes
<1>4. x \in Nat /\ at = Start(N, a) + x
  BY <1>2, <1>3
<1> HIDE DEF x
<1>5. x \div Width(a) \in Nat /\ x = (x \div Width(a)) * Width(a)
  BY <1>2, <1>3, <1>4, Remainderless
<1>6. x \div Width(a) \in 0 .. Length(a, N) - 1
  BY <1>2, <1>3, <1>5
<1>7. at = Start(N, a) + (x \div Width(a)) * Width(a)
  BY <1>4, <1>5, Zenon
<1> QED
  BY <1>2, <1>6, <1>7 DEF N, x

(* What decodes is an element of an array of that group, at its place.     *)
LEMMA DecodedIs ==
    ASSUME NEW file, file.power \in Nat, NEW group, NEW at \in Int,
           DecodedAt(file, group, at) # Garbage
    PROVE  \E a \in ArrayName : \E i \in 0 .. Length(a, 2^file.power) - 1 :
               /\ Group(a) = group
               /\ at = Start(2^file.power, a) + i * Width(a)
               /\ DecodedAt(file, group, at) = Stored(file, a, i)
<1> DEFINE a == CHOOSE b \in Hits(file, group, at) : TRUE
           i == (at - Start(2^file.power, a)) \div Width(a)
<1>1. a \in Hits(file, group, at) /\ DecodedAt(file, group, at) = Stored(file, a, i)
  BY HitsDecode
<1> HIDE DEF a
<1>2. /\ a \in ArrayName /\ Group(a) = group
      /\ i \in 0 .. Length(a, 2^file.power) - 1
      /\ at = Start(2^file.power, a) + i * Width(a)
  BY <1>1, HitMeans
<1> QED
  BY <1>1, <1>2

(* At the place of an element, that element is decoded.                    *)
LEMMA DecodedThere ==
    ASSUME NEW file, file.power \in Nat, NEW a \in ArrayName,
           NEW i \in 0 .. Length(a, 2^file.power) - 1
    PROVE  DecodedAt(file, Group(a), Start(2^file.power, a) + i * Width(a)) = Stored(file, a, i)
<1> DEFINE N == 2^file.power
           at == Start(N, a) + i * Width(a)
           hits == Hits(file, Group(a), at)
<1>1. N \in Nat \ {0}
  BY PowerIsNat
<1> HIDE DEF N
<1>2. Width(a) \in {96, 192} /\ Length(a, N) \in Nat \ {0} /\ Start(N, a) \in Nat
  BY <1>1, Sizes
<1>3. i \in Nat /\ i < Length(a, N)
  BY <1>2 DEF N
<1>4. at \in Int /\ at - Start(N, a) = i * Width(a) /\ i * Width(a) >= 0
  <2>1. i * Width(a) \in Nat
    BY <1>2, <1>3
  <2> QED
    BY <1>2, <2>1
<1>5. (i * Width(a)) % Width(a) = 0 /\ (i * Width(a)) \div Width(a) = i
  BY <1>2, <1>3, ExactQuotient
<1> HIDE DEF at
<1>6. a \in hits
  BY <1>3, <1>4, <1>5 DEF Hits, N
<1>7. ASSUME NEW b \in hits PROVE b = a
  <2> DEFINE j == (at - Start(N, b)) \div Width(b)
  <2>1. b \in ArrayName /\ j \in 0 .. Length(b, N) - 1 /\ at = Start(N, b) + j * Width(b)
    BY <1>4, HitMeans DEF N
  <2>2. Start(N, a) + i * Width(a) = Start(N, b) + j * Width(b)
    BY <2>1 DEF at
  <2>3. i \in 0 .. Length(a, N) - 1
    BY DEF N
  <2> HIDE DEF j
  <2> QED
    BY <1>1, <2>1, <2>2, <2>3, Apart
<1> HIDE DEF hits
<1>8. hits # {} /\ (CHOOSE b \in hits : TRUE) = a
  BY <1>6, <1>7
<1>9. DecodedAt(file, Group(a), at) = Stored(file, a, (at - Start(N, a)) \div Width(a))
  BY <1>8, HitsDecode DEF hits, N
<1> QED
  BY <1>4, <1>5, <1>9 DEF at, N

-----------------------------------------------------------------------------
(* The invariant of ingest-ptau *)

FileN == 2^source.power
Base(a) == OffsetOf(run.flags.header, run.flags.source, a, 0)

(* What a run reads of an array, and that it can be read.                  *)
ReadOf(a) ==
    [i \in 1..Count(a) |-> DecodedAt(source, Group(a), Base(a) + (i - 1) * Width(a))]
CanRead(a) ==
    /\ Count(a) >= 0 /\ Base(a) >= 0
    /\ \A i \in 1..Count(a) : ReadOf(a)[i] # Garbage

(* The flags describe the file: every array is where they say.             *)
FlagsDescribe ==
    /\ Located(run.flags.header, run.flags.source, FileN)
    /\ run.flags.source = source.power

PtauPC == {"flags", "usage", "read", "refused", "failed", "confirmed", "writing", "ok"}

RunOK ==
    /\ run = [pc |-> run.pc, flags |-> run.flags, got |-> run.got]
    /\ run.pc \in PtauPC /\ run.flags \in Flags
    /\ run.got = [k \in 1..Len(run.got) |-> ReadOf(Arrays[k])]
    /\ Len(run.got) \in 0..5
    /\ \A k \in 1..Len(run.got) : CanRead(Arrays[k])

PassedOK ==
    /\ run.pc = "flags" => run.got = <<>>
    /\ run.pc \in {"read", "confirmed", "writing", "ok"} => FlagsAccepted
    /\ run.pc \in {"confirmed", "writing", "ok"} => Len(run.got) = 5 /\ Gates
    /\ run.pc \in {"writing", "ok"} => ~run.flags.probe

ProbedOK == probed => FlagsDescribe /\ (run.flags.probe => run.pc = "confirmed")

CommonsOK ==
    /\ commons # Before => run.pc \in {"writing", "ok", "failed"} /\ commons \in {Torn, run.got}
    /\ run.pc \in {"writing", "ok"} \/ commons # Before =>
          run.got = Arrays5(2^run.flags.power)

RefusedOK ==
    run.pc = "refused" /\ source.flaw = Flawless =>
        /\ ~probed
        /\ ~(RightFlags /\ (run.flags.probe => FileN >= 16))


LEMMA SourceFits ==
    ASSUME source \in Source
    PROVE  /\ source.power \in Nat /\ FileN \in Nat \ {0} /\ Fits(FileN)
           /\ source.flaw = Flawless \/ source.flaw \in Flaw
<1>1. source.power \in FilePower /\ (source.flaw = Flawless \/ source.flaw \in Flaw)
  BY DEF Source
<1>2. source.power \in Nat
  BY <1>1, PtauParameters
<1>3. FileN \in Nat \ {0}
  BY <1>2, PowerIsNat DEF FileN
<1>4. Width("beta_g2") = 192
  BY DEF Width, Group, g2Uncompressed
<1>5. Start(FileN, "beta_g2") + 192 < Half
  BY <1>1, <1>4, FilesFitInt64 DEF FileN, Half
<1> QED
  BY <1>1, <1>2, <1>3, <1>5 DEF Fits

LEMMA StoredIs ==
    ASSUME NEW file, NEW a \in ArrayName, NEW i
    PROVE  /\ Stored(file, a, i) \in {Point(a, i), Foreign(a), Garbage}
           /\ file.flaw = Flawless => Stored(file, a, i) = Point(a, i)
<1>1. a # "none"
  BY ArrayNames
<1> QED
  BY <1>1 DEF Stored, Flawless

LEMMA PointsDiffer ==
    ASSUME NEW a \in ArrayName, NEW i
    PROVE  /\ Point(a, i) # Garbage
           /\ Point(a, i) = [group |-> Group(a), factor |-> Factor(a), tau |-> i]
           /\ Factor(a) \notin {"other", "none"}
           /\ Foreign(a).factor = "other" /\ Foreign(a) # Garbage
<1>1. Factor(a) \in {"alpha", "beta", "one"}
  BY DEF Factor
<1>2. Point(a, i).factor = Factor(a) /\ Garbage.factor = "none"
  BY DEF Point, Garbage
<1> QED
  BY <1>1, <1>2 DEF Point, Foreign, Garbage

(* The generator decodes only where tau_g1, or tau_g2, starts.             *)
LEMMA GeneratorAt ==
    ASSUME NEW file, file.power \in Nat, NEW b \in {"tau_g1", "tau_g2"}, NEW at \in Int,
           NEW group, DecodedAt(file, group, at) = Point(b, 0)
    PROVE  at = Start(2^file.power, b)
<1>1. b \in ArrayName
  BY ArrayNames
<1>2. Point(b, 0) # Garbage
  BY <1>1, PointsDiffer
<1>3. PICK a \in ArrayName : \E i \in 0 .. Length(a, 2^file.power) - 1 :
          /\ at = Start(2^file.power, a) + i * Width(a)
          /\ Stored(file, a, i) = Point(b, 0)
  BY <1>2, DecodedIs
<1>4. PICK i \in 0 .. Length(a, 2^file.power) - 1 :
          /\ at = Start(2^file.power, a) + i * Width(a)
          /\ Stored(file, a, i) = Point(b, 0)
  BY <1>3
<1>5. Foreign(a) # Point(b, 0)
  BY <1>1, PointsDiffer DEF Point
<1>6. Point(a, i) = Point(b, 0)
  BY <1>2, <1>4, <1>5, StoredIs
<1>7. i = 0 /\ Group(a) = Group(b) /\ Factor(a) = Factor(b)
  BY <1>6 DEF Point
<1>8. a = b
  BY <1>7, ArrayNames DEF Group, Factor
<1>9. 2^file.power \in Nat \ {0}
  BY PowerIsNat
<1>10. Start(2^file.power, b) \in Int /\ Width(b) \in Int
  BY <1>1, <1>9, Sizes
<1> QED
  BY <1>4, <1>7, <1>8, <1>10

(* How many elements a run reads of each array.                            *)
LEMMA DoubledShift ==
    ASSUME NEW p \in Nat, Int64(2 * Shift(p) - 1) >= 0
    PROVE  Shift(p) = 2^p /\ 2 * 2^p <= Half
<1> DEFINE H == Half
<1>1. H \in Nat \ {0}
  BY Widths
<1>2. CASE p >= IntBits /\ Shift(p) = 0
  <2>1. Int64(-1) = -1
    BY <1>1, Int64Fits
  <2> QED
    BY <1>2, <2>1
<1>3. CASE Shift(p) = -H
  <2> HIDE DEF H
  <2>1. 2 * Shift(p) - 1 = -1 + (-1) * (2 * H)
    BY <1>1, <1>3
  <2>2. -1 \in -H .. H - 1 /\ 2 * Shift(p) - 1 \in Int
    BY <1>1, <1>3
  <2>3. Int64(2 * Shift(p) - 1) = -1
    BY <2>1, <2>2, Int64Is DEF H
  <2> QED
    BY <2>3
<1> QED
  BY <1>2, <1>3, ShiftIs

LEMMA LengthsFit ==
    ASSUME NEW N \in Nat \ {0}, 2 * N <= Half, NEW a \in ArrayName
    PROVE  Int64(Length(a, N)) = Length(a, N)
<1>1. Half \in Nat \ {0}
  BY Widths
<1>2. Length(a, N) \in Nat /\ Length(a, N) < Half
  BY <1>1, ArrayNames DEF Length
<1> QED
  BY <1>1, <1>2, Int64Fits

LEMMA CountIs ==
    ASSUME run.flags \in Flags, Count("tau_g1") >= 0, NEW a \in ArrayName
    PROVE  /\ run.flags.probe => Count(a) = IF a = "beta_g2" THEN 1 ELSE 16
           /\ ~run.flags.probe => Count(a) = Length(a, 2^run.flags.power)
           /\ Count(a) \in Nat \ {0}
<1>1. run.flags.power \in Nat /\ run.flags.probe \in BOOLEAN
  BY PtauParameters DEF Flags
<1>2. CASE run.flags.probe
  BY <1>2 DEF Count
<1>3. CASE ~run.flags.probe
  <2> DEFINE M == 2^run.flags.power
  <2>1. Int64(2 * Shift(run.flags.power) - 1) >= 0
    BY <1>3 DEF Count, Length
  <2>2. Shift(run.flags.power) = M /\ 2 * M <= Half
    BY <1>1, <2>1, DoubledShift
  <2>3. M \in Nat \ {0}
    BY <1>1, PowerIsNat
  <2> HIDE DEF M
  <2>4. Count(a) = Int64(Length(a, M))
    BY <1>3, <2>2 DEF Count
  <2>5. Int64(Length(a, M)) = Length(a, M) /\ Length(a, M) \in Nat \ {0}
    BY <2>2, <2>3, LengthsFit, Sizes
  <2> QED
    BY <1>3, <2>4, <2>5 DEF M
<1> QED
  BY <1>1, <1>2, <1>3

LEMMA BaseIs ==
    ASSUME run.flags \in Flags, NEW a \in ArrayName
    PROVE  /\ Base(a) = Int64(FirstByte(run.flags.header, Shift(run.flags.source), a))
           /\ Base(a) \in Int
           /\ run.flags.header \in Int /\ run.flags.source \in Nat /\ run.flags.power \in Nat
           /\ run.flags.probe \in BOOLEAN
<1>1. run.flags.header \in Int /\ run.flags.source \in Nat /\ run.flags.power \in Nat
      /\ run.flags.probe \in BOOLEAN
  BY PtauParameters DEF Flags
<1> DEFINE x == FirstByte(run.flags.header, Shift(run.flags.source), a)
<1>2. Shift(run.flags.source) \in Int
  BY <1>1, ShiftIsInt
<1>3. x \in Int
  <2> DEFINE h == run.flags.header
             S == Shift(run.flags.source)
  <2>1. h \in Int /\ S \in Int
    BY <1>1, <1>2
  <2> HIDE DEF h, S
  <2>2. \A b \in {"tau_g1", "tau_g2", "alpha", "beta", "beta_g2"} : FirstByte(h, S, b) \in Int
    <3>1. FirstByte(h, S, "tau_g1") \in Int
      BY <2>1, CodeLayout
    <3>2. FirstByte(h, S, "tau_g2") \in Int
      BY <2>1, CodeLayout
    <3>3. FirstByte(h, S, "alpha") \in Int
      BY <2>1, CodeLayout
    <3>4. FirstByte(h, S, "beta") \in Int
      BY <2>1, CodeLayout
    <3>5. FirstByte(h, S, "beta_g2") \in Int
      BY <2>1, CodeLayout
    <3> QED
      BY <3>1, <3>2, <3>3, <3>4, <3>5
  <2> QED
    BY <2>2, ArrayNames DEF h, S
<1>4. x + 0 * Width(a) = x
  BY <1>3 DEF Width, g1Uncompressed, g2Uncompressed
<1>5. Base(a) = Int64(x)
  BY <1>4 DEF Base, OffsetOf
<1>6. Int64(x) \in Int
  BY <1>3, Widths, Int64Wraps
<1> QED
  BY <1>1, <1>5, <1>6

-----------------------------------------------------------------------------
(* What the gates establish *)

AllFive == source \in Source /\ RunOK /\ FlagsAccepted /\ Len(run.got) = 5

LEMMA FiveRead ==
    ASSUME AllFive
    PROVE  /\ run.got[1] = ReadOf("tau_g1") /\ run.got[2] = ReadOf("tau_g2")
           /\ run.got[3] = ReadOf("alpha") /\ run.got[4] = ReadOf("beta")
           /\ run.got[5] = ReadOf("beta_g2")
           /\ \A a \in ArrayName : CanRead(a)
<1>1. /\ Arrays[1] = "tau_g1" /\ Arrays[2] = "tau_g2" /\ Arrays[3] = "alpha"
      /\ Arrays[4] = "beta" /\ Arrays[5] = "beta_g2"
  BY DEF Arrays
<1>2. \A k \in 1..5 : run.got[k] = ReadOf(Arrays[k]) /\ CanRead(Arrays[k])
  <2>1. run.got = [k \in 1..5 |-> ReadOf(Arrays[k])]
    BY DEF AllFive, RunOK
  <2>2. \A k \in 1..5 : CanRead(Arrays[k])
    BY DEF AllFive, RunOK
  <2> QED
    BY ONLY <2>1, <2>2, Zenon
<1>3. \A a \in ArrayName : CanRead(a)
  BY <1>1, <1>2, ArrayNames
<1> QED
  BY <1>1, <1>2, <1>3

(* Once the first points of tau_g1 and tau_g2 are the generators, the      *)
(* flags say the truth about the source.                                   *)
LEMMA GeneratorsTellFlags ==
    ASSUME AllFive, StartsAtGenerators
    PROVE  FlagsDescribe
<1> DEFINE h == run.flags.header
           p == run.flags.source
<1>1. run.flags \in Flags /\ source \in Source
  BY DEF AllFive, RunOK
<1>2. /\ source.power \in Nat /\ FileN \in Nat \ {0} /\ Fits(FileN)
  BY <1>1, SourceFits
<1>3. \A a \in ArrayName : CanRead(a)
  BY FiveRead
<1>4. \A a \in ArrayName : Base(a) >= 0 /\ Count(a) \in Nat \ {0}
  BY <1>1, <1>3, CountIs, ArrayNames DEF CanRead
<1>5. ASSUME NEW b \in {"tau_g1", "tau_g2"}, ReadOf(b)[1] = Point(b, 0)
      PROVE  Base(b) = Start(FileN, b)
  <2>1. b \in ArrayName
    BY ArrayNames
  <2>2. Base(b) \in Int /\ 1 \in 1..Count(b)
    BY <1>1, <1>4, <2>1, BaseIs
  <2>3. Base(b) + (1 - 1) * Width(b) = Base(b)
    BY <2>2 DEF Width, g1Uncompressed, g2Uncompressed
  <2>4. ReadOf(b)[1] = DecodedAt(source, Group(b), Base(b))
    BY <2>2, <2>3 DEF ReadOf
  <2> QED
    BY <1>2, <1>5, <2>2, <2>4, GeneratorAt DEF FileN
<1>6. Base("tau_g1") = Start(FileN, "tau_g1") /\ Base("tau_g2") = Start(FileN, "tau_g2")
  BY <1>5, FiveRead DEF StartsAtGenerators, TauG1, TauG2
<1>7. /\ Int64(FirstByte(h, Shift(p), "tau_g1")) = Start(FileN, "tau_g1")
      /\ Int64(FirstByte(h, Shift(p), "tau_g2")) = Start(FileN, "tau_g2")
      /\ Int64(FirstByte(h, Shift(p), "beta")) >= 0
      /\ h \in Int /\ p \in Nat
  BY <1>1, <1>4, <1>6, BaseIs, ArrayNames
<1> HIDE DEF h, p
<1>8. /\ Located(h, p, FileN)
      /\ \E e \in Int : 96 * (Shift(p) - FileN) = e * (2 * Half)
  BY <1>2, <1>7, GeneratorsLocate
<1>9. p = source.power
  BY <1>2, <1>7, <1>8, SamePower DEF FileN
<1> QED
  BY <1>8, <1>9 DEF FlagsDescribe, h, p

(* A larger domain has longer arrays.                                      *)
LEMMA LongerArrays ==
    ASSUME NEW m \in Nat, NEW n \in Nat, m <= n, NEW a \in ArrayName
    PROVE  Length(a, 2^m) <= Length(a, 2^n)
<1> DEFINE M == 2^m
           N == 2^n
<1>1. PICK u \in Nat \ {0} : N = M * u
  BY PowerDivides
<1>2. M \in Nat \ {0} /\ N \in Nat \ {0}
  BY PowerIsNat
<1> HIDE DEF M, N
<1>3. M <= N
  BY <1>1, <1>2
<1>4. Length(a, M) <= Length(a, N)
  BY <1>2, <1>3, ArrayNames DEF Length
<1> QED
  BY <1>4 DEF M, N

(* With such flags, what is read are the elements of the source, as far as *)
(* the arrays go.                                                          *)
LEMMA ReadsStored ==
    ASSUME source \in Source, run.flags \in Flags, FlagsDescribe, NEW a \in ArrayName,
           Count(a) \in Nat \ {0}, Count(a) <= Length(a, FileN), NEW i \in 1..Count(a)
    PROVE  /\ Base(a) >= 0
           /\ ReadOf(a)[i] = Stored(source, a, i - 1)
<1>1. source.power \in Nat /\ FileN \in Nat \ {0}
  BY SourceFits
<1>2. Length(a, FileN) \in Nat /\ Start(FileN, a) \in Nat
  BY <1>1, Sizes
<1>3. Base(a) = Start(FileN, a)
  BY BaseIs DEF FlagsDescribe, Located
<1>4. i - 1 \in 0 .. Length(a, FileN) - 1
  BY <1>2
<1>5. DecodedAt(source, Group(a), Start(FileN, a) + (i - 1) * Width(a))
          = Stored(source, a, i - 1)
  BY <1>1, <1>4, DecodedThere DEF FileN
<1>6. ReadOf(a)[i] = DecodedAt(source, Group(a), Base(a) + (i - 1) * Width(a))
  BY DEF ReadOf
<1> QED
  BY <1>2, <1>3, <1>5, <1>6

(* An ingest asks for no more than there is.                               *)
LEMMA EnoughThere ==
    ASSUME source \in Source, run.flags \in Flags, FlagsDescribe, FlagsAccepted,
           ~run.flags.probe, Count("tau_g1") >= 0, NEW a \in ArrayName
    PROVE  /\ Count(a) = Length(a, 2^run.flags.power)
           /\ Count(a) \in Nat \ {0} /\ Count(a) <= Length(a, FileN)
<1>1. Count(a) = Length(a, 2^run.flags.power) /\ Count(a) \in Nat \ {0}
  BY CountIs
<1>2. run.flags.power <= source.power /\ run.flags.power \in Nat /\ source.power \in Nat
  BY SourceFits, BaseIs DEF FlagsDescribe, FlagsAccepted
<1> QED
  BY <1>1, <1>2, LongerArrays DEF FileN

(* What passes the gates is the prefix of the source that was asked for.   *)
LEMMA GatesPassPrefix ==
    ASSUME AllFive, Gates, ~run.flags.probe
    PROVE  run.got = Arrays5(2^run.flags.power)
<1> DEFINE M == 2^run.flags.power
<1>1. source \in Source /\ run.flags \in Flags /\ FlagsAccepted /\ RunOK
  BY DEF AllFive, RunOK
<1>2. \A a \in ArrayName : CanRead(a)
  BY FiveRead
<1>3. FlagsDescribe
  BY GeneratorsTellFlags DEF Gates
<1>4. Count("tau_g1") >= 0
  BY <1>2, ArrayNames DEF CanRead
<1>5. \A a \in ArrayName : /\ Count(a) = Length(a, M)
                           /\ Count(a) \in Nat \ {0} /\ Count(a) <= Length(a, FileN)
  BY <1>1, <1>3, <1>4, EnoughThere
<1>6. M \in Nat /\ M >= 2
  <2>1. run.flags.power \in Nat \ {0}
    BY <1>1, BaseIs, ArrayNames DEF FlagsAccepted
  <2>2. PICK u \in Nat \ {0} : M = 2 * (2^0 * u)
    <3>1. 0 < run.flags.power
      BY <2>1
    <3> QED
      BY <2>1, <3>1, PowerGrows
  <2>3. 2^0 \in Nat \ {0} /\ M \in Nat
    BY <2>1, PowerIsNat
  <2>4. 2^0 * u >= 1
    BY <2>2, <2>3
  <2> HIDE DEF M
  <2>5. 2^0 * u \in Int
    BY <2>2, <2>3
  <2> QED
    BY <2>2, <2>3, <2>4, <2>5
<1> HIDE DEF M
<1>7. ASSUME NEW a \in ArrayName, NEW i \in 1..Count(a), ReadOf(a)[i].factor # "other"
      PROVE  ReadOf(a)[i] = Point(a, i - 1)
  <2>1. ReadOf(a)[i] = Stored(source, a, i - 1)
    BY <1>1, <1>3, <1>5, ReadsStored
  <2>2. ReadOf(a)[i] # Garbage
    BY <1>2 DEF CanRead
  <2>3. ReadOf(a)[i] # Foreign(a)
    BY <1>7, PointsDiffer
  <2> QED
    BY <2>1, <2>2, <2>3, StoredIs
<1>8. ASSUME NEW a \in {"tau_g1", "tau_g2", "alpha", "beta"}, SameRatioMany(ReadOf(a)),
             NEW i \in 1..Count(a)
      PROVE  ReadOf(a)[i] = Point(a, i - 1)
  <2>1. a \in ArrayName
    BY ArrayNames
  <2>2. Count(a) \in Nat /\ Count(a) >= 2
    BY <1>5, <1>6, <2>1 DEF Length
  <2>3. Len(ReadOf(a)) = Count(a)
    BY <2>2 DEF ReadOf
  <2>4. CASE i < Count(a)
    <3>1. i \in 1..(Len(ReadOf(a)) - 1)
      BY <2>2, <2>3, <2>4
    <3>2. ReadOf(a)[i].factor # "other"
      BY <1>8, <3>1, Zenon DEF SameRatioMany
    <3> QED
      BY <1>7, <2>1, <3>2
  <2>5. CASE i = Count(a)
    <3>1. i - 1 \in 1..(Count(a) - 1) /\ i - 1 \in 1..Count(a) /\ (i - 1) + 1 = i
      BY <2>2, <2>5
    <3>2. /\ ReadOf(a)[i - 1].factor # "other"
          /\ ReadOf(a)[i] = [ReadOf(a)[i - 1] EXCEPT !.tau = @ + 1]
      BY <1>8, <2>3, <3>1 DEF SameRatioMany
    <3>3. ReadOf(a)[i - 1] = Point(a, (i - 1) - 1)
      BY <1>7, <2>1, <3>1, <3>2
    <3>4. ReadOf(a)[i].factor # "other"
      BY <2>1, <3>2, <3>3, PointsDiffer
    <3> QED
      BY <1>7, <2>1, <3>4
  <2> QED
    BY <2>2, <2>4, <2>5
<1>9. \A k \in 1..4 : SameRatioMany(run.got[k])
  BY DEF Gates
<1>10. ASSUME NEW i \in 1..Count("beta_g2") PROVE ReadOf("beta_g2")[i] = Point("beta_g2", i - 1)
  <2>1. i = 1
    BY <1>5, ArrayNames DEF Length
  <2>2. 1 \in 1..Count("beta")
    BY <1>5, ArrayNames
  <2>3. ReadOf("beta")[1].factor = "beta"
    <3>1. ReadOf("beta")[1] = Point("beta", 1 - 1)
      BY <1>8, <1>9, <2>2, FiveRead
    <3> QED
      BY <3>1 DEF Point, Factor
  <2>4. ReadOf("beta_g2")[1].factor = "beta"
    BY <2>3, FiveRead DEF Gates, BetaPairing, BetaTau, BetaG2
  <2> QED
    BY <1>7, <2>1, <2>4, ArrayNames
<1>11. ASSUME NEW a \in ArrayName, NEW i \in 1..Count(a)
       PROVE  ReadOf(a)[i] = Point(a, i - 1)
  <2>1. CASE a = "beta_g2"
    BY <1>10, <2>1
  <2>2. CASE a # "beta_g2"
    <3>1. SameRatioMany(ReadOf("tau_g1")) /\ SameRatioMany(ReadOf("tau_g2"))
          /\ SameRatioMany(ReadOf("alpha")) /\ SameRatioMany(ReadOf("beta"))
      BY <1>9, FiveRead
    <3> QED
      BY <1>8, <2>2, <3>1, ArrayNames
  <2> QED
    BY <2>1, <2>2
<1>12. \A a \in ArrayName : ReadOf(a) = [i \in 1..Length(a, M) |-> Point(a, i - 1)]
  <2>1. ASSUME NEW a \in ArrayName PROVE ReadOf(a) = [i \in 1..Length(a, M) |-> Point(a, i - 1)]
    <3>1. ReadOf(a) = [i \in 1..Count(a) |-> ReadOf(a)[i]]
      BY DEF ReadOf
    <3>2. ReadOf(a) = [i \in 1..Count(a) |-> Point(a, i - 1)]
      BY <1>11, <3>1, Zenon
    <3> QED
      BY <1>5, <3>2
  <2> QED
    BY <2>1
<1>13. run.got = [k \in 1..5 |-> ReadOf(Arrays[k])]
  BY DEF AllFive, RunOK
<1>14. \A k \in 1..5 : Arrays[k] \in ArrayName
  BY ArrayNames DEF Arrays
<1> QED
  BY <1>12, <1>13, <1>14, Zenon DEF Arrays5, M

-----------------------------------------------------------------------------
(* A source without a flaw *)

LEMMA RightFlagsDescribe ==
    ASSUME source \in Source, run.flags \in Flags, RightFlags
    PROVE  FlagsDescribe
<1> DEFINE N == FileN
           q == source.power
           F == FileHeader
<1>1. N \in Nat \ {0} /\ q \in Nat /\ Fits(N) /\ F \in Nat /\ Half \in Nat \ {0}
      /\ N = 2^q
  BY SourceFits, PtauParameters, Widths DEF FileN
<1> HIDE DEF N, q
<1>2. F + 576 * N + 96 < Half
  BY <1>1, Layout DEF Fits
<1>3. q < IntBits - 1
  <2>1. SUFFICES ASSUME IntBits - 1 <= q PROVE FALSE
    BY <1>1, PtauParameters
  <2>2. PICK u \in Nat \ {0} : N = Half * u
    BY <1>1, <2>1, PtauParameters, PowerDivides DEF Half
  <2>3. Half * u >= Half
    BY <1>1, <2>2
  <2> QED
    BY <1>1, <1>2, <2>2, <2>3
<1>4. Shift(q) = N
  <2>1. q # IntBits - 1 /\ ~(q >= IntBits)
    BY <1>1, <1>3, PtauParameters
  <2> QED
    BY <1>1, <2>1, ShiftIs
<1>5. ASSUME NEW a \in ArrayName
      PROVE  FirstByte(F, N, a) = Start(N, a) /\ Start(N, a) \in -Half .. Half - 1
  <2>1. /\ Start(N, "tau_g1") = F
        /\ Start(N, "tau_g2") = F + 192 * N - 96
        /\ Start(N, "alpha") = F + 384 * N - 96
        /\ Start(N, "beta") = F + 480 * N - 96
        /\ Start(N, "beta_g2") = F + 576 * N - 96
    BY <1>1, Layout
  <2>2. /\ FirstByte(F, N, "tau_g1") = F
        /\ FirstByte(F, N, "tau_g2") = F + 192 * N - 96
        /\ FirstByte(F, N, "alpha") = F + 384 * N - 96
        /\ FirstByte(F, N, "beta") = F + 480 * N - 96
        /\ FirstByte(F, N, "beta_g2") = F + 576 * N - 96
    <3>1. F \in Int /\ N \in Int
      BY <1>1
    <3> HIDE DEF F
    <3> QED
      BY ONLY <3>1, CodeLayout
  <2>3. FirstByte(F, N, a) = Start(N, a)
    <3>1. \A b \in {"tau_g1", "tau_g2", "alpha", "beta", "beta_g2"} :
              FirstByte(F, N, b) = Start(N, b)
      <4> HIDE DEF F
      <4> QED
        BY ONLY <2>1, <2>2
    <3> QED
      BY <3>1, ArrayNames
  <2>4. Start(N, a) \in Nat
    BY <1>1, Sizes
  <2>5. \A b \in {"tau_g1", "tau_g2", "alpha", "beta", "beta_g2"} : Start(N, b) < Half
    <3> HIDE DEF F
    <3> QED
      BY ONLY <1>1, <1>2, <2>1
  <2> QED
    BY <1>1, <2>3, <2>4, <2>5, ArrayNames
<1>6. \A a \in ArrayName : Int64(FirstByte(F, Shift(q), a)) = Start(N, a)
  BY <1>4, <1>5, Int64Fits
<1> QED
  BY <1>6 DEF RightFlags, FlagsDescribe, Located, N, q

LEMMA FlawlessReads ==
    ASSUME source \in Source, run.flags \in Flags, FlagsDescribe, FlagsAccepted,
           source.flaw = Flawless, run.flags.probe => FileN >= 16,
           NEW a \in ArrayName
    PROVE  /\ Count(a) \in Nat \ {0} /\ CanRead(a)
           /\ \A i \in 1..Count(a) : ReadOf(a)[i] = Point(a, i - 1)
<1>1. FileN \in Nat \ {0} /\ Fits(FileN) /\ source.power \in Nat
  BY SourceFits
<1>2. Count(a) \in Nat \ {0} /\ Count(a) <= Length(a, FileN)
  <2>1. CASE run.flags.probe
    <3>1. Count(a) = IF a = "beta_g2" THEN 1 ELSE 16
      BY <2>1 DEF Count
    <3> QED
      BY <1>1, <2>1, <3>1, ArrayNames DEF Length
  <2>2. CASE ~run.flags.probe
    <3> DEFINE M == 2^run.flags.power
    <3>1. run.flags.power \in Nat /\ run.flags.power <= source.power
      BY BaseIs DEF FlagsDescribe, FlagsAccepted
    <3>2. M \in Nat \ {0} /\ M <= FileN
      <4>1. M \in Nat \ {0}
        BY <3>1, PowerIsNat
      <4>2. PICK u \in Nat \ {0} : FileN = M * u
        BY <1>1, <3>1, PowerDivides DEF FileN
      <4> HIDE DEF M
      <4> QED
        BY <4>1, <4>2
    <3>3. 2 * M <= Half
      <4> HIDE DEF M
      <4> QED
        BY <1>1, <3>2, Layout, PtauParameters, Widths DEF Fits
    <3>4. run.flags.power < IntBits - 1
      <4>1. SUFFICES ASSUME IntBits - 1 <= run.flags.power PROVE FALSE
        BY <3>1, PtauParameters
      <4>2. PICK u \in Nat \ {0} : M = Half * u
        <5>1. IntBits - 1 \in Nat
          BY PtauParameters
        <5>2. \E u \in Nat \ {0} : M = 2^(IntBits - 1) * u
          BY <3>1, <4>1, <5>1, PowerDivides, Zenon
        <5> QED
          BY <5>2 DEF Half
      <4>3. Half * u >= Half /\ Half \in Nat \ {0}
        BY <4>2, Widths
      <4> HIDE DEF M
      <4> QED
        BY <3>2, <3>3, <4>2, <4>3
    <3>5. Shift(run.flags.power) = M
      <4>1. run.flags.power # IntBits - 1 /\ ~(run.flags.power >= IntBits)
        BY <3>1, <3>4, PtauParameters
      <4> QED
        BY <3>1, <4>1, ShiftIs
    <3>6. "tau_g1" \in ArrayName
      BY ArrayNames
    <3>7. Count("tau_g1") >= 0
      <4> HIDE DEF M
      <4>1. Int64(Length("tau_g1", M)) = Length("tau_g1", M)
        BY <3>2, <3>3, <3>6, LengthsFit
      <4>2. Length("tau_g1", M) >= 0
        BY <3>2, <3>6, Sizes
      <4> QED
        BY <2>2, <3>5, <4>1, <4>2 DEF Count
    <3> QED
      BY <2>2, <3>7, EnoughThere
  <2> QED
    BY <2>1, <2>2
<1>3. ASSUME NEW i \in 1..Count(a)
      PROVE  Base(a) >= 0 /\ ReadOf(a)[i] = Point(a, i - 1)
  <2>1. Base(a) >= 0 /\ ReadOf(a)[i] = Stored(source, a, i - 1)
    BY <1>2, ReadsStored
  <2> QED
    BY <2>1, StoredIs
<1>4. 1 \in 1..Count(a)
  BY <1>2
<1> QED
  BY <1>2, <1>3, <1>4, PointsDiffer DEF CanRead

LEMMA FlawlessGates ==
    ASSUME AllFive, FlagsDescribe, source.flaw = Flawless, run.flags.probe => FileN >= 16
    PROVE  Gates
<1>1. \A a \in ArrayName : /\ Count(a) \in Nat \ {0}
                           /\ \A i \in 1..Count(a) : ReadOf(a)[i] = Point(a, i - 1)
  BY FlawlessReads DEF AllFive, RunOK
<1>2. \A a \in ArrayName : ReadOf(a)[1] = Point(a, 0)
  <2>1. \A a \in ArrayName : 1 \in 1..Count(a) /\ ReadOf(a)[1] = Point(a, 1 - 1)
    BY <1>1
  <2> QED
    BY <2>1
<1>3. StartsAtGenerators
  BY <1>2, FiveRead, ArrayNames DEF StartsAtGenerators, TauG1, TauG2
<1>4. ASSUME NEW a \in ArrayName PROVE SameRatioMany(ReadOf(a))
  <2>1. Len(ReadOf(a)) = Count(a) /\ Count(a) \in Nat
    BY <1>1 DEF ReadOf
  <2>2. ASSUME NEW i \in 1..(Len(ReadOf(a)) - 1)
        PROVE  /\ ReadOf(a)[i].factor # "other"
               /\ ReadOf(a)[i + 1] = [ReadOf(a)[i] EXCEPT !.tau = @ + 1]
    <3>1. i \in 1..Count(a) /\ i + 1 \in 1..Count(a) /\ (i + 1) - 1 = i /\ (i - 1) + 1 = i
      BY <2>1
    <3>2. ReadOf(a)[i] = Point(a, i - 1) /\ ReadOf(a)[i + 1] = Point(a, i)
      BY <1>1, <3>1
    <3> QED
      BY <3>1, <3>2, PointsDiffer DEF Point
  <2> QED
    BY <2>2 DEF SameRatioMany
<1>5. \A k \in 1..4 : SameRatioMany(run.got[k])
  BY <1>4, FiveRead, ArrayNames
<1>6. BetaPairing
  <2>1. BetaTau[1] = Point("beta", 0) /\ BetaG2 = Point("beta_g2", 0)
    BY <1>2, FiveRead, ArrayNames DEF BetaTau, BetaG2
  <2> QED
    BY <2>1 DEF BetaPairing, Point, Factor
<1> QED
  BY <1>3, <1>5, <1>6 DEF Gates

LEMMA NextRead ==
    ASSUME RunOK, Reading
    PROVE  /\ NextArray \in ArrayName /\ Len(run.got) + 1 \in 1..5
           /\ Readable <=> CanRead(NextArray)
           /\ [i \in 1..Count(NextArray) |-> Decoded(i - 1)] = ReadOf(NextArray)
<1> DEFINE a == NextArray
<1>1. Len(run.got) + 1 \in 1..5
  BY DEF RunOK, Reading, Arrays
<1>2. a \in ArrayName
  BY <1>1, ArrayNames DEF NextArray, Arrays
<1>3. run.flags \in Flags
  BY DEF RunOK
<1> HIDE DEF a
<1>4. Base(a) \in Int /\ Width(a) \in Int
  BY <1>2, <1>3, BaseIs DEF Width, g1Uncompressed, g2Uncompressed
<1>5. Base(a) + 0 * Width(a) = Base(a)
  BY <1>4
<1>6. At(0) = Base(a)
  BY <1>5 DEF At, Base, a
<1>7. [i \in 1..Count(a) |-> Decoded(i - 1)] = ReadOf(a)
  BY Zenon DEF ReadOf, Decoded, At, Base, a
<1>8. ASSUME Count(a) \in Int
      PROVE  (\A i \in 0..(Count(a) - 1) : Decoded(i) # Garbage)
                 <=> \A i \in 1..Count(a) : ReadOf(a)[i] # Garbage
  <2>1. \A i \in 1..Count(a) : ReadOf(a)[i] = Decoded(i - 1)
    <3>1. \A i \in 1..Count(a) : [j \in 1..Count(a) |-> Decoded(j - 1)][i] = Decoded(i - 1)
      OBVIOUS
    <3> QED
      BY <1>7, <3>1
  <2>2. \A i \in 1..Count(a) : i - 1 \in 0..(Count(a) - 1)
    BY <1>8
  <2>3. \A i \in 0..(Count(a) - 1) : i + 1 \in 1..Count(a) /\ (i + 1) - 1 = i
    BY <1>8
  <2> QED
    BY <2>1, <2>2, <2>3
<1>9. Count(a) \in Int
  <2>1. run.flags.power \in Nat
    BY <1>2, <1>3, BaseIs
  <2>2. \A S \in Int : Length(a, S) \in Int
    BY <1>2, ArrayNames DEF Length
  <2>3. Int64(Length(a, Shift(run.flags.power))) \in Int
    BY <2>1, <2>2, ShiftIsInt, Int64Wraps, Widths
  <2> QED
    BY <2>3 DEF Count
<1>10. Readable <=> CanRead(a)
  BY <1>6, <1>8, <1>9 DEF Readable, CanRead, a
<1> QED
  BY <1>1, <1>2, <1>7, <1>10 DEF a

-----------------------------------------------------------------------------
(* The steps of ingest-ptau *)

Ingesting == source \in Source /\ RunOK /\ PassedOK /\ ProbedOK /\ CommonsOK /\ RefusedOK

LEMMA SourceFlagsKeep ==
    ASSUME source' = source, run'.flags = run.flags
    PROVE  /\ \A a : Count(a)' = Count(a)
           /\ \A a : ReadOf(a)' = ReadOf(a) /\ CanRead(a)' = CanRead(a)
           /\ FlagsDescribe' = FlagsDescribe /\ FlagsAccepted' = FlagsAccepted
           /\ RightFlags' = RightFlags /\ FileN' = FileN
<1>1. \A a : Count(a)' = Count(a)
  BY Zenon DEF Count
<1>2. \A a : ReadOf(a)' = ReadOf(a)
  BY <1>1, Zenon DEF ReadOf, Base
<1>3. \A a : CanRead(a)' = CanRead(a)
  BY <1>1, <1>2, Zenon DEF CanRead, Base
<1>4. FlagsDescribe' = FlagsDescribe /\ FlagsAccepted' = FlagsAccepted
      /\ RightFlags' = RightFlags /\ FileN' = FileN
  BY Zenon DEF FlagsDescribe, FlagsAccepted, RightFlags, FileN
<1> QED
  BY <1>1, <1>2, <1>3, <1>4, Zenon

(* A step that only moves the program counter.                             *)
LEMMA PcMoves ==
    ASSUME RunOK, NEW pc \in PtauPC, run' = [run EXCEPT !.pc = pc], source' = source
    PROVE  /\ RunOK'
           /\ run'.pc = pc /\ run'.flags = run.flags /\ run'.got = run.got
           /\ Gates' = Gates
<1>1. run'.pc = pc /\ run'.flags = run.flags /\ run'.got = run.got
      /\ run' = [pc |-> run'.pc, flags |-> run'.flags, got |-> run'.got]
  <2>1. run = [pc |-> run.pc, flags |-> run.flags, got |-> run.got]
    BY DEF RunOK
  <2> QED
    BY <2>1
<1>2. Gates' = Gates
  BY <1>1, Zenon DEF Gates, StartsAtGenerators, TauG1, TauG2, BetaPairing, BetaTau, BetaG2
<1>3. run'.got = [k \in 1..Len(run'.got) |-> ReadOf(Arrays[k])']
  <2>1. \A k : ReadOf(Arrays[k])' = ReadOf(Arrays[k])
    BY <1>1, SourceFlagsKeep
  <2>2. run.got = [k \in 1..Len(run.got) |-> ReadOf(Arrays[k])]
    BY DEF RunOK
  <2> QED
    BY <1>1, <2>1, <2>2
<1>4. \A k \in 1..Len(run'.got) : CanRead(Arrays[k])'
  BY <1>1, SourceFlagsKeep, Zenon DEF RunOK
<1>5. Len(run'.got) \in 0..5 /\ run'.flags \in Flags /\ run'.pc \in PtauPC
  BY <1>1, Zenon DEF RunOK
<1> QED
  BY <1>1, <1>2, <1>3, <1>4, <1>5, Zenon DEF RunOK

LEMMA ReadKeepsRunOK ==
    ASSUME RunOK, ReadArray
    PROVE  /\ RunOK' /\ run'.pc = "read" /\ run'.flags = run.flags
<1> DEFINE n == Len(run.got)
           x == ReadOf(NextArray)
<1>1. /\ n \in 0..5 /\ run.got = [k \in 1..n |-> ReadOf(Arrays[k])]
      /\ run.got \in Seq({ReadOf(Arrays[k]) : k \in 1..n})
  BY DEF RunOK
<1>2. n + 1 \in 1..5 /\ CanRead(NextArray) /\ source' = source
      /\ run' = [run EXCEPT !.got = Append(run.got, x)]
  BY NextRead DEF ReadArray
<1>3. run'.pc = "read" /\ run'.flags = run.flags /\ run'.got = Append(run.got, x)
      /\ run' = [pc |-> run'.pc, flags |-> run'.flags, got |-> run'.got]
  BY <1>2 DEF RunOK, ReadArray, Reading
<1>4. NextArray = Arrays[n + 1]
  BY DEF NextArray
<1> HIDE DEF x
<1>5. Len(run'.got) = n + 1 /\ DOMAIN run'.got = 1..(n + 1)
      /\ run'.got = [k \in 1..(n + 1) |-> IF k = n + 1 THEN x ELSE run.got[k]]
  BY <1>1, <1>3
<1>6. run'.got = [k \in 1..(n + 1) |-> ReadOf(Arrays[k])]
  <2>1. \A k \in 1..(n + 1) : (IF k = n + 1 THEN x ELSE run.got[k]) = ReadOf(Arrays[k])
    <3> TAKE k \in 1..(n + 1)
    <3>1. CASE k = n + 1
      BY <1>4, <3>1 DEF x
    <3>2. CASE k # n + 1
      <4>1. k \in 1..n
        BY <1>1, <3>2
      <4> HIDE DEF n
      <4>2. run.got[k] = ReadOf(Arrays[k])
        BY <1>1, <4>1, Zenon
      <4> QED
        BY <3>2, <4>2, Zenon
    <3> QED
      BY <3>1, <3>2
  <2> QED
    BY <1>5, <2>1, Zenon
<1>7. \A k \in 1..(n + 1) : CanRead(Arrays[k])
  <2>1. \A k \in 1..n : CanRead(Arrays[k])
    BY DEF RunOK
  <2>2. \A k \in 1..(n + 1) : k \in 1..n \/ k = n + 1
    BY <1>1
  <2> HIDE DEF n
  <2> QED
    BY <1>2, <1>4, <2>1, <2>2
<1> HIDE DEF n
<1>8. run'.got = [k \in 1..Len(run'.got) |-> ReadOf(Arrays[k])']
      /\ \A k \in 1..Len(run'.got) : CanRead(Arrays[k])'
  <2>1. \A k : ReadOf(Arrays[k])' = ReadOf(Arrays[k]) /\ CanRead(Arrays[k])' = CanRead(Arrays[k])
    BY <1>2, <1>3, SourceFlagsKeep
  <2> QED
    BY <1>5, <1>6, <1>7, <2>1
<1>9. Len(run'.got) \in 0..5
  BY <1>2, <1>5
<1>10. run'.flags \in Flags /\ run'.pc \in PtauPC
  BY <1>3 DEF RunOK, PtauPC
<1> QED
  BY <1>3, <1>8, <1>9, <1>10 DEF RunOK

(* What describes a source without a flaw is not refused.                  *)
LEMMA DescribedNotRefused ==
    ASSUME Ingesting, source.flaw = Flawless, run.pc = "read", DecodeFails \/ GatesFail
    PROVE  ~probed /\ ~(RightFlags /\ (run.flags.probe => FileN >= 16))
<1> SUFFICES ASSUME probed \/ (RightFlags /\ (run.flags.probe => FileN >= 16)) PROVE FALSE
  OBVIOUS
<1>1. source \in Source /\ RunOK /\ run.flags \in Flags /\ FlagsAccepted
  BY DEF Ingesting, RunOK, PassedOK
<1>2. FlagsDescribe /\ (run.flags.probe => FileN >= 16)
  BY <1>1, RightFlagsDescribe DEF Ingesting, ProbedOK
<1>3. CASE DecodeFails
  <2>1. CanRead(NextArray)
    BY <1>1, <1>2, <1>3, NextRead, FlawlessReads DEF DecodeFails
  <2> QED
    BY <1>1, <1>3, <2>1, NextRead DEF DecodeFails
<1>4. CASE GatesFail
  <2>1. AllFive
    BY <1>1, <1>4 DEF AllFive, GatesFail, AllRead, Arrays
  <2> QED
    BY <1>2, <1>4, <2>1, FlawlessGates DEF GatesFail
<1> QED
  BY <1>3, <1>4

LEMMA PtauStep ==
    ASSUME Ingesting, [PtauNext]_pvars
    PROVE  Ingesting'
<1> USE DEF Ingesting
<1>1. CASE CheckFlags
  <2>1. /\ run' = [run EXCEPT !.pc = IF FlagsAccepted THEN "read" ELSE "usage"]
        /\ source' = source /\ probed' = probed /\ commons' = commons /\ run.pc = "flags"
    BY <1>1 DEF CheckFlags, Ends
  <2>2. /\ RunOK' /\ run'.flags = run.flags /\ run'.got = run.got
        /\ run'.pc = IF FlagsAccepted THEN "read" ELSE "usage"
    BY <2>1, PcMoves DEF PtauPC
  <2>3. FlagsDescribe' = FlagsDescribe /\ FlagsAccepted' = FlagsAccepted
    BY <2>1, <2>2, SourceFlagsKeep
  <2>4. PassedOK'
    BY <2>2, <2>3 DEF PassedOK
  <2>5. ProbedOK'
    BY <2>1, <2>2, <2>3 DEF ProbedOK
  <2>6. CommonsOK' /\ RefusedOK'
    BY <2>1, <2>2 DEF CommonsOK, RefusedOK
  <2> QED
    BY <2>1, <2>2, <2>4, <2>5, <2>6
<1>2. CASE ReadArray
  <2>1. source' = source /\ probed' = probed /\ commons' = commons /\ run.pc = "read"
    BY <1>2 DEF ReadArray, Reading
  <2>2. RunOK' /\ run'.flags = run.flags /\ run'.pc = "read"
    BY <1>2, ReadKeepsRunOK
  <2>3. FlagsDescribe' = FlagsDescribe /\ FlagsAccepted' = FlagsAccepted
    BY <2>1, <2>2, SourceFlagsKeep
  <2>4. PassedOK' /\ ProbedOK'
    BY <2>1, <2>2, <2>3 DEF PassedOK, ProbedOK
  <2>5. CommonsOK' /\ RefusedOK'
    BY <2>1, <2>2 DEF CommonsOK, RefusedOK
  <2> QED
    BY <2>1, <2>2, <2>4, <2>5
<1>3. ASSUME run.pc = "read", NEW pc \in {"refused", "failed"}, Ends(pc),
             pc = "refused" => DecodeFails \/ GatesFail
      PROVE  Ingesting'
  <2>1. /\ run' = [run EXCEPT !.pc = pc]
        /\ source' = source /\ probed' = probed /\ commons' = commons
    BY <1>3 DEF Ends
  <2>2. RunOK' /\ run'.flags = run.flags /\ run'.got = run.got /\ run'.pc = pc
    BY <2>1, PcMoves DEF PtauPC
  <2>3. /\ FlagsDescribe' = FlagsDescribe /\ FlagsAccepted' = FlagsAccepted
        /\ RightFlags' = RightFlags /\ FileN' = FileN
    BY <2>1, <2>2, SourceFlagsKeep
  <2>4. PassedOK' /\ ProbedOK'
    BY <1>3, <2>1, <2>2, <2>3 DEF PassedOK, ProbedOK
  <2>5. CommonsOK'
    BY <1>3, <2>1 DEF CommonsOK
  <2>6. RefusedOK'
    BY <1>3, <2>1, <2>2, <2>3, DescribedNotRefused DEF RefusedOK
  <2> QED
    BY <2>1, <2>2, <2>4, <2>5, <2>6
<1>4. CASE DecodeFails \/ GatesFail
  BY <1>3, <1>4 DEF DecodeFails, Reading, GatesFail, AllRead
<1>5. CASE FetchFails
  BY <1>3, <1>5 DEF FetchFails, Reading
<1>6. ASSUME AllRead, Gates PROVE AllFive /\ FlagsDescribe
  <2>1. AllFive
    BY <1>6 DEF AllFive, AllRead, Arrays, PassedOK
  <2> QED
    BY <1>6, <2>1, GeneratorsTellFlags DEF Gates
<1>7. CASE ProbeConfirms
  <2>1. /\ run' = [run EXCEPT !.pc = "confirmed"]
        /\ source' = source /\ probed' = TRUE /\ commons' = commons
        /\ AllRead /\ Gates /\ run.flags.probe /\ run.pc = "read"
    BY <1>7 DEF ProbeConfirms, AllRead
  <2>2. /\ RunOK' /\ run'.flags = run.flags /\ run'.got = run.got /\ run'.pc = "confirmed"
        /\ Gates' = Gates
    BY <2>1, PcMoves DEF PtauPC
  <2>3. FlagsDescribe' = FlagsDescribe /\ FlagsAccepted' = FlagsAccepted
    BY <2>1, <2>2, SourceFlagsKeep
  <2>4. AllFive /\ FlagsDescribe
    BY <1>6, <2>1
  <2>5. PassedOK' /\ ProbedOK'
    BY <2>1, <2>2, <2>3, <2>4 DEF PassedOK, ProbedOK, AllFive
  <2>6. CommonsOK' /\ RefusedOK'
    BY <2>1, <2>2 DEF CommonsOK, RefusedOK
  <2> QED
    BY <2>1, <2>2, <2>5, <2>6
<1>8. CASE IngestAfterProbe
  <2>1. PICK p \in PowerFlag :
            run' = [pc |-> "flags", got |-> <<>>,
                    flags |-> [run.flags EXCEPT !.probe = FALSE, !.power = p]]
    BY <1>8 DEF IngestAfterProbe
  <2>2. source' = source /\ probed' = probed /\ commons' = commons /\ run.pc = "confirmed"
    BY <1>8 DEF IngestAfterProbe
  <2>3. /\ run'.pc = "flags" /\ run'.got = <<>> /\ run'.flags \in Flags
        /\ run'.flags.probe = FALSE /\ run'.flags.header = run.flags.header
        /\ run'.flags.source = run.flags.source
        /\ run' = [pc |-> run'.pc, flags |-> run'.flags, got |-> run'.got]
    BY <2>1 DEF RunOK, Flags
  <2>4. RunOK'
    <3>1. Len(run'.got) = 0 /\ run'.got = [k \in 1..0 |-> ReadOf(Arrays[k])']
      BY <2>3
    <3> QED
      BY <2>3, <3>1 DEF RunOK, PtauPC
  <2>5. FlagsDescribe' = FlagsDescribe
    BY <2>2, <2>3 DEF FlagsDescribe, FileN
  <2>6. PassedOK' /\ ProbedOK'
    BY <2>2, <2>3, <2>5 DEF PassedOK, ProbedOK
  <2>7. CommonsOK' /\ RefusedOK'
    BY <2>2, <2>3 DEF CommonsOK, RefusedOK
  <2> QED
    BY <2>2, <2>4, <2>6, <2>7
<1>9. CASE CreateCommons
  <2>1. /\ run' = [run EXCEPT !.pc = "writing"]
        /\ source' = source /\ probed' = probed /\ commons' = Torn
        /\ AllRead /\ Gates /\ ~run.flags.probe /\ run.pc = "read"
    BY <1>9 DEF CreateCommons, AllRead
  <2>2. /\ RunOK' /\ run'.flags = run.flags /\ run'.got = run.got /\ run'.pc = "writing"
        /\ Gates' = Gates
    BY <2>1, PcMoves DEF PtauPC
  <2>3. FlagsDescribe' = FlagsDescribe /\ FlagsAccepted' = FlagsAccepted
    BY <2>1, <2>2, SourceFlagsKeep
  <2>4. AllFive
    BY <1>6, <2>1
  <2>5. PassedOK' /\ ProbedOK'
    BY <2>1, <2>2, <2>3, <2>4 DEF PassedOK, ProbedOK, AllFive
  <2>6. run'.got = Arrays5(2^run'.flags.power)
    BY <2>1, <2>2, <2>4, GatesPassPrefix
  <2>7. CommonsOK' /\ RefusedOK'
    BY <2>1, <2>2, <2>6 DEF CommonsOK, RefusedOK
  <2> QED
    BY <2>1, <2>2, <2>5, <2>7
<1>10. ASSUME run.pc = "writing", NEW pc \in {"ok", "failed"}, run' = [run EXCEPT !.pc = pc],
              source' = source, probed' = probed, commons' \in {commons, run.got}
       PROVE  Ingesting'
  <2>1. /\ RunOK' /\ run'.flags = run.flags /\ run'.got = run.got /\ run'.pc = pc
        /\ Gates' = Gates
    BY <1>10, PcMoves DEF PtauPC
  <2>2. FlagsDescribe' = FlagsDescribe /\ FlagsAccepted' = FlagsAccepted
    BY <1>10, <2>1, SourceFlagsKeep
  <2>3. PassedOK' /\ ProbedOK'
    BY <1>10, <2>1, <2>2 DEF PassedOK, ProbedOK
  <2>4. CommonsOK' /\ RefusedOK'
    BY <1>10, <2>1 DEF CommonsOK, RefusedOK
  <2> QED
    BY <1>10, <2>1, <2>3, <2>4
<1>11. CASE WriteFails
  BY <1>10, <1>11 DEF WriteFails, Ends
<1>12. CASE CommonsWritten
  BY <1>10, <1>12 DEF CommonsWritten
<1>13. CASE UNCHANGED pvars
  <2>1. run' = run /\ source' = source /\ probed' = probed /\ commons' = commons
    BY <1>13 DEF pvars
  <2> QED
    BY <2>1, SourceFlagsKeep DEF RunOK, PassedOK, ProbedOK, CommonsOK, RefusedOK, Gates,
       StartsAtGenerators, TauG1, TauG2, BetaPairing, BetaTau, BetaG2, FlagsAccepted, RightFlags
<1> QED
  BY <1>1, <1>2, <1>4, <1>5, <1>7, <1>8, <1>9, <1>11, <1>12, <1>13 DEF PtauNext

-----------------------------------------------------------------------------
(* The theorems of ingest-ptau *)

LEMMA PtauInitOK == PtauInit => Ingesting
<1> SUFFICES ASSUME PtauInit PROVE Ingesting
  OBVIOUS
<1>1. PICK f \in Flags : run = [pc |-> "flags", flags |-> f, got |-> <<>>]
  BY DEF PtauInit
<1>2. source \in Source /\ probed = FALSE /\ commons = Before
  BY DEF PtauInit
<1>3. Len(run.got) = 0 /\ run.got = [k \in 1..0 |-> ReadOf(Arrays[k])]
  BY <1>1
<1>4. RunOK
  BY <1>1, <1>3 DEF RunOK, PtauPC
<1> QED
  BY <1>1, <1>2, <1>4 DEF Ingesting, PassedOK, ProbedOK, CommonsOK, RefusedOK

LEMMA NoIngestStays ==
    ASSUME run = NoIngest, [PtauNext]_pvars
    PROVE  UNCHANGED pvars
<1>1. run.pc = "none"
  BY DEF NoIngest
<1> QED
  BY <1>1 DEF PtauNext, CheckFlags, ReadArray, DecodeFails, FetchFails, Reading, GatesFail,
     AllRead, ProbeConfirms, IngestAfterProbe, CreateCommons, WriteFails, CommonsWritten

PtauOK == (run = NoIngest /\ probed = FALSE /\ commons = Before) \/ Ingesting

LEMMA CommonsPtauOK == CommonsSpec => []PtauOK
<1>1. CommonsInit => PtauOK
  BY PtauInitOK DEF CommonsInit, NothingIngested, PtauOK
<1>2. PtauOK /\ [CommonsNext]_<<pvars, p1vars>> => PtauOK'
  <2> SUFFICES ASSUME PtauOK, [CommonsNext]_<<pvars, p1vars>> PROVE PtauOK'
    OBVIOUS
  <2>1. [PtauNext]_pvars
    BY DEF CommonsNext
  <2>2. CASE run = NoIngest /\ probed = FALSE /\ commons = Before
    <3>1. UNCHANGED pvars
      BY <2>1, <2>2, NoIngestStays
    <3> QED
      BY <2>2, <3>1 DEF pvars, PtauOK
  <2>3. CASE Ingesting
    BY <2>1, <2>3, PtauStep DEF PtauOK
  <2> QED
    BY <2>2, <2>3 DEF PtauOK
<1> QED
  BY <1>1, <1>2, PTL DEF CommonsSpec

(* Whatever the flags say of the file, wrapped or not, and wherever the    *)
(* file is wrong, what ingest-ptau writes are the elements of the source   *)
(* from the first on, for files of any size an int64 can say.              *)
THEOREM CommonsTruePrefix == CommonsSpec => []TruePrefix
<1>1. PtauOK => TruePrefix
  BY DEF PtauOK, Ingesting, CommonsOK, TruePrefix
<1> QED
  BY <1>1, CommonsPtauOK, PTL

(* A file without a flaw that is described rightly is not refused.         *)
THEOREM CommonsRightFlagsWork == CommonsSpec => []RightFlagsWork
<1>1. PtauOK => RightFlagsWork
  <2>1. run = NoIngest => run.pc # "refused"
    BY DEF NoIngest
  <2> QED
    BY <2>1 DEF PtauOK, Ingesting, RefusedOK, RightFlagsWork, FileN
<1> QED
  BY <1>1, CommonsPtauOK, PTL

(* After a probe that succeeded, no ingest of any power is refused for a   *)
(* file without a flaw: its gates fix where every array starts and the     *)
(* source power, though it reads the first elements of each array only.    *)
THEOREM CommonsConfirmedIngests == CommonsSpec => []ConfirmedIngests
<1>1. PtauOK => ConfirmedIngests
  BY DEF PtauOK, Ingesting, RefusedOK, ConfirmedIngests
<1> QED
  BY <1>1, CommonsPtauOK, PTL

-----------------------------------------------------------------------------
(* Prefixes and chains of a Phase 1 *)

LEMMA PrefixMeans ==
    ASSUME NEW S, NEW a \in Seq(S), NEW b \in Seq(S)
    PROVE  IsPrefix(a, b) <=> Len(a) <= Len(b) /\ \A i \in 1..Len(a) : a[i] = b[i]
<1>1. ASSUME Len(a) <= Len(b)
      PROVE  SubSeq(a, 1, Len(a)) = SubSeq(b, 1, Len(a)) <=> \A i \in 1..Len(a) : a[i] = b[i]
  <2>1. /\ Len(SubSeq(a, 1, Len(a))) = Len(a) /\ Len(SubSeq(b, 1, Len(a))) = Len(a)
        /\ \A i \in 1..Len(a) : SubSeq(a, 1, Len(a))[i] = a[i]
        /\ \A i \in 1..Len(a) : SubSeq(b, 1, Len(a))[i] = b[i]
        /\ SubSeq(a, 1, Len(a)) \in Seq(S) /\ SubSeq(b, 1, Len(a)) \in Seq(S)
    BY <1>1
  <2> QED
    BY <2>1
<1> QED
  BY <1>1 DEF IsPrefix

(* What a file that goes from hand to hand holds.                          *)
IsState(b) ==
    /\ b = [n |-> b.n, by |-> b.by, asked |-> b.asked]
    /\ b.by \in Seq(Contributor)
    /\ b.asked \in Nat /\ b.n = Domain(Uint8(b.asked))

LEMMA StepExtends ==
    ASSUME NEW prev, IsState(prev), NEW next, VerifyPhase1Step(prev, next)
    PROVE  /\ next.by \in Seq(Contributor)
           /\ Len(next.by) = Len(prev.by) + 1
           /\ \A k \in 1..Len(prev.by) : next.by[k] = prev.by[k]
           /\ next.n = prev.n
<1>1. PICK who \in Contributor : next = [prev EXCEPT !.by = Append(prev.by, who)]
  BY DEF VerifyPhase1Step, ContributePhase1
<1>2. next.by = Append(prev.by, who) /\ next.n = prev.n
  BY <1>1 DEF IsState
<1> QED
  BY <1>2 DEF IsState

(* In a chain that verifies the i-th state folds i contributions, the      *)
(* first of which are those of the states before it.                       *)
LEMMA ChainFolds ==
    ASSUME NEW k \in Nat \ {0}, NEW chain, DOMAIN chain = 1..k, Len(chain) = k,
           \A i \in 1..k : IsState(chain[i]),
           NEW n, VerifyPhase1(n, chain)
    PROVE  \A i \in 1..k : /\ Len(chain[i].by) = i /\ IsPrefix(chain[i].by, chain[k].by)
                            /\ chain[i].n = n
<1> DEFINE Good(i) == /\ Len(chain[i].by) = i /\ chain[i].n = n
                      /\ \A j \in 1..i : \A l \in 1..j : chain[j].by[l] = chain[i].by[l]
           Bad == {i \in 1..k : ~Good(i)}
<1>1. Len(chain[1].by) = 1 /\ chain[1].n = n
      /\ \A i \in 2..k : VerifyPhase1Step(chain[i - 1], chain[i])
  BY DEF VerifyPhase1
<1>2. ASSUME NEW i \in 2..k, Good(i - 1) PROVE Good(i)
  <2>1. i - 1 \in 1..k /\ IsState(chain[i - 1])
    OBVIOUS
  <2>2. /\ Len(chain[i].by) = i
        /\ \A l \in 1..(i - 1) : chain[i].by[l] = chain[i - 1].by[l]
        /\ chain[i].n = n
    BY <1>1, <1>2, <2>1, StepExtends
  <2>3. ASSUME NEW j \in 1..i, NEW l \in 1..j PROVE chain[j].by[l] = chain[i].by[l]
    <3>1. CASE j = i
      BY <3>1
    <3>2. CASE j # i
      <4>1. j \in 1..(i - 1) /\ l \in 1..(i - 1)
        BY <3>2
      <4> QED
        BY <1>2, <2>2, <4>1
    <3> QED
      BY <3>1, <3>2
  <2> QED
    BY <2>2, <2>3
<1>3. ASSUME Bad # {} PROVE FALSE
  <2>1. Bad \in SUBSET Nat
    OBVIOUS
  <2> HIDE DEF Bad
  <2>2. PICK m \in Bad : \A i \in Bad : m <= i
    BY <1>3, <2>1, LeastNumber
  <2> USE DEF Bad
  <2>3. m \in 1..k /\ ~Good(m)
    OBVIOUS
  <2>4. m # 1
    <3>1. Good(1)
      BY <1>1
    <3> HIDE DEF Good
    <3> QED
      BY <2>3, <3>1
  <2>5. m \in 2..k /\ m - 1 \in 1..k
    BY <2>3, <2>4
  <2>6. Good(m - 1)
    <3> HIDE DEF Good
    <3> QED
      BY <2>2, <2>5
  <2> HIDE DEF Good
  <2> QED
    BY <1>2, <2>3, <2>5, <2>6
<1>4. ASSUME NEW i \in 1..k
      PROVE  Len(chain[i].by) = i /\ IsPrefix(chain[i].by, chain[k].by) /\ chain[i].n = n
  <2>1. Good(i) /\ Good(k)
    <3> HIDE DEF Good
    <3> QED
      BY <1>3
  <2>2. chain[i].by \in Seq(Contributor) /\ chain[k].by \in Seq(Contributor)
    BY DEF IsState
  <2>3. \A l \in 1..i : chain[i].by[l] = chain[k].by[l]
    BY <2>1
  <2> QED
    BY <2>1, <2>2, <2>3, PrefixMeans
<1> QED
  BY <1>4

-----------------------------------------------------------------------------
(* The invariant of a Phase 1 *)

FoldsAll(b) ==
    \A i \in DOMAIN b.files : Len(b.files[i].by) = i /\ IsPrefix(b.files[i].by, b.by)

(* What is sealed has the size that was asked for, twice.                  *)
SizedRight(b) ==
    /\ b.asked \in Nat /\ b.sealedFor \in Nat /\ b.n # 0
    /\ b.n = Domain(Uint8(b.asked)) /\ b.n = Domain(Uint8(b.sealedFor))

SealOK(b) == FoldsAll(b) /\ SizedRight(b)

FilesOK ==
    /\ p1files = [f \in P1File \cup {CommonsBin} |-> p1files[f]]
    /\ \A f \in P1File : Whole(f) => IsState(p1files[f])
    /\ Whole(CommonsBin) => SealOK(Sealed)

CommandOK ==
    /\ command = [pc |-> command.pc, out |-> command.out, result |-> command.result]
    /\ command.pc # "shell" =>
         \/ command.out \in P1File /\ IsState(command.result)
         \/ command.out = CommonsBin /\ SealOK(command.result)

Phase1OK == FilesOK /\ CommandOK

LEMMA InitOK == Phase1FilesInit => Phase1OK
BY DEF Phase1FilesInit, Phase1OK, FilesOK, CommandOK, Whole, NoCommand

LEMMA SealIsOK ==
    ASSUME NEW k \in Nat \ {0}, NEW chain, DOMAIN chain = 1..k, Len(chain) = k,
           \A i \in 1..k : IsState(chain[i]),
           NEW p \in Nat, VerifyPhase1(SealSize(p), chain)
    PROVE  SealOK(SealPhase1(p, chain))
<1> DEFINE b == SealPhase1(p, chain)
<1>1. /\ b.by = chain[k].by /\ b.files = chain /\ b.n = SealSize(p)
      /\ b.asked = chain[k].asked /\ b.sealedFor = p
  BY DEF SealPhase1, SealState
<1> HIDE DEF b
<1>2. FoldsAll(b)
  BY <1>1, ChainFolds DEF FoldsAll
<1>3. chain[k].n = SealSize(p) /\ IsState(chain[k])
  BY ChainFolds
<1>4. SealSize(p) # 0
  BY DEF VerifyPhase1
<1>5. SizedRight(b)
  BY <1>1, <1>3, <1>4 DEF SizedRight, IsState, SealSize
<1> QED
  BY <1>2, <1>5 DEF SealOK, b

LEMMA StepOK == ASSUME Phase1OK, [Phase1Next]_p1vars PROVE Phase1OK'
<1> USE DEF Phase1OK
<1>1. ASSUME NEW out \in P1File, NEW b, IsState(b), Runs(out, b) PROVE Phase1OK'
  BY <1>1 DEF Runs, FilesOK, CommandOK, Whole, Sealed
<1>2. ASSUME NEW f \in P1File, NEW p \in Power, Phase1Init(f, p) PROVE Phase1OK'
  <2>1. IsState(InitPhase1(p))
    BY Phase1Parameters DEF IsState, InitPhase1
  <2> QED
    BY <1>1, <1>2, <2>1 DEF Phase1Init
<1>3. ASSUME NEW in \in P1File, NEW out \in P1File, NEW who \in Contributor,
             Phase1Contribute(in, out, who)
      PROVE  Phase1OK'
  <2>1. IsState(p1files[in])
    BY <1>3 DEF Phase1Contribute, FilesOK
  <2>2. ASSUME NEW b, IsState(b) PROVE IsState(ContributePhase1(b, who))
    <3>1. b.by \in Seq(Contributor) /\ Append(b.by, who) \in Seq(Contributor)
      BY <2>2 DEF IsState
    <3>2. ContributePhase1(b, who) = [n |-> b.n, by |-> Append(b.by, who), asked |-> b.asked]
      <4>1. b = [n |-> b.n, by |-> b.by, asked |-> b.asked]
        BY <2>2 DEF IsState
      <4> QED
        BY <4>1 DEF ContributePhase1
    <3>3. /\ ContributePhase1(b, who).n = b.n /\ ContributePhase1(b, who).asked = b.asked
          /\ ContributePhase1(b, who).by = Append(b.by, who)
      BY <3>2
    <3>4. b.asked \in Nat /\ b.n = Domain(Uint8(b.asked))
      BY <2>2 DEF IsState
    <3> QED
      BY <3>1, <3>2, <3>3, <3>4, Zenon DEF IsState
  <2> QED
    BY <1>1, <1>3, <2>1, <2>2 DEF Phase1Contribute
<1>4. ASSUME NEW k \in 1..Cardinality(P1File), NEW p \in Power,
             NEW names \in [1..k -> P1File], Phase1Seal(names, p)
      PROVE  Phase1OK'
  <2> DEFINE chain == [i \in DOMAIN names |-> p1files[names[i]]]
  <2>1. k \in Nat \ {0} /\ p \in Nat /\ DOMAIN chain = 1..k /\ Len(chain) = k
    BY Phase1Parameters
  <2>2. \A i \in 1..k : IsState(chain[i])
    BY <1>4 DEF Phase1Seal, FilesOK
  <2>3. VerifyPhase1(SealSize(p), chain) /\ Runs(CommonsBin, SealPhase1(p, chain))
    BY <1>4 DEF Phase1Seal
  <2> HIDE DEF chain
  <2>4. SealOK(SealPhase1(p, chain))
    BY <2>1, <2>2, <2>3, SealIsOK
  <2> QED
    BY <2>3, <2>4 DEF Runs, FilesOK, CommandOK, Whole, Sealed
<1>5. ASSUME NEW x, command.pc # "shell",
             p1files' = [p1files EXCEPT ![command.out] = x],
             x = CutShort \/ x = command.result
      PROVE  FilesOK'
  <2>1. CASE command.out \in P1File
    BY <1>5, <2>1, Phase1Parameters DEF FilesOK, CommandOK, Whole, Sealed
  <2>2. CASE command.out = CommonsBin
    BY <1>5, <2>2, Phase1Parameters DEF FilesOK, CommandOK, Whole, Sealed
  <2> QED
    BY <1>5, <2>1, <2>2 DEF CommandOK
<1>6. CASE CreateFile
  <2>1. CommandOK'
    BY <1>6 DEF CreateFile, CommandOK
  <2> QED
    BY <1>5, <1>6, <2>1 DEF CreateFile
<1>7. CASE FileComplete
  <2>1. CommandOK'
    BY <1>7 DEF FileComplete, CommandOK, NoCommand
  <2> QED
    BY <1>5, <1>7, <2>1 DEF FileComplete
<1>8. CASE CommandDies \/ UNCHANGED p1vars
  BY <1>8 DEF CommandDies, NoCommand, p1vars, FilesOK, CommandOK, Whole, Sealed
<1> QED
  BY <1>2, <1>3, <1>4, <1>6, <1>7, <1>8 DEF Phase1Next

LEMMA CommonsPhase1OK == CommonsSpec => []Phase1OK
<1>1. CommonsInit => Phase1OK
  BY InitOK DEF CommonsInit
<1>2. Phase1OK /\ [CommonsNext]_<<pvars, p1vars>> => Phase1OK'
  BY StepOK DEF CommonsNext
<1> QED
  BY <1>1, <1>2, PTL DEF CommonsSpec

(* Whatever is torn, overwritten in place, forked or listed in a wrong     *)
(* order, a whole commons.bin of a Phase 1 folds one contribution of each  *)
(* file it was sealed from, each on top of the one before.                 *)
THEOREM CommonsSealFoldsAll == CommonsSpec => []SealFoldsAll
<1>1. Phase1OK => SealFoldsAll
  BY DEF Phase1OK, FilesOK, SealOK, FoldsAll, SealFoldsAll
<1> QED
  BY <1>1, CommonsPhase1OK, PTL

(* It has the size that was asked of phase1-init and again of phase1-seal, *)
(* when both powers fit a byte: powers told apart by a byte are told apart *)
(* by the size of the domain, those that overflow it excepted, which seal  *)
(* nothing.                                                                *)
THEOREM CommonsSealedPower == CommonsSpec => []SealedPower
<1>1. ASSUME SizedRight(Sealed), Sealed.asked < 256, Sealed.sealedFor < 256
      PROVE  Sealed.asked = Sealed.sealedFor /\ Sealed.n = 2^Sealed.asked
  <2> DEFINE p == Sealed.asked
             q == Sealed.sealedFor
             n == Sealed.n
  <2>1. /\ p \in Nat /\ q \in Nat /\ p < 256 /\ q < 256 /\ n # 0
        /\ n = Domain(Uint8(p)) /\ n = Domain(Uint8(q))
    BY <1>1 DEF SizedRight
  <2> HIDE DEF p, q, n
  <2>2. Uint8(p) = p /\ Uint8(q) = q
    BY <2>1 DEF Uint8
  <2>3. n = 2^p /\ n = 2^q
    BY <2>1, <2>2 DEF Domain
  <2>4. p = q
    BY <2>1, <2>3, PowerInjective
  <2> QED
    BY <2>3, <2>4 DEF p, q, n
<1>2. Phase1OK => SealedPower
  BY <1>1 DEF Phase1OK, FilesOK, SealOK, SealedPower
<1> QED
  BY <1>2, CommonsPhase1OK, PTL
=============================================================================
