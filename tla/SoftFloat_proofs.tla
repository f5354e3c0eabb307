-------------------------- MODULE SoftFloat_proofs --------------------------
(***************************************************************************)
(* Proofs about SoftFloat, for every width of mantissas, exponents and      *)
(* integers that SoftFloatAssumption allows: comparisons order the numbers, *)
(* conversions round as they should, and sums, differences, products and    *)
(* quotients of normal numbers are rounded.                                 *)
(*                                                                         *)
(* The provers know nothing of 2^n.  What is needed of it follows from the   *)
(* library's theorem on the number of subsets of a finite set; from there   *)
(* on, Pw(n) stands for 2^n and is not expanded.                            *)
(***************************************************************************)
EXTENDS SoftFloatProps, FiniteSetTheorems, WellFoundedInduction, TLAPS

(* The powers of two count the subsets of 1 .. n. *)
LEMMA Subsets ==
  ASSUME NEW n \in Nat
  PROVE  IsFiniteSet(SUBSET (1 .. n)) /\ Cardinality(SUBSET (1 .. n)) = 2^n
<1>1. IsFiniteSet(1 .. n) /\ Cardinality(1 .. n) = n
  <2>1. IsFiniteSet(1 .. n) /\ Cardinality(1 .. n) = IF 1 > n THEN 0 ELSE n - 1 + 1
    BY FS_Interval
  <2>2. CASE n = 0
    BY <2>1, <2>2
  <2>3. CASE n # 0
    BY <2>1, <2>3
  <2>4. QED BY <2>2, <2>3
<1>2. QED
  BY <1>1, FS_SUBSET, Zenon

(* A power of two is a number.                                             *)
LEMMA PowType ==
  ASSUME NEW n \in Nat
  PROVE  2^n \in Nat
<1>1. IsFiniteSet(SUBSET (1 .. n)) /\ Cardinality(SUBSET (1 .. n)) = 2^n
  BY Subsets, Zenon
<1>2. QED
  BY <1>1, FS_CardinalityType, Zenon

(* Half of the subsets of 1 .. n + 1 have n + 1 in them. *)
LEMMA Doubled ==
  ASSUME NEW n \in Nat
  PROVE  2^(n + 1) = 2^n + 2^n
<1> DEFINE Old == SUBSET (1 .. n)
           New == {S \cup {n + 1} : S \in SUBSET (1 .. n)}
           add == [S \in Old |-> S \cup {n + 1}]
<1>1. SUBSET (1 .. n + 1) = Old \cup New
  <2>1. ASSUME NEW S \in SUBSET (1 .. n + 1) PROVE S \in Old \cup New
    <3>1. CASE n + 1 \notin S
      <4>1. S \subseteq 1 .. n
        BY <3>1, <2>1
      <4>2. QED BY <4>1
    <3>2. CASE n + 1 \in S
      <4>1. S \ {n + 1} \subseteq 1 .. n
        BY <2>1
      <4>2. S = (S \ {n + 1}) \cup {n + 1}
        BY <3>2
      <4>3. QED BY <4>1, <4>2
    <3>3. QED BY <3>1, <3>2
  <2>2. 1 .. n \subseteq 1 .. n + 1 /\ n + 1 \in 1 .. n + 1
    OBVIOUS
  <2>3. Old \cup New \subseteq SUBSET (1 .. n + 1)
    BY <2>2
  <2>4. QED BY <2>1, <2>3
<1>2. Old \cap New = {}
  <2>1. n + 1 \notin 1 .. n
    OBVIOUS
  <2>2. QED BY <2>1
<1>3. IsFiniteSet(Old) /\ Cardinality(Old) = 2^n
  BY Subsets, Zenon
<1>4. add \in Bijection(Old, New)
  <2>1. add \in [Old -> New]
    OBVIOUS
  <2>2. ASSUME NEW S \in Old, NEW T \in Old, add[S] = add[T] PROVE S = T
    <3>1. n + 1 \notin S /\ n + 1 \notin T
      OBVIOUS
    <3>2. S \cup {n + 1} = T \cup {n + 1}
      BY <2>2
    <3>3. QED BY <3>1, <3>2
  <2>3. \A T \in New : \E S \in Old : add[S] = T
    OBVIOUS
  <2>4. QED BY <2>1, <2>2, <2>3, Zenon DEF Bijection, Injection, Surjection, IsInjective
<1>5. IsFiniteSet(New) /\ Cardinality(New) = 2^n
  BY <1>3, <1>4, FS_Bijection, Zenon DEF ExistsBijection
<1>6. Cardinality(Old \cup New) = Cardinality(Old) + Cardinality(New) - Cardinality(Old \cap New)
  BY <1>3, <1>5, FS_Union, Zenon
<1>7. Cardinality(Old \cap New) = 0
  BY <1>2, FS_EmptySet, Zenon
<1>8. 2^n \in Nat
  BY PowType, Zenon
<1>9. n + 1 \in Nat
  OBVIOUS
<1>10. Cardinality(SUBSET (1 .. n + 1)) = 2^(n + 1)
  BY <1>9, Subsets, Zenon
<1> DEFINE p == 2^n
<1>11. Cardinality(SUBSET (1 .. n + 1)) = p + p - 0
  BY <1>1, <1>3, <1>5, <1>6, <1>7, Zenon
<1>12. p \in Nat
  BY <1>8
<1> HIDE DEF p
<1>13. p + p - 0 = p + p
  BY <1>12
<1>14. QED
  BY <1>10, <1>11, <1>13, Zenon DEF p

-----------------------------------------------------------------------------
(* 2^n, and how it grows.                                                   *)
Pw(n) == 2^n

LEMMA PwBasics ==
  /\ Pw(0) = 1
  /\ \A n \in Nat : Pw(n) \in Nat /\ Pw(n + 1) = Pw(n) + Pw(n)
<1>1. 2^0 = 1
  OBVIOUS
<1>2. QED
  BY <1>1, PowType, Doubled, Zenon DEF Pw

(* A set of numbers has a least member.                                     *)
LEMMA LeastNumber ==
  ASSUME NEW T \in SUBSET Nat, T # {}
  PROVE  \E x \in T : \A y \in T : x <= y
<1>1. PICK x \in T : \A y \in T : ~(<<y, x>> \in OpToRel(<, Nat))
  BY NatLessThanWellFounded, WFMin
<1>2. ASSUME NEW y \in T PROVE ~(y < x)
  BY <1>1, <1>2 DEF OpToRel
<1>3. ASSUME NEW y \in T PROVE x <= y
  BY <1>2
<1>4. QED
  BY <1>3

(* What holds of 0 and, with a number, of the next, holds of all.           *)
LEMMA ByNat ==
  ASSUME NEW T, 0 \in T, \A n \in Nat : n \in T => n + 1 \in T
  PROVE  Nat \subseteq T
<1> DEFINE bad == Nat \ T
<1>1. SUFFICES ASSUME bad # {} PROVE FALSE
  OBVIOUS
<1>2. PICK n \in bad : \A k \in bad : n <= k
  BY <1>1, LeastNumber
<1>3. n # 0 /\ n \in Nat /\ n \notin T
  OBVIOUS
<1>4. n - 1 \in Nat /\ n - 1 < n
  BY <1>3
<1>5. n - 1 \notin bad
  BY <1>2, <1>4
<1>6. n - 1 + 1 \in T
  BY <1>4, <1>5
<1>7. n - 1 + 1 = n
  BY <1>3
<1>8. QED
  BY <1>3, <1>6, <1>7

LEMMA PwPositive ==
  ASSUME NEW n \in Nat
  PROVE  Pw(n) \in Nat /\ Pw(n) >= 1
<1> DEFINE T == {k \in Nat : Pw(k) >= 1}
<1>1. 0 \in T
  BY PwBasics
<1>2. ASSUME NEW k \in Nat, k \in T PROVE k + 1 \in T
  BY <1>2, PwBasics
<1> HIDE DEF T
<1>3. Nat \subseteq T
  BY <1>1, <1>2, ByNat, Zenon
<1>4. QED
  BY <1>3, PwBasics DEF T

LEMMA PwSum ==
  ASSUME NEW a \in Nat, NEW b \in Nat
  PROVE  Pw(a + b) = Pw(a) * Pw(b)
<1> DEFINE T == {k \in Nat : Pw(a + k) = Pw(a) * Pw(k)}
<1>1. 0 \in T
  <2>1. a + 0 = a /\ Pw(a) \in Nat
    BY PwPositive
  <2>2. QED BY <2>1, PwBasics
<1>2. ASSUME NEW k \in Nat, k \in T PROVE k + 1 \in T
  <2>1. Pw(a + k) = Pw(a) * Pw(k)
    BY <1>2
  <2>2. a + k \in Nat /\ a + (k + 1) = (a + k) + 1
    OBVIOUS
  <2>3. Pw(a + (k + 1)) = Pw(a + k) + Pw(a + k)
    BY <2>2, PwBasics
  <2>4. Pw(a) \in Nat /\ Pw(k) \in Nat /\ Pw(k + 1) = Pw(k) + Pw(k)
    BY PwBasics
  <2>5. Pw(a) * (Pw(k) + Pw(k)) = Pw(a) * Pw(k) + Pw(a) * Pw(k)
    BY <2>4
  <2>6. QED BY <2>1, <2>3, <2>4, <2>5
<1> HIDE DEF T
<1>3. Nat \subseteq T
  BY <1>1, <1>2, ByNat, Zenon
<1>4. QED
  BY <1>3 DEF T

LEMMA PwMonotone ==
  ASSUME NEW a \in Nat, NEW b \in Nat
  PROVE  /\ a <= b => Pw(a) <= Pw(b)
         /\ a < b => 2 * Pw(a) <= Pw(b)
<1>1. ASSUME NEW c \in Nat, NEW d \in Nat, c <= d PROVE Pw(c) <= Pw(d)
  <2>1. d - c \in Nat /\ c + (d - c) = d
    BY <1>1
  <2>2. Pw(d) = Pw(c) * Pw(d - c) /\ Pw(c) \in Nat /\ Pw(d - c) \in Nat /\ Pw(d - c) >= 1
    BY <2>1, PwSum, PwPositive
  <2> DEFINE x == Pw(c)  y == Pw(d - c)
  <2>3. ASSUME NEW u \in Nat, NEW v \in Nat, v >= 1 PROVE u <= u * v
    BY <2>3
  <2>4. QED BY <2>2, <2>3
<1>2. ASSUME a < b PROVE 2 * Pw(a) <= Pw(b)
  <2>1. a + 1 <= b /\ a + 1 \in Nat
    BY <1>2
  <2>2. Pw(a + 1) <= Pw(b)
    BY <1>1, <2>1
  <2>3. Pw(a + 1) = Pw(a) + Pw(a) /\ Pw(a) \in Nat
    BY PwBasics
  <2>4. QED BY <2>2, <2>3
<1>3. QED BY <1>1, <1>2

-----------------------------------------------------------------------------
(* The fields of floats and doubles.                                        *)
LEMMA FieldWidths ==
  /\ {MB, EB, DMB, DEB, IB, LB, WB, ShiftCap, Low} \subseteq Nat
  /\ MB >= 3 /\ EB >= 2 /\ DMB > MB /\ DEB > EB /\ IB <= DMB + 1 /\ LB > IB /\ IB >= 1
  /\ ShiftCap >= MB + 4 /\ WB >= MB + 2 /\ Low = DMB - MB
BY SoftFloatAssumption DEF Low

LEMMA FloatFields ==
  /\ F32_IMPLICIT = Pw(MB) /\ F32_IMPLICIT \in Nat /\ F32_IMPLICIT >= 8
  /\ F32_IMPLICIT % 2 = 0
  /\ F32_BIAS = Pw(EB - 1) - 1 /\ F32_BIAS \in Nat /\ F32_BIAS >= 1
  /\ F32_EXP_MASK = 2 * F32_BIAS + 1
<1>1. MB \in Nat /\ MB >= 3 /\ EB \in Nat /\ EB >= 2 /\ EB - 1 \in Nat /\ MB - 1 \in Nat
  BY FieldWidths
<1>2. F32_IMPLICIT = Pw(MB) /\ F32_BIAS = Pw(EB - 1) - 1 /\ F32_EXP_MASK = Pw(EB) - 1
  BY Zenon DEF F32_IMPLICIT, F32_BIAS, F32_EXP_MASK, Pw
<1>3. Pw(MB - 1 + 1) = Pw(MB - 1) + Pw(MB - 1) /\ Pw(EB - 1 + 1) = Pw(EB - 1) + Pw(EB - 1)
      /\ Pw(MB - 1) \in Nat /\ Pw(EB - 1) \in Nat
  BY <1>1, PwBasics
<1>4. MB - 1 + 1 = MB /\ EB - 1 + 1 = EB
  BY <1>1
<1>5. Pw(0 + 1) = 2 /\ Pw(1 + 1) = 4 /\ Pw(2 + 1) = 8
  BY PwBasics
<1>6. Pw(1) <= Pw(EB - 1) /\ Pw(3) <= Pw(MB)
  BY <1>1, PwMonotone
<1>7. Pw(MB) = Pw(MB - 1) + Pw(MB - 1) /\ Pw(EB) = Pw(EB - 1) + Pw(EB - 1)
      /\ Pw(1) = 2 /\ Pw(3) = 8
  BY <1>3, <1>4, <1>5
<1>8. QED
  BY <1>2, <1>3, <1>6, <1>7

LEMMA DoubleFields ==
  /\ F64_IMPLICIT = Pw(DMB) /\ F64_IMPLICIT \in Nat /\ F64_IMPLICIT % 2 = 0
  /\ F64_IMPLICIT = F32_IMPLICIT * Pw(Low)
  /\ F64_BIAS = Pw(DEB - 1) - 1 /\ F64_BIAS \in Nat
  /\ F64_EXP_MASK = 2 * F64_BIAS + 1
  /\ F64_BIAS >= F32_BIAS + MB
<1>1. DMB \in Nat /\ DEB \in Nat /\ DEB >= 3 /\ DEB - 1 \in Nat /\ DMB - 1 \in Nat /\ MB \in Nat /\ Low \in Nat
      /\ Low = DMB - MB /\ Low >= 1
  BY FieldWidths
<1>2. F64_IMPLICIT = Pw(DMB) /\ F64_BIAS = Pw(DEB - 1) - 1 /\ F64_EXP_MASK = Pw(DEB) - 1
  BY Zenon DEF F64_IMPLICIT, F64_BIAS, F64_EXP_MASK, Pw
<1>3. Pw(DEB - 1 + 1) = Pw(DEB - 1) + Pw(DEB - 1) /\ Pw(DEB - 1) \in Nat
      /\ Pw(DMB - 1 + 1) = Pw(DMB - 1) + Pw(DMB - 1) /\ Pw(DMB - 1) \in Nat
  BY <1>1, PwBasics
<1>4. DEB - 1 + 1 = DEB /\ DMB - 1 + 1 = DMB /\ MB + Low = DMB
  BY <1>1
<1>5. Pw(DMB) = Pw(MB) * Pw(Low)
  BY <1>1, <1>4, PwSum
<1>6. 2^(DEB - 1) - 2^(EB - 1) >= MB
  BY SoftFloatAssumption
<1>7. Pw(DEB - 1) - Pw(EB - 1) >= MB
  BY <1>6, Zenon DEF Pw
<1>8. Pw(DEB - 1) >= 1
  BY <1>1, PwPositive
<1>9. F64_IMPLICIT = Pw(DMB) /\ F64_IMPLICIT \in Nat /\ F64_IMPLICIT % 2 = 0
  BY <1>2, <1>3, <1>4
<1>10. F64_IMPLICIT = F32_IMPLICIT * Pw(Low)
  BY <1>2, <1>5, FloatFields
<1>11. /\ F64_BIAS = Pw(DEB - 1) - 1 /\ F64_BIAS \in Nat
       /\ F64_EXP_MASK = 2 * F64_BIAS + 1
  <2>1. Pw(DEB) = Pw(DEB - 1) + Pw(DEB - 1)
    BY <1>3, <1>4
  <2>2. Pw(DEB - 1) \in Nat
    BY <1>3
  <2>3. QED BY <1>2, <1>8, <2>1, <2>2
<1>12. F64_BIAS >= F32_BIAS + MB
  <2>1. F32_BIAS = Pw(EB - 1) - 1 /\ F32_BIAS \in Nat
    BY FloatFields
  <2>2. Pw(EB - 1) \in Nat
    BY FieldWidths, PwPositive
  <2>3. QED BY <1>1, <1>3, <1>7, <1>11, <2>1, <2>2
<1>13. QED
  BY <1>9, <1>10, <1>11, <1>12

(* Numbers have their fields. *)
LEMMA FloatIs ==
  ASSUME NEW a \in Floats
  PROVE  /\ a.s \in {0, 1} /\ a.e \in Nat /\ a.e <= F32_EXP_MASK
         /\ a.m \in Nat /\ a.m < F32_IMPLICIT
         /\ a = [s |-> a.s, e |-> a.e, m |-> a.m]
<1>1. F32_EXP_MASK \in Nat /\ F32_IMPLICIT \in Nat
  BY FloatFields
<1>2. QED
  BY <1>1 DEF Floats

LEMMA DoubleIs ==
  ASSUME NEW a \in Doubles
  PROVE  /\ a.s \in {0, 1} /\ a.e \in Nat /\ a.e <= F64_EXP_MASK
         /\ a.m \in Nat /\ a.m < F64_IMPLICIT
         /\ a = [s |-> a.s, e |-> a.e, m |-> a.m]
<1>1. F64_EXP_MASK \in Nat /\ F64_IMPLICIT \in Nat
  BY DoubleFields
<1>2. QED
  BY <1>1 DEF Doubles

(* What LeastShift finds, and that there is only one such shift.            *)
LEMMA ShiftIs ==
  ASSUME NEW m \in Nat, NEW b \in Nat, m >= 1
  PROVE  LET n == LeastShift(m, b)
         IN /\ n \in 0 .. b
            /\ m * Pw(n) >= Pw(b)
            /\ \A k \in 0 .. n - 1 : m * Pw(k) < Pw(b)
<1> DEFINE Good == {n \in Nat : m * Pw(n) >= Pw(b)}
           Best(n) == n \in 0 .. b /\ m * Pw(n) >= Pw(b) /\ \A k \in 0 .. n - 1 : m * Pw(k) < Pw(b)
<1>1. b \in Good
  <2>1. Pw(b) \in Nat
    BY PwPositive
  <2>2. ASSUME NEW u \in Nat, NEW p \in Nat, u >= 1 PROVE u * p >= p
    BY <2>2
  <2>3. QED BY <2>1, <2>2
<1>2. PICK n \in Good : \A k \in Good : n <= k
  <2>1. Good \in SUBSET Nat /\ Good # {}
    BY <1>1
  <2> HIDE DEF Good
  <2>2. QED BY <2>1, LeastNumber, Zenon
<1>3. ASSUME NEW k \in 0 .. n - 1 PROVE m * Pw(k) < Pw(b)
  <2>1. k \notin Good
    BY <1>2
  <2>2. k \in Nat /\ Pw(k) \in Nat /\ Pw(b) \in Nat
    BY PwPositive
  <2>3. m * Pw(k) \in Nat
    BY <2>2
  <2>4. QED BY <2>1, <2>2, <2>3
<1>4. n \in 0 .. b
  BY <1>1, <1>2
<1>5. Best(n)
  BY <1>3, <1>4
<1>6. LeastShift(m, b) = CHOOSE k \in 0 .. b : m * 2^k >= 2^b /\ \A j \in 0 .. k - 1 : m * 2^j < 2^b
  BY Zenon DEF LeastShift
<1>7. LeastShift(m, b) = CHOOSE k \in 0 .. b : m * Pw(k) >= Pw(b) /\ \A j \in 0 .. k - 1 : m * Pw(j) < Pw(b)
  BY <1>6, Zenon DEF Pw
<1>8. \E k \in 0 .. b : m * Pw(k) >= Pw(b) /\ \A j \in 0 .. k - 1 : m * Pw(j) < Pw(b)
  BY <1>5
<1> HIDE DEF Best, Good
<1>9. QED
  BY <1>7, <1>8, Zenon

-----------------------------------------------------------------------------
(* Multiplication keeps order.                                              *)
LEMMA Times ==
  ASSUME NEW a \in Int, NEW b \in Int, NEW c \in Nat
  PROVE  /\ a * c \in Int /\ b * c \in Int
         /\ a <= b => a * c <= b * c
         /\ a < b /\ c >= 1 => a * c < b * c
         /\ a \in Nat => a * c \in Nat
<1>1. a * c \in Int /\ b * c \in Int
  OBVIOUS
<1>2. ASSUME a <= b PROVE a * c <= b * c
  BY <1>2
<1>3. ASSUME a < b, c >= 1 PROVE a * c < b * c
  BY <1>3
<1>4. ASSUME a \in Nat PROVE a * c \in Nat
  BY <1>4
<1>5. QED
  BY <1>1, <1>2, <1>3, <1>4

(* The mantissa and exponent of a number, and its size.                     *)
LEMMA MagIs ==
  ASSUME NEW a \in Floats
  PROVE  /\ ExpOf(a) \in Nat /\ ExpOf(a) >= 1 /\ ExpOf(a) <= F32_EXP_MASK
         /\ MantOf(a) \in Nat /\ MantOf(a) < 2 * F32_IMPLICIT
         /\ Mag(a) = MantOf(a) * Pw(ExpOf(a)) /\ Mag(a) \in Nat
         /\ Mag(a) = 0 <=> is_zero(a)
<1>1. /\ ExpOf(a) \in Nat /\ ExpOf(a) >= 1 /\ ExpOf(a) <= F32_EXP_MASK
      /\ MantOf(a) \in Nat /\ MantOf(a) < 2 * F32_IMPLICIT
      /\ MantOf(a) = 0 <=> is_zero(a)
  BY FloatIs, FloatFields DEF ExpOf, MantOf, is_zero
<1>2. Mag(a) = 2 * MantOf(a) * Pw(ExpOf(a) - 1)
  BY Zenon DEF Mag, Pw
<1>3. /\ Pw(ExpOf(a) - 1) \in Nat /\ Pw(ExpOf(a) - 1) >= 1
      /\ Pw(ExpOf(a)) = Pw(ExpOf(a) - 1) + Pw(ExpOf(a) - 1)
  <2>1. ExpOf(a) - 1 \in Nat /\ ExpOf(a) - 1 + 1 = ExpOf(a)
    BY <1>1
  <2>2. QED BY <2>1, PwBasics, PwPositive
<1>4. ASSUME NEW m \in Nat, NEW p \in Nat, p >= 1
      PROVE  /\ 2 * m * p = m * (p + p) /\ 2 * m * p \in Nat
             /\ 2 * m * p = 0 <=> m = 0
  <2>1. 2 * m * p = m * (p + p) /\ 2 * m * p \in Nat
    OBVIOUS
  <2>2. ASSUME m # 0 PROVE 2 * m * p # 0
    BY <1>4, <2>2
  <2>3. ASSUME m = 0 PROVE 2 * m * p = 0
    BY <2>3
  <2>4. QED BY <2>1, <2>2, <2>3
<1>5. QED
  BY <1>1, <1>2, <1>3, <1>4

(* The bits of numbers without a sign order them.                           *)
LEMMA MagBelow ==
  ASSUME NEW a \in Floats, NEW b \in Floats, Below(a, b)
  PROVE  Mag(a) < Mag(b)
<1> DEFINE p == Pw(ExpOf(a))  q == Pw(ExpOf(b))
<1>1. /\ Mag(a) = MantOf(a) * p /\ Mag(b) = MantOf(b) * q
      /\ MantOf(a) \in Nat /\ MantOf(b) \in Nat /\ F32_IMPLICIT \in Nat
      /\ ExpOf(a) \in Nat /\ ExpOf(b) \in Nat
  BY MagIs, FloatFields
<1>2. p \in Nat /\ q \in Nat /\ p >= 1 /\ q >= 1
  BY <1>1, PwPositive
<1>3. CASE a.e = b.e
  <2>1. ExpOf(a) = ExpOf(b) /\ MantOf(a) < MantOf(b)
    BY <1>3, FloatIs, FloatFields DEF Below, ExpOf, MantOf
  <2>2. p = q
    BY <2>1
  <2> HIDE DEF p, q
  <2>3. QED BY <1>1, <1>2, <2>1, <2>2, Times
<1>4. CASE a.e < b.e
  <2>1. MantOf(b) >= F32_IMPLICIT
    BY <1>4, FloatIs, FloatFields DEF MantOf
  <2>2. CASE a.e = 0
    <3>1. MantOf(a) < F32_IMPLICIT /\ ExpOf(a) <= ExpOf(b)
      BY <1>4, <2>2, FloatIs DEF MantOf, ExpOf
    <3>2. p <= q
      BY <1>1, <3>1, PwMonotone
    <3> HIDE DEF p, q
    <3>3. MantOf(a) * p < MantOf(b) * p
      BY <1>1, <1>2, <2>1, <3>1, Times
    <3>4. p * MantOf(b) <= q * MantOf(b)
      BY <1>1, <1>2, <3>2, Times
    <3>5. p * MantOf(b) = MantOf(b) * p /\ q * MantOf(b) = MantOf(b) * q
      BY <1>1, <1>2
    <3>6. QED BY <1>1, <1>2, <3>3, <3>4, <3>5
  <2>3. CASE a.e # 0
    <3>1. MantOf(a) < 2 * F32_IMPLICIT /\ ExpOf(a) < ExpOf(b)
      BY <1>4, <2>3, FloatIs, MagIs DEF ExpOf
    <3>2. 2 * p <= q
      BY <1>1, <3>1, PwMonotone
    <3> HIDE DEF p, q
    <3> DEFINE i == F32_IMPLICIT
    <3>3. MantOf(a) * p < (2 * i) * p
      BY <1>1, <1>2, <3>1, Times
    <3>4. (2 * p) * i <= q * i
      BY <1>1, <1>2, <3>2, Times
    <3>5. i * q <= MantOf(b) * q
      BY <1>1, <1>2, <2>1, Times
    <3>6. i \in Nat
      BY <1>1
    <3> HIDE DEF i
    <3>7. (2 * i) * p = (2 * p) * i /\ q * i = i * q
      BY <1>2, <3>6
    <3>8. QED BY <1>1, <1>2, <3>3, <3>4, <3>5, <3>6, <3>7
  <2>4. QED BY <2>2, <2>3
<1>5. QED
  BY <1>3, <1>4 DEF Below

(* Numbers are the same, one is below the other, or only signs differ.      *)
LEMMA BelowIsTotal ==
  ASSUME NEW a \in Floats, NEW b \in Floats
  PROVE  \/ Below(a, b) /\ ~Below(b, a) /\ a # b
         \/ Below(b, a) /\ ~Below(a, b) /\ a # b
         \/ /\ a.e = b.e /\ a.m = b.m /\ ~Below(a, b) /\ ~Below(b, a)
            /\ a = b <=> a.s = b.s
<1> USE FloatIs
<1>1. CASE a.e < b.e
  BY <1>1 DEF Below
<1>2. CASE b.e < a.e
  BY <1>2 DEF Below
<1>3. CASE a.e = b.e
  <2>1. CASE a.m < b.m
    BY <1>3, <2>1 DEF Below
  <2>2. CASE b.m < a.m
    BY <1>3, <2>2 DEF Below
  <2>3. CASE a.m = b.m
    BY <1>3, <2>3 DEF Below
  <2>4. QED BY <2>1, <2>2, <2>3
<1>4. QED BY <1>1, <1>2, <1>3

(* The floats of one sign, and of both, are ordered as their bits.          *)
LEMMA CmpOrders ==
  ASSUME NEW a \in Floats, NEW b \in Floats, NEW r, ~Nan(a), ~Nan(b)
  PROVE  /\ f32_cmp(a, b, r) = Order(Signed(a), Signed(b))
         /\ __cmpsf2(a, b) = f32_cmp(a, b, r) \/ (is_zero(a) /\ is_zero(b))
<1>1. /\ Mag(a) \in Nat /\ Mag(b) \in Nat
      /\ Mag(a) = 0 <=> is_zero(a)
      /\ Mag(b) = 0 <=> is_zero(b)
      /\ a.s \in {0, 1} /\ b.s \in {0, 1}
  BY MagIs, FloatIs
<1>2. f32_cmp(a, b, r) = IF (is_zero(a) /\ is_zero(b)) \/ a = b THEN 0
                         ELSE IF a.s # b.s THEN IF a.s = 1 THEN -1 ELSE 1
                         ELSE IF a.s = 0 THEN IF Below(a, b) THEN -1 ELSE 1
                         ELSE IF Below(b, a) THEN -1 ELSE 1
  BY DEF f32_cmp, cmp, f32_is_nan, Nan
<1>3. __cmpsf2(a, b) = IF a = b THEN 0
                       ELSE IF a.s # b.s THEN IF a.s = 1 THEN -1 ELSE 1
                       ELSE IF (a.s = 1) # Below(a, b) THEN -1 ELSE 1
  BY DEF __cmpsf2, f32_is_nan, Nan
<1>4. Below(a, b) => Mag(a) < Mag(b)
  BY MagBelow
<1>5. Below(b, a) => Mag(b) < Mag(a)
  BY MagBelow
<1>6. a.e = b.e /\ a.m = b.m => Mag(a) = Mag(b)
  BY DEF Mag, MantOf, ExpOf
<1>7. Below(a, b) \in BOOLEAN /\ Below(b, a) \in BOOLEAN /\ is_zero(a) \in BOOLEAN /\ is_zero(b) \in BOOLEAN
  BY DEF Below, is_zero
<1> DEFINE x == Mag(a)  y == Mag(b)
<1>8. Signed(a) = (IF a.s = 1 THEN -x ELSE x) /\ Signed(b) = (IF b.s = 1 THEN -y ELSE y)
  BY DEF Signed
<1>9. \/ Below(a, b) /\ ~Below(b, a) /\ a # b
      \/ Below(b, a) /\ ~Below(a, b) /\ a # b
      \/ /\ a.e = b.e /\ a.m = b.m /\ ~Below(a, b) /\ ~Below(b, a)
         /\ a = b <=> a.s = b.s
  BY BelowIsTotal
<1> HIDE DEF x, y
<1>10. a = b => a.s = b.s /\ x = y
  BY DEF x, y
<1>11. f32_cmp(a, b, r) = Order(Signed(a), Signed(b))
  BY <1>1, <1>2, <1>4, <1>5, <1>6, <1>7, <1>8, <1>9, <1>10 DEF Order, x, y
<1>12. __cmpsf2(a, b) = f32_cmp(a, b, r) \/ (is_zero(a) /\ is_zero(b))
  BY <1>1, <1>2, <1>3, <1>7, <1>9
<1>13. QED
  BY <1>11, <1>12

-----------------------------------------------------------------------------
(* What division leaves.                                                    *)
LEMMA Remainder ==
  ASSUME NEW d \in Nat \ {0}, NEW v \in Nat
  PROVE  /\ v \div d \in Nat /\ v % d \in 0 .. d - 1
         /\ d * (v \div d) \in Nat /\ v = d * (v \div d) + (v % d)
OBVIOUS

(* The same with names for both.                                            *)
LEMMA Quotient ==
  ASSUME NEW d \in Nat \ {0}, NEW v \in Nat
  PROVE  \E x \in Nat, y \in 0 .. d - 1 : v \div d = x /\ v % d = y /\ v = x * d + y
<1>1. \E x \in Nat, y \in 0 .. d - 1 : v \div d = x /\ v % d = y /\ v = d * x + y
  BY Remainder
<1>2. \A x \in Nat : d * x = x * d
  OBVIOUS
<1>3. QED
  BY <1>1, <1>2

(* There is one quotient and one remainder.                                 *)
LEMMA Division ==
  ASSUME NEW v \in Nat, NEW d \in Nat, NEW q \in Nat, NEW r \in Nat,
         v = q * d + r, r < d
  PROVE  v \div d = q /\ v % d = r
<1>1. d \in Nat \ {0}
  OBVIOUS
<1>2. PICK x \in Nat, y \in 0 .. d - 1 : v \div d = x /\ v % d = y /\ v = x * d + y
  BY <1>1, Quotient
<1>3. ASSUME x < q PROVE FALSE
  <2>1. x + 1 <= q
    BY <1>2, <1>3
  <2>2. (x + 1) * d <= q * d
    BY <1>2, <2>1, Times
  <2>3. (x + 1) * d = x * d + d
    BY <1>2
  <2>4. x * d \in Nat /\ q * d \in Nat
    BY <1>2, Times
  <2>5. QED BY <1>2, <2>2, <2>3, <2>4
<1>4. ASSUME q < x PROVE FALSE
  <2>1. q + 1 <= x
    BY <1>2, <1>4
  <2>2. (q + 1) * d <= x * d
    BY <1>2, <2>1, Times
  <2>3. (q + 1) * d = q * d + d
    OBVIOUS
  <2>4. x * d \in Nat /\ q * d \in Nat
    BY <1>2, Times
  <2>5. QED BY <1>2, <2>2, <2>3, <2>4
<1>5. x = q
  BY <1>2, <1>3, <1>4
<1>6. q * d \in Nat
  BY Times
<1>7. y = r
  BY <1>2, <1>5, <1>6
<1>8. QED
  BY <1>2, <1>5, <1>7

(* A mantissa is brought to its highest bit by a shift of at least one.     *)
LEMMA Normalized ==
  ASSUME NEW m \in Nat, m >= 1, m < F32_IMPLICIT
  PROVE  LET s == LeastShift(m, MB)
         IN /\ s \in 1 .. MB
            /\ m * Pw(s) \in Nat /\ m * Pw(s) >= F32_IMPLICIT /\ m * Pw(s) < 2 * F32_IMPLICIT
            /\ (m * 2^s) % F32_IMPLICIT = m * Pw(s) - F32_IMPLICIT
            /\ \A k \in 0 .. s - 1 : m * Pw(k) < F32_IMPLICIT
<1> DEFINE s == LeastShift(m, MB)
<1>1. /\ s \in 0 .. MB /\ m * Pw(s) >= F32_IMPLICIT
      /\ \A k \in 0 .. s - 1 : m * Pw(k) < F32_IMPLICIT
      /\ MB \in Nat /\ F32_IMPLICIT \in Nat
  BY ShiftIs, FloatFields, FieldWidths
<1>2. 2^s = Pw(s)
  BY Zenon DEF Pw
<1> HIDE DEF s
<1>3. s # 0
  BY <1>1, PwBasics
<1>4. s - 1 \in Nat /\ s - 1 \in 0 .. s - 1 /\ s - 1 + 1 = s /\ s \in Nat
  BY <1>1, <1>3
<1>5. m * Pw(s - 1) < F32_IMPLICIT /\ Pw(s) = Pw(s - 1) + Pw(s - 1) /\ Pw(s - 1) \in Nat
      /\ Pw(s) \in Nat
  BY <1>1, <1>4, PwBasics
<1>6. m * Pw(s) = m * Pw(s - 1) + m * Pw(s - 1) /\ m * Pw(s) \in Nat /\ m * Pw(s - 1) \in Nat
  BY <1>5
<1> DEFINE v == m * Pw(s)
<1>7. v \in Nat /\ v >= F32_IMPLICIT /\ v < 2 * F32_IMPLICIT
  BY <1>1, <1>5, <1>6
<1> HIDE DEF v
<1>8. v % F32_IMPLICIT = v - F32_IMPLICIT
  <2>1. v - F32_IMPLICIT \in Nat /\ v = 1 * F32_IMPLICIT + (v - F32_IMPLICIT)
        /\ v - F32_IMPLICIT < F32_IMPLICIT
    BY <1>1, <1>7
  <2>2. QED BY <1>1, <1>7, <2>1, Division
<1>9. s \in 1 .. MB
  BY <1>1, <1>3
<1>10. (m * 2^s) % F32_IMPLICIT = v - F32_IMPLICIT
  BY <1>2, <1>8 DEF v
<1>11. /\ s \in 1 .. MB
       /\ m * Pw(s) \in Nat /\ m * Pw(s) >= F32_IMPLICIT /\ m * Pw(s) < 2 * F32_IMPLICIT
       /\ (m * 2^s) % F32_IMPLICIT = m * Pw(s) - F32_IMPLICIT
       /\ \A k \in 0 .. s - 1 : m * Pw(k) < F32_IMPLICIT
  BY <1>1, <1>7, <1>9, <1>10 DEF v
<1>12. QED
  BY <1>11, Zenon DEF s

(* The fields of a float as a double.                                       *)
LEMMA ExtendIs ==
  ASSUME NEW a \in Floats
  PROVE  LET x == __extendsfdf2(a)
             s == LeastShift(a.m, MB)
         IN /\ x.s = a.s
            /\ a.e = F32_EXP_MASK => x = Num(a.s, F64_EXP_MASK, a.m * Pw(Low))
            /\ is_zero(a) => x = Num(a.s, 0, 0)
            /\ a.e = 0 /\ a.m # 0 =>
                 x = Num(a.s, Widened(1 - s), (a.m * Pw(s) - F32_IMPLICIT) * Pw(Low))
            /\ a.e # 0 /\ a.e # F32_EXP_MASK => x = Num(a.s, Widened(a.e), a.m * Pw(Low))
<1> DEFINE s == LeastShift(a.m, MB)
           w == (a.m * 2^s) % F32_IMPLICIT
           k == 2^Low
<1>1. k = Pw(Low)
  BY Zenon DEF Pw
<1>2. __extendsfdf2(a) =
        IF a.e = F32_EXP_MASK THEN Num(a.s, F64_EXP_MASK, a.m * k)
        ELSE IF is_zero(a) THEN Num(a.s, 0, 0)
        ELSE IF a.e = 0 THEN Num(a.s, Widened(1 - s), w * k)
        ELSE Num(a.s, Widened(a.e), a.m * k)
  BY Zenon DEF __extendsfdf2
<1>3. a.e = 0 /\ a.m # 0 => w = a.m * Pw(s) - F32_IMPLICIT
  <2>1. ASSUME a.m # 0 PROVE a.m >= 1
    BY <2>1, FloatIs
  <2>2. QED BY <2>1, Normalized, FloatIs
<1>4. F32_EXP_MASK # 0
  BY FloatFields
<1>5. is_zero(a) <=> a.e = 0 /\ a.m = 0
  BY DEF is_zero
<1> HIDE DEF s, w, k
<1>6. __extendsfdf2(a).s = a.s
  BY <1>2 DEF Num
<1>7. /\ a.e = F32_EXP_MASK => __extendsfdf2(a) = Num(a.s, F64_EXP_MASK, a.m * Pw(Low))
      /\ is_zero(a) => __extendsfdf2(a) = Num(a.s, 0, 0)
      /\ a.e # 0 /\ a.e # F32_EXP_MASK => __extendsfdf2(a) = Num(a.s, Widened(a.e), a.m * Pw(Low))
  BY <1>1, <1>2, <1>4, <1>5
<1>8. a.e = 0 /\ a.m # 0 =>
         __extendsfdf2(a) = Num(a.s, Widened(1 - s), (a.m * Pw(s) - F32_IMPLICIT) * Pw(Low))
  BY <1>1, <1>2, <1>3, <1>4, <1>5
<1>9. QED
  BY <1>6, <1>7, <1>8, Zenon DEF s

(* Its exponent and mantissa are those of a double, and it is what a is:    *)
(* zero, infinite, or no number.                                            *)
LEMMA ExtendRange ==
  ASSUME NEW a \in Floats
  PROVE  LET x == __extendsfdf2(a)
         IN /\ x.e \in Nat /\ x.m \in Nat /\ x.s = a.s
            /\ a.e # F32_EXP_MASK => x.e < F64_EXP_MASK
            /\ a.e = F32_EXP_MASK => x.e = F64_EXP_MASK
            /\ is_zero(x) <=> is_zero(a)
            /\ ~is_zero(a) => x.e >= 1
            /\ f64_is_nan(x) <=> Nan(a)
            /\ x = [s |-> x.s, e |-> x.e, m |-> x.m]
<1> DEFINE x == __extendsfdf2(a)
           s == LeastShift(a.m, MB)
           k == Pw(Low)
           v == a.m * Pw(s)
<1>1. k \in Nat /\ k >= 1
  BY PwPositive, FieldWidths
<1>2. a.m \in Nat /\ a.e \in Nat /\ a.e <= F32_EXP_MASK /\ a.m < F32_IMPLICIT
  BY FloatIs
<1>3. /\ F64_EXP_MASK = 2 * F64_BIAS + 1 /\ F32_EXP_MASK = 2 * F32_BIAS + 1
      /\ F64_BIAS \in Nat /\ F32_BIAS \in Nat /\ F32_BIAS >= 1 /\ MB \in Nat /\ MB >= 3
      /\ F64_BIAS >= F32_BIAS + MB /\ F32_IMPLICIT \in Nat
  BY FloatFields, DoubleFields, FieldWidths
<1>4. a.m * k \in Nat /\ (a.m * k = 0 <=> a.m = 0)
  <2>1. ASSUME NEW u \in Nat, NEW p \in Nat, p >= 1 PROVE u * p \in Nat /\ (u * p = 0 <=> u = 0)
    <3>1. ASSUME u # 0 PROVE u * p >= 1
      BY <2>1, <3>1
    <3>2. QED BY <3>1
  <2>2. QED BY <1>1, <1>2, <2>1
<1>5. a.e = 0 /\ a.m # 0 => s \in 1 .. MB /\ v \in Nat /\ v >= F32_IMPLICIT
  <2>1. a.m # 0 => a.m >= 1
    BY <1>2
  <2>2. QED BY <1>2, <2>1, Normalized
<1>6. a.e = 0 /\ a.m # 0 => (v - F32_IMPLICIT) * k \in Nat
  <2>1. ASSUME a.e = 0, a.m # 0 PROVE v - F32_IMPLICIT \in Nat
    BY <1>3, <1>5, <2>1
  <2>2. QED BY <1>1, <2>1, Times
<1>7. /\ x.s = a.s
      /\ a.e = F32_EXP_MASK => x = Num(a.s, F64_EXP_MASK, a.m * k)
      /\ a.e = 0 /\ a.m = 0 => x = Num(a.s, 0, 0)
      /\ a.e = 0 /\ a.m # 0 => x = Num(a.s, Widened(1 - s), (v - F32_IMPLICIT) * k)
      /\ a.e # 0 /\ a.e # F32_EXP_MASK => x = Num(a.s, Widened(a.e), a.m * k)
  BY ExtendIs DEF is_zero
<1> HIDE DEF x, s, k, v
<1>8. CASE a.e = F32_EXP_MASK
  BY <1>2, <1>3, <1>4, <1>7, <1>8 DEF x, Num, is_zero, f64_is_nan, Nan
<1>9. CASE a.e = 0 /\ a.m = 0
  BY <1>3, <1>7, <1>9 DEF x, Num, is_zero, f64_is_nan, Nan
<1>10. CASE a.e = 0 /\ a.m # 0
  <2>1. x.e \in Nat /\ x.e >= 1 /\ x.e < F64_EXP_MASK
    BY <1>3, <1>5, <1>7, <1>10 DEF Num, Widened
  <2>2. x.m \in Nat /\ x = [s |-> x.s, e |-> x.e, m |-> x.m]
    BY <1>6, <1>7, <1>10 DEF Num
  <2>3. QED BY <1>3, <1>7, <1>10, <2>1, <2>2 DEF x, is_zero, f64_is_nan, Nan
<1>11. CASE a.e # 0 /\ a.e # F32_EXP_MASK
  <2>1. x.e \in Nat /\ x.e >= 1 /\ x.e < F64_EXP_MASK
    BY <1>2, <1>3, <1>7, <1>11 DEF Num, Widened
  <2>2. x.m \in Nat /\ x = [s |-> x.s, e |-> x.e, m |-> x.m]
    BY <1>4, <1>7, <1>11 DEF Num
  <2>3. QED BY <1>7, <1>11, <2>1, <2>2 DEF x, is_zero, f64_is_nan, Nan
<1>12. QED
  BY <1>8, <1>9, <1>10, <1>11, <1>2

(* Widening keeps the order, also where it normalizes subnormal numbers.    *)
LEMMA ExtendBelow ==
  ASSUME NEW a \in Floats, NEW b \in Floats, Below(a, b), ~Nan(b)
  PROVE  Below(__extendsfdf2(a), __extendsfdf2(b))
<1> DEFINE x == __extendsfdf2(a)  y == __extendsfdf2(b)
           s == LeastShift(a.m, MB)  t == LeastShift(b.m, MB)
           k == Pw(Low)
<1>1. k \in Nat /\ k >= 1
  BY PwPositive, FieldWidths
<1>2. /\ a.m \in Nat /\ a.e \in Nat /\ a.e <= F32_EXP_MASK /\ a.m < F32_IMPLICIT
      /\ b.m \in Nat /\ b.e \in Nat /\ b.e <= F32_EXP_MASK /\ b.m < F32_IMPLICIT
  BY FloatIs
<1>3. /\ F64_EXP_MASK = 2 * F64_BIAS + 1 /\ F32_EXP_MASK = 2 * F32_BIAS + 1
      /\ F64_BIAS \in Nat /\ F32_BIAS \in Nat /\ F32_BIAS >= 1 /\ MB \in Nat /\ MB >= 3
      /\ F64_BIAS >= F32_BIAS + MB /\ F32_IMPLICIT \in Nat
  BY FloatFields, DoubleFields, FieldWidths
<1>4. a.e < b.e \/ (a.e = b.e /\ a.m < b.m)
  BY DEF Below
<1>5. /\ a.e = 0 /\ a.m = 0 => x = Num(a.s, 0, 0)
      /\ a.e = 0 /\ a.m # 0 => x = Num(a.s, Widened(1 - s), (a.m * Pw(s) - F32_IMPLICIT) * k)
      /\ a.e # 0 /\ a.e # F32_EXP_MASK => x = Num(a.s, Widened(a.e), a.m * k)
  BY ExtendIs DEF is_zero
<1>6. /\ b.e = 0 /\ b.m # 0 => y = Num(b.s, Widened(1 - t), (b.m * Pw(t) - F32_IMPLICIT) * k)
      /\ b.e # 0 /\ b.e # F32_EXP_MASK => y = Num(b.s, Widened(b.e), b.m * k)
  BY ExtendIs DEF is_zero
<1>7. /\ x.e \in Nat /\ y.e \in Nat
      /\ a.e # F32_EXP_MASK => x.e < F64_EXP_MASK
      /\ b.e = F32_EXP_MASK => y.e = F64_EXP_MASK
  BY ExtendRange
<1>8. b.e # 0 \/ b.m # 0 => y.e >= 1
  BY ExtendRange DEF is_zero
<1>9. /\ a.e = 0 /\ a.m # 0 => s \in 1 .. MB
      /\ b.e = 0 /\ b.m # 0 => t \in 1 .. MB
  <2>1. (a.m # 0 => a.m >= 1) /\ (b.m # 0 => b.m >= 1)
    BY <1>2
  <2>2. QED BY <1>2, <2>1, Normalized
<1> HIDE DEF x, y, s, t, k
<1>10. CASE b.e = F32_EXP_MASK
  <2>1. a.e # F32_EXP_MASK
    BY <1>2, <1>4, <1>10 DEF Nan
  <2>2. QED BY <1>3, <1>7, <1>10, <2>1 DEF Below, x, y
<1>11. CASE a.e = 0 /\ a.m = 0
  <2>1. x.e = 0
    BY <1>5, <1>11 DEF Num
  <2>2. b.e # 0 \/ b.m # 0
    BY <1>2, <1>4, <1>11
  <2>3. QED BY <1>7, <1>8, <2>1, <2>2 DEF Below, x, y
<1>12. CASE a.e = 0 /\ a.m # 0 /\ b.e # 0 /\ b.e # F32_EXP_MASK
  <2>1. x.e < y.e
    BY <1>2, <1>3, <1>5, <1>6, <1>9, <1>12 DEF Num, Widened
  <2>2. QED BY <2>1 DEF Below, x, y
<1>13. CASE a.e # 0 /\ b.e # F32_EXP_MASK
  <2>1. b.e # 0 /\ a.e # F32_EXP_MASK
    BY <1>2, <1>4, <1>13
  <2>2. x.e = Widened(a.e) /\ y.e = Widened(b.e) /\ x.m = a.m * k /\ y.m = b.m * k
    BY <1>5, <1>6, <1>13, <2>1 DEF Num
  <2>3. a.m < b.m => a.m * k < b.m * k
    BY <1>1, <1>2, Times
  <2>4. Below(x, y)
    BY <1>2, <1>3, <1>4, <2>2, <2>3 DEF Below, Widened
  <2>5. QED BY <2>4 DEF x, y
<1>14. CASE a.e = 0 /\ a.m # 0 /\ b.e = 0
  <2>1. a.m < b.m /\ b.m # 0 /\ a.m >= 1 /\ b.m >= 1
    BY <1>2, <1>4, <1>14
  <2>2. /\ s \in 1 .. MB /\ a.m * Pw(s) \in Nat /\ a.m * Pw(s) >= F32_IMPLICIT
        /\ \A j \in 0 .. s - 1 : a.m * Pw(j) < F32_IMPLICIT
    BY <1>2, <2>1, Normalized DEF s
  <2>3. /\ t \in 1 .. MB /\ b.m * Pw(t) \in Nat /\ b.m * Pw(t) >= F32_IMPLICIT
        /\ \A j \in 0 .. t - 1 : b.m * Pw(j) < F32_IMPLICIT
    BY <1>2, <2>1, Normalized DEF t
  <2>4. s \in Nat /\ Pw(s) \in Nat /\ Pw(s) >= 1
    BY <1>3, <2>2, PwPositive
  <2>5. a.m * Pw(s) < b.m * Pw(s)
    BY <1>2, <2>1, <2>4, Times
  <2>6. t <= s
    <3>1. ASSUME s < t PROVE FALSE
      <4>1. s \in 0 .. t - 1
        BY <2>4, <2>3, <3>1
      <4>2. b.m * Pw(s) < F32_IMPLICIT
        BY <2>3, <4>1
      <4>3. b.m * Pw(s) \in Nat
        BY <1>2, <2>4, Times
      <4>4. QED BY <1>3, <2>2, <2>5, <4>2, <4>3
    <3>2. QED BY <2>2, <2>3, <3>1
  <2>7. x.e = Widened(1 - s) /\ x.m = (a.m * Pw(s) - F32_IMPLICIT) * k
        /\ y.e = Widened(1 - t) /\ y.m = (b.m * Pw(t) - F32_IMPLICIT) * k
    BY <1>5, <1>6, <1>14, <2>1 DEF Num
  <2>8. CASE t = s
    <3>1. a.m * Pw(s) - F32_IMPLICIT < b.m * Pw(t) - F32_IMPLICIT
      BY <1>3, <2>2, <2>3, <2>5, <2>8
    <3>2. a.m * Pw(s) - F32_IMPLICIT \in Int /\ b.m * Pw(t) - F32_IMPLICIT \in Int
      BY <1>3, <2>2, <2>3
    <3>3. x.m < y.m
      BY <1>1, <2>7, <3>1, <3>2, Times
    <3>4. QED BY <2>7, <2>8, <3>3 DEF Below, x, y
  <2>9. CASE t < s
    <3>1. x.e < y.e
      BY <1>3, <2>2, <2>3, <2>7, <2>9 DEF Widened
    <3>2. QED BY <3>1 DEF Below, x, y
  <2>10. QED BY <2>2, <2>3, <2>6, <2>8, <2>9
<1>15. QED
  BY <1>10, <1>11, <1>12, <1>13, <1>14

(* Doubles that are floats are compared as the floats are.                  *)
LEMMA ExtendedOrder ==
  ASSUME NEW a \in Floats, NEW b \in Floats, NEW r, ~Nan(a), ~Nan(b)
  PROVE  f64_cmp(__extendsfdf2(a), __extendsfdf2(b), r) = f32_cmp(a, b, r)
<1> DEFINE x == __extendsfdf2(a)  y == __extendsfdf2(b)
<1>1. /\ x.s = a.s /\ y.s = b.s
      /\ is_zero(x) <=> is_zero(a)
      /\ is_zero(y) <=> is_zero(b)
      /\ ~f64_is_nan(x) /\ ~f64_is_nan(y)
      /\ x.e \in Nat /\ x.m \in Nat /\ y.e \in Nat /\ y.m \in Nat
  BY ExtendRange
<1>2. Below(a, b) => Below(x, y)
  BY ExtendBelow
<1>3. Below(b, a) => Below(y, x)
  BY ExtendBelow
<1> HIDE DEF x, y
<1>4. Below(x, y) => ~Below(y, x) /\ x # y
  BY <1>1 DEF Below
<1>5. Below(y, x) => ~Below(x, y) /\ x # y
  BY <1>1 DEF Below
<1>6. a.e = b.e /\ a.m = b.m => x.e = y.e /\ x.m = y.m
  <2>1. ASSUME a.e = b.e, a.m = b.m PROVE x.e = y.e /\ x.m = y.m
    <3>1. is_zero(a) <=> is_zero(b)
      BY <2>1 DEF is_zero
    <3>2. QED BY <2>1, <3>1 DEF x, y, __extendsfdf2, Num
  <2>2. QED BY <2>1
<1>7. a.e = b.e /\ a.m = b.m => ~Below(x, y) /\ ~Below(y, x)
  BY <1>1, <1>6 DEF Below
<1>8. a = b => x = y
  BY DEF x, y
<1>9. \/ Below(a, b) /\ ~Below(b, a) /\ a # b
      \/ Below(b, a) /\ ~Below(a, b) /\ a # b
      \/ /\ a.e = b.e /\ a.m = b.m /\ ~Below(a, b) /\ ~Below(b, a)
         /\ a = b <=> a.s = b.s
  BY BelowIsTotal
<1>10. f64_cmp(x, y, r) = IF (is_zero(a) /\ is_zero(b)) \/ x = y THEN 0
                          ELSE IF a.s # b.s THEN IF a.s = 1 THEN -1 ELSE 1
                          ELSE IF a.s = 0 THEN IF Below(x, y) THEN -1 ELSE 1
                          ELSE IF Below(y, x) THEN -1 ELSE 1
  BY <1>1 DEF f64_cmp, cmp
<1>11. f32_cmp(a, b, r) = IF (is_zero(a) /\ is_zero(b)) \/ a = b THEN 0
                          ELSE IF a.s # b.s THEN IF a.s = 1 THEN -1 ELSE 1
                          ELSE IF a.s = 0 THEN IF Below(a, b) THEN -1 ELSE 1
                          ELSE IF Below(b, a) THEN -1 ELSE 1
  BY DEF f32_cmp, cmp, f32_is_nan, Nan
<1>12. a.s # b.s => x # y
  BY <1>1
<1>13. a = b <=> x = y
  BY <1>1, <1>2, <1>3, <1>4, <1>5, <1>8, <1>9
<1>14. (Below(a, b) <=> Below(x, y)) /\ (Below(b, a) <=> Below(y, x))
  BY <1>2, <1>3, <1>4, <1>5, <1>7, <1>9
<1>15. Below(a, b) \in BOOLEAN /\ Below(b, a) \in BOOLEAN /\ Below(x, y) \in BOOLEAN /\ Below(y, x) \in BOOLEAN
  BY DEF Below
<1>16. f64_cmp(x, y, r) = f32_cmp(a, b, r)
  <2>1. CASE (is_zero(a) /\ is_zero(b)) \/ a = b
    BY <1>10, <1>11, <1>13, <2>1
  <2>2. CASE ~((is_zero(a) /\ is_zero(b)) \/ a = b)
    <3>1. ~((is_zero(a) /\ is_zero(b)) \/ x = y)
      BY <1>13, <2>2
    <3>2. CASE a.s # b.s
      BY <1>10, <1>11, <2>2, <3>1, <3>2
    <3>3. CASE a.s = b.s /\ a.s = 0
      BY <1>10, <1>11, <1>14, <2>2, <3>1, <3>3
    <3>4. CASE a.s = b.s /\ a.s # 0
      BY <1>10, <1>11, <1>14, <2>2, <3>1, <3>4
    <3>5. QED BY <3>2, <3>3, <3>4
  <2>3. QED BY <2>1, <2>2
<1>17. QED
  BY <1>16 DEF x, y

-----------------------------------------------------------------------------
(* A mantissa of mb bits below its highest, times 2^k and cut to an integer. *)
LEMMA ScaledIs ==
  ASSUME NEW mb \in Nat, NEW k \in Nat, NEW m \in Nat, m < Pw(mb)
  PROVE  LET w == Scaled(Pw(mb) + m, k - mb)
         IN /\ ((Pw(mb) + m) * Pw(k)) \div Pw(mb) = w
            /\ w \in Nat /\ w >= Pw(k) /\ w < Pw(k + 1)
<1> DEFINE i == Pw(mb)  p == Pw(k)  n == i + m  w == Scaled(n, k - mb)
<1>1. i \in Nat /\ i >= 1 /\ p \in Nat /\ p >= 1 /\ Pw(k + 1) = p + p
  BY PwPositive, PwBasics
<1> HIDE DEF i, p
<1>2. n \in Nat /\ n < 2 * i /\ i <= n
  BY <1>1 DEF i
<1> HIDE DEF n
<1>3. CASE k >= mb
  <2> DEFINE q == Pw(k - mb)
  <2>1. k - mb \in Nat /\ mb + (k - mb) = k
    BY <1>3
  <2>2. p = i * q /\ q \in Nat /\ q >= 1
    <3>1. Pw(mb + (k - mb)) = Pw(mb) * Pw(k - mb)
      BY <2>1, PwSum
    <3>2. Pw(k) = Pw(mb) * Pw(k - mb)
      BY <2>1, <3>1
    <3>3. QED BY <2>1, <3>2, PwPositive DEF p, i
  <2>3. w = n * q
    <3>1. Scaled(n, k - mb) = n * 2^(k - mb)
      BY <2>1 DEF Scaled
    <3>2. QED BY <3>1, Zenon DEF Pw
  <2> HIDE DEF q, w
  <2>4. n * q \in Nat /\ i * q <= n * q /\ n * q < (2 * i) * q /\ (2 * i) * q = i * q + i * q
    BY <1>1, <1>2, <2>2, Times
  <2>5. (n * p) \div i = w
    <3>1. n * p = (n * q) * i + 0 /\ n * p \in Nat
      BY <1>1, <1>2, <2>2
    <3>2. QED BY <1>1, <2>3, <2>4, <3>1, Division
  <2>6. QED
    BY <1>1, <2>2, <2>3, <2>4, <2>5 DEF i, p, w, n
<1>4. CASE k < mb
  <2> DEFINE j == Pw(mb - k)
  <2>1. mb - k \in Nat /\ k + (mb - k) = mb /\ ~(k - mb >= 0) /\ -(k - mb) = mb - k
    BY <1>4
  <2>2. i = p * j /\ j \in Nat /\ j >= 1
    BY <2>1, PwSum, PwPositive DEF p, i
  <2>3. w = n \div j
    <3>1. Scaled(n, k - mb) = n \div 2^(mb - k)
      BY <2>1 DEF Scaled
    <3>2. QED BY <3>1, Zenon DEF Pw
  <2> HIDE DEF j, w
  <2>4. PICK q \in Nat, r \in 0 .. j - 1 : n \div j = q /\ n = q * j + r
    <3>1. j \in Nat \ {0}
      BY <2>2
    <3>2. QED BY <1>2, <3>1, Quotient
  <2>5. (n * p) \div i = q
    <3>1. n * p = q * i + r * p
      <4>1. (q * j + r) * p = q * (p * j) + r * p
        BY <1>1, <2>2, <2>4
      <4>2. QED BY <2>2, <2>4, <4>1
    <3>2. r * p \in Nat /\ r * p < i
      <4>1. r * p < j * p /\ r * p \in Nat
        BY <1>1, <2>2, <2>4, Times
      <4>2. j * p = p * j
        BY <1>1, <2>2
      <4>3. QED BY <2>2, <4>1, <4>2
    <3>3. n * p \in Nat
      BY <1>1, <1>2, Times
    <3>4. QED BY <1>1, <2>4, <3>1, <3>2, <3>3, Division
  <2>6. q >= p
    <3>1. ASSUME q < p PROVE FALSE
      <4>1. (q + 1) * j <= p * j
        BY <1>1, <2>2, <2>4, <3>1, Times
      <4>2. (q + 1) * j = q * j + j /\ q * j \in Nat
        BY <2>2, <2>4
      <4>3. QED BY <1>2, <2>2, <2>4, <4>1, <4>2
    <3>2. QED BY <1>1, <2>4, <3>1
  <2>7. q < p + p
    <3>1. ASSUME p + p <= q PROVE FALSE
      <4>1. (p + p) * j <= q * j
        BY <1>1, <2>2, <2>4, <3>1, Times
      <4>2. (p + p) * j = p * j + p * j /\ q * j \in Nat /\ p * j \in Nat
        BY <1>1, <2>2, <2>4
      <4>3. QED BY <1>2, <2>2, <2>4, <4>1, <4>2
    <3>2. QED BY <1>1, <2>4, <3>1
  <2>8. QED
    BY <1>1, <2>3, <2>4, <2>5, <2>6, <2>7 DEF i, p, w, n
<1>5. QED
  BY <1>3, <1>4

(* The integer below a number, by its exponent.                             *)
LEMMA FloorIs ==
  ASSUME NEW x, NEW mb \in Nat, NEW bias \in Nat, x.e \in Nat, x.m \in Nat, x.m < Pw(mb)
  PROVE  LET fl == Floor(x, bias, mb)
             k == x.e - bias
         IN /\ fl \in Nat
            /\ k < 0 => fl = 0
            /\ \A n \in Nat : n <= k /\ n <= LB => fl >= Pw(n)
            /\ k >= 0 /\ k < LB => fl = Scaled(Pw(mb) + x.m, k - mb) /\ fl < Pw(k + 1)
<1> DEFINE k == x.e - bias
           fl == Floor(x, bias, mb)
           w == Scaled(Pw(mb) + x.m, k - mb)
<1>1. k \in Int /\ LB \in Nat /\ (x.e < bias <=> k < 0)
  BY FieldWidths
<1>2. fl = IF x.e < bias THEN 0
           ELSE IF x.e - bias >= LB THEN Pw(LB)
           ELSE ((Pw(mb) + x.m) * Pw(x.e - bias)) \div Pw(mb)
  BY Zenon DEF Floor, Pw
<1>3. k >= 0 => /\ ((Pw(mb) + x.m) * Pw(k)) \div Pw(mb) = w
                /\ w \in Nat /\ w >= Pw(k) /\ w < Pw(k + 1)
  <2>1. ASSUME k >= 0 PROVE k \in Nat
    BY <1>1, <2>1
  <2> DEFINE m == x.m
  <2>2. m \in Nat /\ m < Pw(mb)
    OBVIOUS
  <2> HIDE DEF m, k
  <2>3. k >= 0 => /\ ((Pw(mb) + m) * Pw(k)) \div Pw(mb) = Scaled(Pw(mb) + m, k - mb)
                  /\ Scaled(Pw(mb) + m, k - mb) \in Nat /\ Scaled(Pw(mb) + m, k - mb) >= Pw(k)
                  /\ Scaled(Pw(mb) + m, k - mb) < Pw(k + 1)
    BY <2>1, <2>2, ScaledIs
  <2>4. QED BY <2>3 DEF m, w
<1>4. Pw(LB) \in Nat
  BY FieldWidths, PwPositive
<1>5. fl \in Nat
  BY <1>1, <1>2, <1>3, <1>4
<1>6. k < 0 => fl = 0
  BY <1>1, <1>2
<1>7. ASSUME NEW n \in Nat, n <= k, n <= LB PROVE fl >= Pw(n)
  <2>1. Pw(n) \in Nat /\ Pw(n) <= Pw(LB)
    BY <1>1, <1>7, PwMonotone, PwPositive
  <2>2. CASE k >= LB
    <3>1. fl = Pw(LB)
      BY <1>1, <1>2, <2>2
    <3>2. QED BY <2>1, <3>1
  <2>3. CASE k < LB
    <3>1. k \in Nat /\ k >= 0
      BY <1>1, <1>7
    <3>2. Pw(n) <= Pw(k) /\ Pw(k) \in Nat
      BY <1>7, <3>1, PwMonotone, PwPositive
    <3>3. fl = w
      BY <1>1, <1>2, <1>3, <2>3, <3>1
    <3>4. w >= Pw(k) /\ w \in Nat
      BY <1>3, <3>1
    <3> HIDE DEF k, w
    <3>5. QED BY <2>1, <3>2, <3>3, <3>4
  <2>4. QED BY <1>1, <2>2, <2>3
<1>8. k >= 0 /\ k < LB => fl = w /\ fl < Pw(k + 1)
  BY <1>1, <1>2, <1>3
<1>9. QED
  BY <1>5, <1>6, <1>7, <1>8

(* The ends of the integer types.                                           *)
LEMMA IntegerEnds ==
  /\ Pw(IB - 1) \in Nat /\ Pw(IB - 1) >= 1 /\ INT_MIN = -Pw(IB - 1) /\ INT_MAX = Pw(IB - 1) - 1
  /\ Pw(LB) \in Nat /\ Pw(LB) >= 1 /\ IB - 1 \in Nat /\ LB \in Nat /\ IB - 1 < LB
  /\ F32_BIAS + 1 >= IB - 1 /\ F64_BIAS + 1 >= LB
<1>1. IB - 1 \in Nat /\ LB \in Nat /\ IB - 1 < LB
  BY FieldWidths
<1>2. Pw(IB - 1) \in Nat /\ Pw(IB - 1) >= 1 /\ Pw(LB) \in Nat /\ Pw(LB) >= 1
  BY <1>1, PwPositive
<1>3. INT_MIN = -Pw(IB - 1) /\ INT_MAX = Pw(IB - 1) - 1
  BY Zenon DEF INT_MIN, INT_MAX, Pw
<1>4. 2^(EB - 1) >= IB - 1 /\ 2^(DEB - 1) >= LB
  BY SoftFloatAssumption
<1>5. Pw(EB - 1) >= IB - 1 /\ Pw(DEB - 1) >= LB
  BY <1>4, Zenon DEF Pw
<1>6. EB - 1 \in Nat /\ DEB - 1 \in Nat
  BY FieldWidths
<1>7. Pw(EB - 1) \in Nat /\ Pw(DEB - 1) \in Nat
  BY <1>6, PwPositive
<1>8. F32_BIAS = Pw(EB - 1) - 1 /\ F64_BIAS = Pw(DEB - 1) - 1
  BY FloatFields, DoubleFields
<1>9. QED
  BY <1>1, <1>2, <1>3, <1>5, <1>7, <1>8

(* Floats to ints: the fraction is cut, and the ends of the type stop.      *)
LEMMA FixsfsiIs ==
  ASSUME NEW a \in Floats, ~Nan(a)
  PROVE  __fixsfsi(a) = Clamp(Toward0(a, Floor(a, F32_BIAS, MB)), INT_MIN, INT_MAX)
<1> DEFINE fl == Floor(a, F32_BIAS, MB)
           k == a.e - F32_BIAS
           w == Scaled(F32_IMPLICIT + a.m, k - MB)
           t == Pw(IB - 1)
<1>1. /\ t \in Nat /\ t >= 1 /\ INT_MIN = -t /\ INT_MAX = t - 1
      /\ IB - 1 \in Nat /\ IB - 1 < LB /\ LB \in Nat /\ F32_BIAS + 1 >= IB - 1
  BY IntegerEnds
<1>2. /\ F32_IMPLICIT = Pw(MB) /\ F32_BIAS \in Nat /\ F32_EXP_MASK = 2 * F32_BIAS + 1 /\ MB \in Nat
      /\ a.e \in Nat /\ a.m \in Nat /\ a.m < Pw(MB) /\ a.s \in {0, 1} /\ a.e <= F32_EXP_MASK
  BY FloatFields, FloatIs, FieldWidths
<1>3. /\ fl \in Nat
      /\ k < 0 => fl = 0
      /\ \A n \in Nat : n <= k /\ n <= LB => fl >= Pw(n)
      /\ k >= 0 /\ k < LB => fl = w /\ fl < Pw(k + 1)
  BY <1>2, FloorIs
<1>4. k >= IB - 1 => fl >= t
  BY <1>1, <1>3
<1>5. k >= 0 /\ k < IB - 1 => fl = w /\ fl < t
  <2>1. ASSUME k >= 0, k < IB - 1 PROVE fl = w /\ fl < t
    <3>1. k \in Nat /\ k + 1 \in Nat /\ k + 1 <= IB - 1 /\ k < LB
      BY <1>1, <1>2, <2>1
    <3>2. Pw(k + 1) <= Pw(IB - 1) /\ Pw(k + 1) \in Nat
      BY <1>1, <3>1, PwMonotone, PwPositive
    <3>3. fl = w /\ fl < Pw(k + 1) /\ fl \in Nat
      BY <1>3, <2>1, <3>1
    <3> HIDE DEF k, fl, w
    <3>4. QED BY <1>1, <3>2, <3>3
  <2>2. QED BY <2>1
<1>6. a.e = F32_EXP_MASK => k >= IB - 1 /\ k >= 0
  BY <1>1, <1>2
<1>7. __fixsfsi(a) = IF a.e # F32_EXP_MASK /\ k < 0 THEN 0
                     ELSE IF a.e = F32_EXP_MASK \/ k >= IB - 1
                     THEN IF a.s = 1 THEN INT_MIN ELSE INT_MAX
                     ELSE IF a.s = 1 THEN -w ELSE w
  BY Zenon DEF __fixsfsi, TooLarge
<1>8. k \in Int
  BY <1>2
<1>9. __fixsfsi(a) = IF k < 0 THEN 0
                     ELSE IF k >= IB - 1 THEN IF a.s = 1 THEN INT_MIN ELSE INT_MAX
                     ELSE IF a.s = 1 THEN -fl ELSE fl
  BY <1>1, <1>5, <1>6, <1>7, <1>8
<1> HIDE DEF fl, k, w, t
<1>10. Clamp(Toward0(a, fl), INT_MIN, INT_MAX) =
         LET n == IF a.s = 1 THEN -fl ELSE fl
         IN IF n < INT_MIN THEN INT_MIN ELSE IF n > INT_MAX THEN INT_MAX ELSE n
  BY DEF Clamp, Toward0
<1>11. __fixsfsi(a) = Clamp(Toward0(a, fl), INT_MIN, INT_MAX)
  BY <1>1, <1>3, <1>4, <1>5, <1>8, <1>9, <1>10
<1>12. QED
  BY <1>11 DEF fl

(* Doubles to ints.                                                         *)
LEMMA FixdfsiIs ==
  ASSUME NEW a \in Doubles, ~f64_is_nan(a)
  PROVE  __fixdfsi(a) = Clamp(Toward0(a, Floor(a, F64_BIAS, DMB)), INT_MIN, INT_MAX)
<1> DEFINE fl == Floor(a, F64_BIAS, DMB)
           k == a.e - F64_BIAS
           w == Scaled(F64_IMPLICIT + a.m, k - DMB)
           t == Pw(IB - 1)
<1>1. /\ t \in Nat /\ t >= 1 /\ INT_MIN = -t /\ INT_MAX = t - 1
      /\ IB - 1 \in Nat /\ IB - 1 < LB /\ LB \in Nat /\ F64_BIAS + 1 >= LB
  BY IntegerEnds
<1>2. /\ F64_IMPLICIT = Pw(DMB) /\ F64_BIAS \in Nat /\ F64_EXP_MASK = 2 * F64_BIAS + 1 /\ DMB \in Nat
      /\ a.e \in Nat /\ a.m \in Nat /\ a.m < Pw(DMB) /\ a.s \in {0, 1} /\ a.e <= F64_EXP_MASK
      /\ F64_BIAS >= 1
  BY FloatFields, DoubleFields, DoubleIs, FieldWidths
<1>3. /\ fl \in Nat
      /\ k < 0 => fl = 0
      /\ \A n \in Nat : n <= k /\ n <= LB => fl >= Pw(n)
      /\ k >= 0 /\ k < LB => fl = w /\ fl < Pw(k + 1)
  BY <1>2, FloorIs
<1>4. k >= IB - 1 => fl >= t
  BY <1>1, <1>3
<1>5. k >= 0 /\ k < IB - 1 => fl = w /\ fl < t
  <2>1. ASSUME k >= 0, k < IB - 1 PROVE fl = w /\ fl < t
    <3>1. k \in Nat /\ k + 1 \in Nat /\ k + 1 <= IB - 1 /\ k < LB
      BY <1>1, <1>2, <2>1
    <3>2. Pw(k + 1) <= Pw(IB - 1) /\ Pw(k + 1) \in Nat
      BY <1>1, <3>1, PwMonotone, PwPositive
    <3>3. fl = w /\ fl < Pw(k + 1) /\ fl \in Nat
      BY <1>3, <2>1, <3>1
    <3> HIDE DEF k, fl, w
    <3>4. QED BY <1>1, <3>2, <3>3
  <2>2. QED BY <2>1
<1>6. /\ a.e = F64_EXP_MASK => k >= IB - 1 /\ k >= 0
      /\ a.e = 0 => k < 0
  BY <1>1, <1>2
<1>7. __fixdfsi(a) = IF a.e # F64_EXP_MASK /\ (a.e = 0 \/ k < 0) THEN 0
                     ELSE IF a.e = F64_EXP_MASK \/ k >= IB - 1
                     THEN IF a.s = 1 THEN INT_MIN ELSE INT_MAX
                     ELSE IF a.s = 1 THEN -w ELSE w
  BY Zenon DEF __fixdfsi, TooLarge
<1>8. k \in Int
  BY <1>2
<1>9. __fixdfsi(a) = IF k < 0 THEN 0
                     ELSE IF k >= IB - 1 THEN IF a.s = 1 THEN INT_MIN ELSE INT_MAX
                     ELSE IF a.s = 1 THEN -fl ELSE fl
  BY <1>1, <1>5, <1>6, <1>7, <1>8
<1> HIDE DEF fl, k, w, t
<1>10. Clamp(Toward0(a, fl), INT_MIN, INT_MAX) =
         LET n == IF a.s = 1 THEN -fl ELSE fl
         IN IF n < INT_MIN THEN INT_MIN ELSE IF n > INT_MAX THEN INT_MAX ELSE n
  BY DEF Clamp, Toward0
<1>11. __fixdfsi(a) = Clamp(Toward0(a, fl), INT_MIN, INT_MAX)
  BY <1>1, <1>3, <1>4, <1>5, <1>8, <1>9, <1>10
<1>12. QED
  BY <1>11 DEF fl

(* Doubles to unsigned longs.                                               *)
LEMMA FixunsdfdiIs ==
  ASSUME NEW a \in Doubles, ~f64_is_nan(a)
  PROVE  __fixunsdfdi(a) = Clamp(Toward0(a, Floor(a, F64_BIAS, DMB)), 0, 2^LB - 1)
<1> DEFINE fl == Floor(a, F64_BIAS, DMB)
           k == a.e - F64_BIAS
           w == Scaled(F64_IMPLICIT + a.m, k - DMB)
           t == Pw(LB)
<1>1. t \in Nat /\ t >= 1 /\ LB \in Nat /\ F64_BIAS + 1 >= LB
  BY IntegerEnds
<1>2. /\ F64_IMPLICIT = Pw(DMB) /\ F64_BIAS \in Nat /\ F64_EXP_MASK = 2 * F64_BIAS + 1 /\ DMB \in Nat
      /\ a.e \in Nat /\ a.m \in Nat /\ a.m < Pw(DMB) /\ a.s \in {0, 1} /\ a.e <= F64_EXP_MASK
      /\ F64_BIAS >= 1
  BY FloatFields, DoubleFields, DoubleIs, FieldWidths
<1>3. /\ fl \in Nat
      /\ k < 0 => fl = 0
      /\ \A n \in Nat : n <= k /\ n <= LB => fl >= Pw(n)
      /\ k >= 0 /\ k < LB => fl = w /\ fl < Pw(k + 1)
  BY <1>2, FloorIs
<1>4. k >= LB => fl >= t
  BY <1>1, <1>3
<1>5. k >= 0 /\ k < LB => fl = w /\ fl < t
  <2>1. ASSUME k >= 0, k < LB PROVE fl = w /\ fl < t
    <3>1. k \in Nat /\ k + 1 \in Nat /\ k + 1 <= LB
      BY <1>1, <1>2, <2>1
    <3>2. Pw(k + 1) <= Pw(LB) /\ Pw(k + 1) \in Nat
      BY <1>1, <3>1, PwMonotone, PwPositive
    <3>3. fl = w /\ fl < Pw(k + 1) /\ fl \in Nat
      BY <1>3, <2>1, <3>1
    <3> HIDE DEF k, fl, w
    <3>4. QED BY <1>1, <3>2, <3>3
  <2>2. QED BY <2>1
<1>6. /\ a.e = F64_EXP_MASK => k >= LB /\ k >= 0 /\ a.m = 0
      /\ a.e = 0 => k < 0
  BY <1>1, <1>2 DEF f64_is_nan
<1>7. __fixunsdfdi(a) = IF a.s = 1 THEN 0
                        ELSE IF a.e = F64_EXP_MASK THEN IF a.m # 0 THEN 0 ELSE 2^LB - 1
                        ELSE IF a.e = 0 \/ k < 0 THEN 0
                        ELSE IF k >= LB THEN 2^LB - 1
                        ELSE w
  BY Zenon DEF __fixunsdfdi
<1>8. k \in Int
  BY <1>2
<1>9. 2^LB = t
  BY Zenon DEF Pw
<1> DEFINE u == 2^LB
<1>10. u = t
  BY <1>9
<1>11. __fixunsdfdi(a) = IF a.s = 1 THEN 0
                         ELSE IF a.e = F64_EXP_MASK THEN IF a.m # 0 THEN 0 ELSE u - 1
                         ELSE IF a.e = 0 \/ k < 0 THEN 0
                         ELSE IF k >= LB THEN u - 1
                         ELSE w
  BY <1>7
<1> HIDE DEF u
<1>12. __fixunsdfdi(a) = IF a.s = 1 THEN 0
                         ELSE IF k < 0 THEN 0
                         ELSE IF k >= LB THEN t - 1
                         ELSE fl
  BY <1>1, <1>5, <1>6, <1>8, <1>10, <1>11
<1> HIDE DEF fl, k, w, t
<1>13. Clamp(Toward0(a, fl), 0, t - 1) =
         LET n == IF a.s = 1 THEN -fl ELSE fl
         IN IF n < 0 THEN 0 ELSE IF n > t - 1 THEN t - 1 ELSE n
  BY DEF Clamp, Toward0
<1>14. __fixunsdfdi(a) = Clamp(Toward0(a, fl), 0, t - 1)
  BY <1>1, <1>3, <1>4, <1>5, <1>8, <1>12, <1>13
<1>15. QED
  BY <1>14, <1>9 DEF fl

-----------------------------------------------------------------------------
(* Without its highest bit.                                                 *)
LEMMA TopBit ==
  ASSUME NEW v \in Nat, NEW d \in Nat, d <= v, v < 2 * d
  PROVE  v % d = v - d
<1>1. v - d \in Nat /\ v - d < d /\ v = 1 * d + (v - d)
  OBVIOUS
<1>2. QED
  BY <1>1, Division

(* The highest bit of a number.                                             *)
LEMMA HighestBit ==
  ASSUME NEW a \in Nat, a >= 1, a < Pw(LB)
  PROVE  LET i == u64_msb_index(a)
         IN i \in Nat /\ i < LB /\ Pw(i) <= a /\ a < Pw(i + 1)
<1> DEFINE T == {n \in Nat : a < Pw(n + 1)}
<1>1. LB - 1 \in T
  <2>1. LB - 1 \in Nat /\ LB - 1 + 1 = LB
    BY FieldWidths
  <2>2. QED BY <2>1
<1>2. PICK i \in T : \A n \in T : i <= n
  <2>1. T \in SUBSET Nat /\ T # {}
    BY <1>1
  <2> HIDE DEF T
  <2>2. QED BY <2>1, LeastNumber, Zenon
<1>3. i \in Nat /\ i <= LB - 1 /\ a < Pw(i + 1)
  BY <1>1, <1>2
<1>4. Pw(i) <= a
  <2>1. CASE i = 0
    BY <2>1, PwBasics
  <2>2. CASE i # 0
    <3>1. i - 1 \in Nat /\ ~(i <= i - 1) /\ i - 1 + 1 = i
      BY <1>3, <2>2
    <3>2. i - 1 \notin T
      BY <1>2, <3>1
    <3>3. ~(a < Pw(i - 1 + 1))
      BY <3>1, <3>2
    <3>4. ~(a < Pw(i)) /\ Pw(i) \in Nat
      BY <1>3, <3>1, <3>3, PwPositive
    <3>5. QED BY <3>4
  <2>3. QED BY <2>1, <2>2
<1>5. i \in 0 .. LB - 1
  BY <1>3, FieldWidths
<1>6. u64_msb_index(a) = CHOOSE n \in 0 .. LB - 1 : Pw(n) <= a /\ a < Pw(n + 1)
  BY Zenon DEF u64_msb_index, Pw
<1>7. \E n \in 0 .. LB - 1 : Pw(n) <= a /\ a < Pw(n + 1)
  BY <1>3, <1>4, <1>5
<1> HIDE DEF T
<1>8. u64_msb_index(a) \in 0 .. LB - 1 /\ Pw(u64_msb_index(a)) <= a /\ a < Pw(u64_msb_index(a) + 1)
  BY <1>6, <1>7, Zenon
<1>9. QED
  BY <1>8, FieldWidths

(* x is a to the nearest, ties to even, and a itself if it has no more bits *)
(* than a mantissa.                                                         *)
NearestDouble(x, a) ==
  /\ x.e >= F64_BIAS
  /\ LET ulp == Pw(x.e - F64_BIAS)
         error == Abs(a * F64_IMPLICIT - (F64_IMPLICIT + x.m) * ulp)
     IN /\ 2 * error <= ulp
        /\ 2 * error = ulp => x.m % 2 = 0
        /\ a < 2 * F64_IMPLICIT => error = 0

(* A number that fits the mantissa is shifted up to its highest bit.        *)
LEMMA SmallMagnitude ==
  ASSUME NEW s \in {0, 1}, NEW a \in Nat, NEW i \in Nat, i <= DMB, Pw(i) <= a, a < Pw(i + 1)
  PROVE  NearestDouble(Num(s, i + F64_BIAS, (a * 2^(DMB - i)) % F64_IMPLICIT), a)
<1> DEFINE big == F64_IMPLICIT  p == Pw(i)  q == Pw(DMB - i)  v == a * q
           x == Num(s, i + F64_BIAS, (a * 2^(DMB - i)) % F64_IMPLICIT)
<1>1. DMB \in Nat /\ DMB - i \in Nat /\ i + (DMB - i) = DMB /\ F64_BIAS \in Nat
  BY FieldWidths, DoubleFields
<1>2. big = Pw(DMB) /\ big \in Nat
  BY DoubleFields
<1>3. p \in Nat /\ p >= 1 /\ q \in Nat /\ q >= 1 /\ Pw(i + 1) = p + p
  BY <1>1, PwPositive, PwBasics
<1>4. big = p * q
  <2>1. Pw(i + (DMB - i)) = Pw(i) * Pw(DMB - i)
    BY <1>1, PwSum
  <2>2. QED BY <1>1, <1>2, <2>1
<1>5. x.e = i + F64_BIAS /\ x.m = (a * 2^(DMB - i)) % F64_IMPLICIT
  BY DEF Num
<1>6. x.m = v % big
  BY <1>5, Zenon DEF Pw
<1>7. x.e - F64_BIAS = i /\ x.e >= F64_BIAS
  BY <1>1, <1>5
<1> HIDE DEF x, big, p, q
<1>8. v \in Nat /\ big <= v /\ v < 2 * big
  <2>1. v \in Nat /\ p * q <= v /\ v < (p + p) * q
    BY <1>3, Times DEF p
  <2>2. (p + p) * q = p * q + p * q /\ p * q \in Nat
    BY <1>3
  <2>3. QED BY <1>4, <2>1, <2>2
<1> HIDE DEF v
<1>9. x.m = v - big
  <2>1. v - big \in Nat /\ v - big < big /\ v = 1 * big + (v - big)
    BY <1>2, <1>8
  <2>2. QED BY <1>2, <1>6, <1>8, <2>1, Division
<1>10. (big + x.m) * p = a * big
  <2>1. big + x.m = v
    BY <1>2, <1>8, <1>9
  <2>2. v * p = a * (p * q)
    BY <1>3 DEF v
  <2>3. QED BY <1>4, <2>1, <2>2
<1>11. Abs(a * big - (big + x.m) * p) = 0
  <2>1. a * big \in Nat
    BY <1>2, Times
  <2>2. QED BY <1>10, <2>1 DEF Abs
<1>12. NearestDouble(x, a)
  BY <1>3, <1>7, <1>11 DEF NearestDouble, big, p
<1>13. QED
  BY <1>12 DEF x

(* A longer one loses its lowest bits, to the nearest and to even.          *)
LEMMA LargeMagnitude ==
  ASSUME NEW s \in {0, 1}, NEW a \in Nat, NEW i \in Nat, i > DMB, Pw(i) <= a, a < Pw(i + 1),
         NEW cut \in Nat, NEW rem \in Nat, rem < Pw(i - DMB), a = cut * Pw(i - DMB) + rem,
         NEW up \in BOOLEAN,
         up <=> rem > Pw(i - DMB - 1) \/ (rem = Pw(i - DMB - 1) /\ cut % 2 = 1)
  PROVE  LET x == Renormalized(s, i + F64_BIAS, IF up THEN cut + 1 ELSE cut)
         IN NearestDouble(x, a) /\ x.s = s
<1> DEFINE big == F64_IMPLICIT  p == Pw(i - DMB)  h == Pw(i - DMB - 1)
           n == IF up THEN cut + 1 ELSE cut
           x == Renormalized(s, i + F64_BIAS, n)
           d == IF up THEN p - rem ELSE rem
<1>1. /\ DMB \in Nat /\ i - DMB \in Nat /\ i - DMB - 1 \in Nat /\ i - DMB - 1 + 1 = i - DMB
      /\ DMB + (i - DMB) = i /\ F64_BIAS \in Nat
  BY FieldWidths, DoubleFields
<1>2. big = Pw(DMB) /\ big \in Nat /\ big % 2 = 0
  BY DoubleFields
<1>3. /\ h \in Nat /\ h >= 1 /\ p = h + h /\ Pw(i + 1) = Pw(i) + Pw(i) /\ Pw(i) \in Nat
      /\ big >= 1
  <2>1. Pw(i - DMB - 1 + 1) = h + h
    BY <1>1, PwBasics
  <2>2. QED BY <1>1, <1>2, <2>1, PwBasics, PwPositive
<1>4. Pw(i) = big * p
  <2>1. Pw(DMB + (i - DMB)) = Pw(DMB) * Pw(i - DMB)
    BY <1>1, PwSum
  <2>2. QED BY <1>1, <1>2, <2>1
<1> DEFINE ulp == Pw(i)
<1> HIDE DEF big, p, h
<1>5. a = cut * p + rem /\ rem < p /\ (up <=> rem > h \/ (rem = h /\ cut % 2 = 1))
  BY DEF p, h
<1>6. p \in Nat /\ p >= 1 /\ cut * p \in Nat /\ big * p \in Nat
  <2>1. p \in Nat /\ p >= 1
    BY <1>3
  <2>2. QED BY <1>2, <2>1, Times
<1>7. cut >= big
  <2>1. ASSUME cut < big PROVE FALSE
    <3>1. (cut + 1) * p <= big * p
      BY <1>2, <1>6, <2>1, Times
    <3>2. (cut + 1) * p = cut * p + p
      BY <1>6
    <3>3. QED BY <1>4, <1>5, <1>6, <3>1, <3>2
  <2>2. QED BY <1>2, <2>1
<1>8. cut < 2 * big
  <2>1. ASSUME 2 * big <= cut PROVE FALSE
    <3>1. (2 * big) * p <= cut * p
      BY <1>2, <1>6, <2>1, Times
    <3>2. (2 * big) * p = big * p + big * p
      BY <1>2, <1>6
    <3>3. QED BY <1>3, <1>4, <1>5, <1>6, <3>1, <3>2
  <2>2. QED BY <1>2, <2>1
<1>9. n \in Nat /\ big <= n /\ n <= 2 * big
  BY <1>2, <1>7, <1>8
(* What is dropped or added is at most half of the last bit kept.           *)
<1>10. d \in Nat /\ 2 * d <= p /\ (2 * d = p => n % 2 = 0) /\ (up => n * p = a + d) /\ (~up => n * p = a - d)
  <2>1. CASE up
    <3>1. n = cut + 1 /\ d = p - rem
      BY <2>1
    <3>2. (cut + 1) * p = cut * p + p
      BY <1>6
    <3>3. n * p = a + d
      BY <1>5, <1>6, <3>1, <3>2
    <3>4. d \in Nat /\ 2 * d <= p
      BY <1>3, <1>5, <1>6, <2>1, <3>1
    <3>5. 2 * d = p => n % 2 = 0
      <4>1. ASSUME 2 * d = p PROVE cut % 2 = 1
        BY <1>3, <1>5, <1>6, <2>1, <3>1, <4>1
      <4>2. cut % 2 = 1 => (cut + 1) % 2 = 0
        OBVIOUS
      <4>3. QED BY <3>1, <4>1, <4>2
    <3>6. QED BY <2>1, <3>3, <3>4, <3>5
  <2>2. CASE ~up
    <3>1. n = cut /\ d = rem
      BY <2>2
    <3>2. n * p = a - d
      BY <1>5, <1>6, <3>1
    <3>3. d \in Nat /\ 2 * d <= p
      BY <1>3, <1>5, <1>6, <2>2, <3>1
    <3>4. 2 * d = p => n % 2 = 0
      <4>1. ASSUME 2 * d = p PROVE cut % 2 # 1
        BY <1>3, <1>5, <1>6, <2>2, <3>1, <4>1
      <4>2. cut % 2 # 1 => cut % 2 = 0
        OBVIOUS
      <4>3. QED BY <3>1, <4>1, <4>2
    <3>5. QED BY <2>2, <3>2, <3>3, <3>4
  <2>3. QED BY <2>1, <2>2
<1> HIDE DEF n, d
<1>11. Abs(a * big - (n * p) * big) = d * big /\ d * big \in Nat
  <2>1. d * big \in Nat
    BY <1>2, <1>10, Times
  <2>2. n * p - a \in Int /\ (a - n * p) * big = a * big - (n * p) * big
    BY <1>2, <1>6, <1>9
  <2>3. up => (a - n * p) * big = -(d * big)
    BY <1>2, <1>10, <2>2
  <2>4. ~up => (a - n * p) * big = d * big
    BY <1>2, <1>10, <2>2
  <2>5. QED BY <2>1, <2>2, <2>3, <2>4 DEF Abs
<1>12. 2 * (d * big) <= ulp /\ (2 * (d * big) = ulp => 2 * d = p)
  <2>1. (2 * d) * big <= p * big /\ (2 * d < p => (2 * d) * big < p * big)
    BY <1>2, <1>3, <1>6, <1>10, Times
  <2>2. (2 * d) * big = 2 * (d * big) /\ p * big = big * p
    BY <1>2, <1>6, <1>10
  <2>3. QED BY <1>4, <1>6, <1>10, <1>11, <2>1, <2>2
<1>13. ~(a < 2 * big)
  <2>1. 2 * big <= big * p
    <3>1. 2 * big <= p * big
      BY <1>2, <1>3, <1>6, Times
    <3>2. QED BY <1>2, <1>6, <3>1
  <2>2. QED BY <1>2, <1>4, <1>6, <2>1
<1> DEFINE e == i + F64_BIAS
<1>14. e \in Nat /\ e >= F64_BIAS /\ e - F64_BIAS = i /\ e + 1 - F64_BIAS = i + 1
  BY <1>1
<1>15. CASE n = 2 * big
  <2>1. x = Num(s, e + 1, 0)
    BY <1>15 DEF Renormalized, big
  <2>2. x.e = e + 1 /\ x.m = 0 /\ x.s = s
    BY <2>1 DEF Num
  <2>3. Pw(x.e - F64_BIAS) = ulp + ulp
    <3>1. x.e - F64_BIAS = i + 1
      <4>1. x.e = i + F64_BIAS + 1
        BY <2>2
      <4> HIDE DEF x
      <4>2. QED BY <1>1, <4>1
    <3>2. QED BY <1>3, <3>1
  <2>4. (big + x.m) * (ulp + ulp) = (n * p) * big
    <3>1. (big + x.m) * (ulp + ulp) = big * (big * p + big * p)
      BY <1>2, <1>4, <2>2
    <3>2. (n * p) * big = big * (big * p + big * p)
      BY <1>2, <1>6, <1>15
    <3>3. QED BY <3>1, <3>2
  <2>5. x.m % 2 = 0
    BY <2>2
  <2> DEFINE err == Abs(a * big - (big + x.m) * (ulp + ulp))
  <2>6. err = d * big
    BY <1>11, <2>4
  <2> HIDE DEF err, ulp, x
  <2>7. 2 * err <= ulp + ulp
    BY <1>3, <1>11, <1>12, <2>6 DEF ulp
  <2>8. NearestDouble(x, a)
    <3>1. Abs(a * F64_IMPLICIT - (F64_IMPLICIT + x.m) * Pw(x.e - F64_BIAS)) = err
      BY <2>3, Zenon DEF err, big
    <3>2. x.e >= F64_BIAS
      BY <1>1, <1>14, <2>2
    <3>3. ~(a < 2 * F64_IMPLICIT)
      BY <1>13 DEF big
    <3>4. QED BY <2>3, <2>5, <2>7, <3>1, <3>2, <3>3 DEF NearestDouble
  <2>9. QED BY <2>2, <2>8 DEF x, n
<1>16. CASE n < 2 * big
  <2>1. x = Num(s, e, n % big)
    BY <1>2, <1>9, <1>16 DEF Renormalized, big
  <2>2. x.e = e /\ x.m = n % big /\ x.s = s
    BY <2>1 DEF Num
  <2> HIDE DEF x
  <2>3. n % big = n - big
    BY <1>2, <1>9, <1>16, TopBit
  <2>4. x.m % 2 = n % 2
    BY <1>2, <1>9, <2>2, <2>3
  <2>5. big + x.m = n
    BY <1>2, <1>9, <2>2, <2>3
  <2>6. (big + x.m) * ulp = (n * p) * big
    <3>1. n * (big * p) = (n * p) * big
      BY <1>2, <1>6, <1>9
    <3>2. QED BY <1>4, <2>5, <3>1
  <2> DEFINE err == Abs(a * big - (big + x.m) * ulp)
  <2>7. err = d * big
    BY <1>11, <2>6
  <2>8. x.e - F64_BIAS = i /\ x.e >= F64_BIAS
    BY <1>14, <2>2
  <2> HIDE DEF err, ulp
  <2>9. 2 * err <= ulp /\ (2 * err = ulp => x.m % 2 = 0)
    BY <1>10, <1>12, <2>4, <2>7 DEF ulp
  <2>10. NearestDouble(x, a)
    BY <1>13, <2>8, <2>9 DEF NearestDouble, err, big, ulp
  <2>11. QED BY <2>2, <2>10 DEF x, n
<1>17. QED
  BY <1>2, <1>9, <1>15, <1>16 DEF n

(* Integers become the nearest double.                                      *)
LEMMA MagnitudeIs ==
  ASSUME NEW s \in {0, 1}, NEW a \in Nat, a >= 1, a < Pw(LB)
  PROVE  NearestDouble(Magnitude(s, a), a) /\ Magnitude(s, a).s = s
<1> DEFINE i == u64_msb_index(a)
<1>1. i \in Nat /\ i < LB /\ Pw(i) <= a /\ a < Pw(i + 1)
  BY HighestBit
<1>2. DMB \in Nat
  BY FieldWidths
<1>3. CASE i <= DMB
  <2>1. Magnitude(s, a) = Num(s, i + F64_BIAS, (a * 2^(DMB - i)) % F64_IMPLICIT)
    BY <1>3 DEF Magnitude
  <2> HIDE DEF i
  <2>2. QED BY <1>1, <1>3, <2>1, SmallMagnitude DEF Num
<1>4. CASE i > DMB
  <2> DEFINE p == Pw(i - DMB)  h == Pw(i - DMB - 1)
             rem == a % 2^(i - DMB)
             cut == a \div 2^(i - DMB)
             up == rem > 2^(i - DMB - 1) \/ (rem = 2^(i - DMB - 1) /\ cut % 2 = 1)
  <2>1. a # 0 /\ ~(i <= DMB)
    BY <1>1, <1>2, <1>4
  <2>2. Magnitude(s, a) = Renormalized(s, i + F64_BIAS, IF up THEN cut + 1 ELSE cut)
    BY <2>1, Zenon DEF Magnitude
  <2>3. rem = a % p /\ cut = a \div p /\ (up <=> rem > h \/ (rem = h /\ cut % 2 = 1))
    BY Zenon DEF Pw
  <2>4. p \in Nat \ {0}
    <3>1. i - DMB \in Nat
      BY <1>1, <1>2, <1>4
    <3>2. QED BY <3>1, PwPositive
  <2> HIDE DEF rem, cut, up, p, h, i
  <2>5. cut \in Nat /\ rem \in Nat /\ rem < p /\ a = cut * p + rem
    <3>1. PICK x \in Nat, y \in 0 .. p - 1 : a \div p = x /\ a % p = y /\ a = x * p + y
      BY <2>4, Quotient
    <3>2. QED BY <2>3, <2>4, <3>1
  <2>6. up \in BOOLEAN
    BY DEF up
  <2>7. QED
    BY <1>1, <1>4, <2>2, <2>3, <2>5, <2>6, LargeMagnitude DEF p, h
<1>5. QED
  BY <1>1, <1>2, <1>3, <1>4

-----------------------------------------------------------------------------
(* The mantissa of a float comes back from a double.                        *)
LEMMA CutIs ==
  /\ \A u \in Nat : Cut(u * Pw(Low)) = u
  /\ \A v \in Nat : Cut(v) \in Nat /\ Cut(v) * Pw(Low) <= v /\ v < Cut(v) * Pw(Low) + Pw(Low)
<1> DEFINE k == Pw(Low)
<1>1. \A v : Cut(v) = v \div k
  BY Zenon DEF Cut, Pw
<1>2. k \in Nat \ {0}
  BY FieldWidths, PwPositive
<1> HIDE DEF k
<1>3. ASSUME NEW u \in Nat PROVE Cut(u * k) = u
  <2>1. u * k \in Nat /\ u * k = u * k + 0
    BY <1>2
  <2>2. QED BY <1>1, <1>2, <2>1, Division
<1>4. ASSUME NEW v \in Nat PROVE Cut(v) \in Nat /\ Cut(v) * k <= v /\ v < Cut(v) * k + k
  <2>1. PICK x \in Nat, y \in 0 .. k - 1 : v \div k = x /\ v % k = y /\ v = x * k + y
    BY <1>2, Quotient
  <2>2. x * k \in Nat /\ Cut(v) = x
    BY <1>1, <1>2, <2>1, Times
  <2> DEFINE w == x * k
  <2>3. w \in Nat /\ v = w + y /\ Cut(v) * k = w
    BY <2>1, <2>2
  <2> HIDE DEF w
  <2>4. Cut(v) * k <= v /\ v < Cut(v) * k + k
    BY <1>2, <2>1, <2>3
  <2>5. QED BY <2>2, <2>4
<1>5. QED
  BY <1>3, <1>4 DEF k

(* A float that is widened and cut again is the same, unless it is          *)
(* subnormal.                                                               *)
LEMMA TruncExtend ==
  ASSUME NEW a \in Floats
  PROVE  __truncdfsf2(__extendsfdf2(a)) = IF a.e = 0 THEN f32_zero(a.s) ELSE a
<1> DEFINE x == __extendsfdf2(a)
           s == LeastShift(a.m, MB)
           k == Pw(Low)
           f == x.e - F64_BIAS + F32_BIAS
<1>1. /\ a.m \in Nat /\ a.e \in Nat /\ a.e <= F32_EXP_MASK /\ a.m < F32_IMPLICIT
      /\ a = [s |-> a.s, e |-> a.e, m |-> a.m]
  BY FloatIs
<1>2. /\ F64_EXP_MASK = 2 * F64_BIAS + 1 /\ F32_EXP_MASK = 2 * F32_BIAS + 1
      /\ F64_BIAS \in Nat /\ F32_BIAS \in Nat /\ F32_BIAS >= 1 /\ MB \in Nat /\ MB >= 3
      /\ F64_BIAS >= F32_BIAS + MB
  BY FloatFields, DoubleFields, FieldWidths
<1>3. /\ a.e = F32_EXP_MASK => x = Num(a.s, F64_EXP_MASK, a.m * k)
      /\ a.e = 0 /\ a.m = 0 => x = Num(a.s, 0, 0)
      /\ a.e = 0 /\ a.m # 0 => x = Num(a.s, Widened(1 - s), (a.m * Pw(s) - F32_IMPLICIT) * k)
      /\ a.e # 0 /\ a.e # F32_EXP_MASK => x = Num(a.s, Widened(a.e), a.m * k)
  BY ExtendIs DEF is_zero
<1>4. x.s = a.s /\ x.e \in Nat /\ (a.e # F32_EXP_MASK => x.e < F64_EXP_MASK)
  BY ExtendRange
<1>5. a.e = 0 /\ a.m # 0 => s \in 1 .. MB
  <2>1. a.m # 0 => a.m >= 1
    BY <1>1
  <2>2. QED BY <1>1, <2>1, Normalized
<1>6. Cut(a.m * k) = a.m
  BY <1>1, CutIs
<1>7. __truncdfsf2(x) =
        IF x.e = F64_EXP_MASK
        THEN Num(x.s, F32_EXP_MASK, IF x.m # 0 /\ Cut(x.m) = 0 THEN 1 ELSE Cut(x.m))
        ELSE IF x.e = 0 \/ f <= 0 THEN f32_zero(x.s)
        ELSE IF f >= F32_EXP_MASK THEN f32_inf(x.s)
        ELSE Num(x.s, f, Cut(x.m))
  BY Zenon DEF __truncdfsf2
<1> HIDE DEF x, s, k
<1>8. CASE a.e = F32_EXP_MASK
  <2>1. x.e = F64_EXP_MASK /\ x.m = a.m * k
    BY <1>3, <1>8 DEF Num
  <2>2. x.m # 0 /\ Cut(x.m) = 0 => FALSE
    <3>1. ASSUME a.m = 0 PROVE x.m = 0
      BY <1>1, <2>1, <3>1, PwPositive, FieldWidths DEF k
    <3>2. QED BY <1>6, <2>1, <3>1
  <2>3. __truncdfsf2(x) = Num(a.s, F32_EXP_MASK, a.m)
    BY <1>4, <1>6, <1>7, <2>1, <2>2
  <2>4. a.e # 0 /\ Num(a.s, F32_EXP_MASK, a.m) = a
    BY <1>1, <1>2, <1>8 DEF Num
  <2>5. QED BY <2>3, <2>4 DEF x
<1>9. CASE a.e = 0
  <2>1. x.e # F64_EXP_MASK
    BY <1>2, <1>4, <1>9
  <2>2. x.e = 0 \/ f <= 0
    <3>1. CASE a.m = 0
      BY <1>3, <1>9, <3>1 DEF Num
    <3>2. CASE a.m # 0
      BY <1>2, <1>3, <1>5, <1>9, <3>2 DEF Num, Widened
    <3>3. QED BY <3>1, <3>2
  <2>3. QED BY <1>4, <1>7, <1>9, <2>1, <2>2 DEF x
<1>10. CASE a.e # 0 /\ a.e # F32_EXP_MASK
  <2>1. x.e = Widened(a.e) /\ x.m = a.m * k
    BY <1>3, <1>10 DEF Num
  <2>2. f = a.e /\ x.e # 0 /\ x.e # F64_EXP_MASK /\ ~(f <= 0) /\ ~(f >= F32_EXP_MASK)
    BY <1>1, <1>2, <1>4, <1>10, <2>1 DEF Widened
  <2>3. __truncdfsf2(x) = Num(a.s, a.e, a.m)
    BY <1>4, <1>6, <1>7, <2>1, <2>2
  <2>4. Num(a.s, a.e, a.m) = a
    BY <1>1 DEF Num
  <2>5. QED BY <1>10, <2>3, <2>4 DEF x
<1>11. QED
  BY <1>8, <1>9, <1>10

(* A double that is cut to a normal float is the next one toward 0.         *)
LEMMA ExtendTrunc ==
  ASSUME NEW a \in Doubles, Normal(__truncdfsf2(a))
  PROVE  LET back == __extendsfdf2(__truncdfsf2(a))
         IN back.s = a.s /\ back.e = a.e /\ back.m <= a.m /\ a.m < back.m + 2^Low
<1> DEFINE f == a.e - F64_BIAS + F32_BIAS
           y == __truncdfsf2(a)
           back == __extendsfdf2(y)
           k == Pw(Low)
<1>1. a.m \in Nat /\ a.e \in Nat /\ a.m < F64_IMPLICIT /\ a.s \in {0, 1}
  BY DoubleIs
<1>2. /\ F64_BIAS \in Nat /\ F32_BIAS \in Nat /\ F32_BIAS >= 1
      /\ F32_EXP_MASK = 2 * F32_BIAS + 1
      /\ F32_IMPLICIT \in Nat /\ F64_IMPLICIT = F32_IMPLICIT * k
  BY FloatFields, DoubleFields
<1>3. k \in Nat /\ k >= 1
  BY FieldWidths, PwPositive
<1>4. Cut(a.m) \in Nat /\ Cut(a.m) * k <= a.m /\ a.m < Cut(a.m) * k + k
  BY <1>1, CutIs
<1>5. y = IF a.e = F64_EXP_MASK
          THEN Num(a.s, F32_EXP_MASK, IF a.m # 0 /\ Cut(a.m) = 0 THEN 1 ELSE Cut(a.m))
          ELSE IF a.e = 0 \/ f <= 0 THEN f32_zero(a.s)
          ELSE IF f >= F32_EXP_MASK THEN f32_inf(a.s)
          ELSE Num(a.s, f, Cut(a.m))
  BY Zenon DEF __truncdfsf2
<1>6. y.e >= 1 /\ y.e < F32_EXP_MASK
  BY DEF Normal
<1> HIDE DEF y, k
<1>7. y = Num(a.s, f, Cut(a.m)) /\ f >= 1 /\ f < F32_EXP_MASK
  BY <1>1, <1>2, <1>5, <1>6 DEF Num, f32_zero, f32_inf
<1>8. Cut(a.m) < F32_IMPLICIT
  <2>1. ASSUME F32_IMPLICIT <= Cut(a.m) PROVE FALSE
    <3>1. F32_IMPLICIT * k <= Cut(a.m) * k /\ F32_IMPLICIT * k \in Nat /\ Cut(a.m) * k \in Nat
      BY <1>2, <1>3, <1>4, <2>1, Times
    <3>2. QED BY <1>1, <1>2, <1>4, <3>1
  <2>2. QED BY <1>2, <1>4, <2>1
<1>9. y \in Floats
  BY <1>1, <1>2, <1>4, <1>7, <1>8 DEF Floats, Num
<1>10. y.e # 0 /\ y.e # F32_EXP_MASK /\ y.e = f /\ y.s = a.s /\ y.m = Cut(a.m)
  BY <1>1, <1>2, <1>7 DEF Num
<1>11. back = Num(y.s, Widened(y.e), y.m * k)
  BY <1>9, <1>10, ExtendIs DEF k
<1>12. back.s = a.s /\ back.e = a.e /\ back.m = Cut(a.m) * k
  BY <1>1, <1>2, <1>10, <1>11 DEF Num, Widened
<1>13. k = 2^Low
  BY Zenon DEF k, Pw
<1>14. back.s = a.s /\ back.e = a.e /\ back.m <= a.m /\ a.m < back.m + k
  BY <1>4, <1>12
<1>15. QED
  BY <1>13, <1>14 DEF y

-----------------------------------------------------------------------------
(* A call has arguments of its types and, once it has returned, its result. *)
FloatInv == result = <<>> \/ (call \in Calls /\ result = <<Returned(call)>>)

(* A call returns what its function computes.                               *)
LEMMA ReturnKeeps == (call \in Calls /\ FloatInv) /\ [FloatReturn]_floatVars => (call \in Calls /\ FloatInv)'
BY DEF FloatInv, FloatReturn, floatVars

LEMMA FloatInductive == FloatSpec => [](call \in Calls /\ FloatInv)
<1>1. FloatInit => call \in Calls /\ FloatInv
  BY DEF FloatInit, FloatInv
<1>2. QED
  BY <1>1, ReturnKeeps, PTL DEF FloatSpec

(* The arguments of every function.                                         *)
LEMMA Arguments ==
  ASSUME call \in Calls
  PROVE  /\ call.fn \in {"__addsf3", "__subsf3", "__mulsf3", "__divsf3", "__adddf3", "compare"} =>
              call.a \in Floats /\ call.b \in Floats
         /\ call.fn \in {"__fixsfsi", "__extendsfdf2"} => call.a \in Floats
         /\ call.fn \in {"__fixdfsi", "__fixunsdfdi", "__truncdfsf2"} => call.a \in Doubles
         /\ call.fn = "__floatsidf" => call.a \in INT_MIN .. INT_MAX
         /\ call.fn = "__floatunsidf" => call.a \in 0 .. 2^IB - 1
         /\ call.fn = "__floatundidf" => call.a \in 0 .. 2^LB - 1
         /\ call.fn = "__floatdidf" => call.a \in -(2^(LB - 1)) .. 2^(LB - 1) - 1
<1>1. CASE call \in [fn : {"__addsf3", "__subsf3", "__mulsf3", "__divsf3", "__adddf3", "compare"},
                     a : Floats, b : Floats]
  BY <1>1
<1>2. CASE call \in [fn : {"__fixsfsi", "__extendsfdf2"}, a : Floats, b : {0}]
  BY <1>2
<1>3. CASE call \in [fn : {"__fixdfsi", "__fixunsdfdi", "__truncdfsf2"}, a : Doubles, b : {0}]
  BY <1>3
<1>4. CASE call \in [fn : {"__floatsidf"}, a : INT_MIN .. INT_MAX, b : {0}]
  <2>1. call.fn = "__floatsidf" /\ call.a \in INT_MIN .. INT_MAX
    BY <1>4, Zenon
  <2>2. QED BY <2>1
<1> DEFINE i == 2^IB  l == 2^LB  h == 2^(LB - 1)
<1>5. CASE call \in [fn : {"__floatunsidf"}, a : 0 .. i - 1, b : {0}]
  <2> HIDE DEF i, l, h
  <2>1. call.fn = "__floatunsidf" /\ call.a \in 0 .. i - 1
    BY <1>5
  <2>2. QED BY <2>1 DEF i
<1>6. CASE call \in [fn : {"__floatundidf"}, a : 0 .. l - 1, b : {0}]
  <2> HIDE DEF i, l, h
  <2>1. call.fn = "__floatundidf" /\ call.a \in 0 .. l - 1
    BY <1>6
  <2>2. QED BY <2>1 DEF l
<1>7. CASE call \in [fn : {"__floatdidf"}, a : -h .. h - 1, b : {0}]
  <2> HIDE DEF i, l, h
  <2>1. call.fn = "__floatdidf" /\ call.a \in -h .. h - 1
    BY <1>7
  <2>2. QED BY <2>1 DEF h
<1>8. QED
  BY <1>1, <1>2, <1>3, <1>4, <1>5, <1>6, <1>7, Zenon DEF Calls

(* Comparisons order all numbers, infinities and subnormals too, floats and *)
(* doubles alike, and are false of a number that is not one (softfp.c,      *)
(* f32_cmp, f64_cmp, __extendsfdf2, __cmpsf2).                              *)
LEMMA InvCompares == FloatInv => ComparisonsOrder
<1> SUFFICES ASSUME FloatInv, Done({"compare"})
             PROVE  IF Nan(A) \/ Nan(B)
                    THEN /\ Answer.le > 0 /\ Answer.ge < 0 /\ Answer.led > 0 /\ Answer.ged < 0
                    ELSE /\ {Answer.le, Answer.ge, Answer.led, Answer.ged} = {Order(Signed(A), Signed(B))}
                         /\ Answer.cmpsf2 = Answer.le \/ (is_zero(A) /\ is_zero(B))
  BY Zenon DEF ComparisonsOrder
<1>1. call \in Calls /\ result = <<Returned(call)>> /\ call.fn = "compare"
  BY DEF FloatInv, Done
<1>2. A \in Floats /\ B \in Floats
  BY <1>1, Arguments DEF A, B
<1>3. Answer = Compared(A, B)
  <2>1. Returned(call) = Compared(call.a, call.b)
    BY <1>1 DEF Returned
  <2>2. QED BY <1>1, <2>1 DEF Answer, A, B
<1> DEFINE x == __extendsfdf2(A)  y == __extendsfdf2(B)
<1>4. /\ Answer.le = f32_cmp(A, B, 1) /\ Answer.ge = f32_cmp(A, B, ge_nan)
      /\ Answer.cmpsf2 = __cmpsf2(A, B)
      /\ Answer.led = f64_cmp(x, y, 1) /\ Answer.ged = f64_cmp(x, y, ge_nan)
  BY <1>3 DEF Compared
<1>5. CASE Nan(A) \/ Nan(B)
  <2>1. f32_is_nan(A) \/ f32_is_nan(B)
    BY <1>5 DEF f32_is_nan, Nan
  <2>2. f64_is_nan(x) \/ f64_is_nan(y)
    BY <1>2, <1>5, ExtendRange
  <2> HIDE DEF x, y
  <2>3. Answer.le = 1 /\ Answer.ge = ge_nan /\ Answer.led = 1 /\ Answer.ged = ge_nan
    BY <1>4, <2>1, <2>2 DEF f32_cmp, f64_cmp, cmp
  <2>4. QED BY <1>5, <2>3 DEF ge_nan
<1>6. CASE ~Nan(A) /\ ~Nan(B)
  <2>1. \A r : f32_cmp(A, B, r) = Order(Signed(A), Signed(B))
    BY <1>2, <1>6, CmpOrders
  <2>2. \A r : f64_cmp(x, y, r) = f32_cmp(A, B, r)
    BY <1>2, <1>6, ExtendedOrder
  <2>3. __cmpsf2(A, B) = f32_cmp(A, B, 1) \/ (is_zero(A) /\ is_zero(B))
    BY <1>2, <1>6, CmpOrders
  <2> HIDE DEF x, y
  <2>4. QED BY <1>4, <1>6, <2>1, <2>2, <2>3
<1>7. QED
  BY <1>5, <1>6

(* An integer and what it becomes.                                          *)
LEMMA InvIntegers ==
  ASSUME FloatInv, Done({"__floatsidf", "__floatunsidf", "__floatundidf", "__floatdidf"})
  PROVE  /\ A \in Int
         /\ A = 0 => is_zero(Answer)
         /\ A # 0 => /\ Answer.s = (IF A < 0 THEN 1 ELSE 0)
                     /\ Abs(A) \in Nat /\ NearestDouble(Answer, Abs(A))
<1>1. call \in Calls /\ result = <<Returned(call)>>
      /\ call.fn \in {"__floatsidf", "__floatunsidf", "__floatundidf", "__floatdidf"}
  BY DEF FloatInv, Done
<1>2. Answer = Returned(call)
  BY <1>1 DEF Answer
<1>3. Answer = IF call.fn = "__floatsidf" THEN __floatsidf(A)
               ELSE IF call.fn = "__floatdidf" THEN __floatdidf(A)
               ELSE __floatundidf(A)
  BY <1>1, <1>2 DEF Returned, __floatunsidf, A
<1>4. /\ 2^IB = Pw(IB) /\ 2^LB = Pw(LB) /\ 2^(LB - 1) = Pw(LB - 1)
  BY Zenon DEF Pw
<1>5. /\ Pw(IB) \in Nat /\ Pw(IB - 1) \in Nat /\ Pw(LB) \in Nat /\ Pw(LB - 1) \in Nat
      /\ Pw(IB) <= Pw(LB) /\ Pw(IB - 1) < Pw(LB) /\ Pw(LB - 1) < Pw(LB)
  <2>1. IB \in Nat /\ IB - 1 \in Nat /\ LB \in Nat /\ LB - 1 \in Nat /\ IB <= LB /\ IB - 1 < LB
        /\ LB - 1 < LB
    BY FieldWidths
  <2>2. /\ Pw(IB) <= Pw(LB) /\ 2 * Pw(IB - 1) <= Pw(LB) /\ 2 * Pw(LB - 1) <= Pw(LB)
        /\ Pw(IB - 1) >= 1 /\ Pw(LB - 1) >= 1
        /\ Pw(IB) \in Nat /\ Pw(IB - 1) \in Nat /\ Pw(LB) \in Nat /\ Pw(LB - 1) \in Nat
    BY <2>1, PwMonotone, PwPositive
  <2>3. QED BY <2>2
<1>6. /\ A \in Int /\ A < Pw(LB) /\ -A < Pw(LB)
      /\ call.fn \in {"__floatunsidf", "__floatundidf"} => A >= 0
  <2>1. CASE call.fn = "__floatsidf"
    <3>1. call.a \in -Pw(IB - 1) .. Pw(IB - 1) - 1
      BY <1>1, <2>1, Arguments, IntegerEnds
    <3>2. QED BY <1>5, <2>1, <3>1 DEF A
  <2>2. CASE call.fn = "__floatunsidf"
    <3>1. call.a \in 0 .. 2^IB - 1
      BY <1>1, <2>2, Arguments, Zenon
    <3>2. call.a \in 0 .. Pw(IB) - 1
      BY <1>4, <3>1, Zenon
    <3>3. QED BY <1>5, <2>2, <3>2 DEF A
  <2>3. CASE call.fn = "__floatundidf"
    <3>1. call.a \in 0 .. 2^LB - 1
      BY <1>1, <2>3, Arguments, Zenon
    <3>2. call.a \in 0 .. Pw(LB) - 1
      BY <1>4, <3>1, Zenon
    <3>3. QED BY <1>5, <2>3, <3>2 DEF A
  <2>4. CASE call.fn = "__floatdidf"
    <3>1. call.a \in -(2^(LB - 1)) .. 2^(LB - 1) - 1
      BY <1>1, <2>4, Arguments, Zenon
    <3>2. call.a \in -Pw(LB - 1) .. Pw(LB - 1) - 1
      BY <1>4, <3>1, Zenon
    <3>3. QED BY <1>5, <2>4, <3>2 DEF A
  <2>5. QED BY <1>1, <2>1, <2>2, <2>3, <2>4
<1>7. Answer = IF A < 0 THEN Magnitude(1, -A) ELSE Magnitude(0, A)
  <2>1. -(A + 1) + 1 = -A
    BY <1>6
  <2>2. QED BY <1>1, <1>3, <1>6, <2>1 DEF __floatsidf, __floatdidf, __floatundidf
<1>8. ASSUME A = 0 PROVE is_zero(Answer)
  <2>1. Answer = Magnitude(0, 0)
    BY <1>7, <1>8
  <2>2. Magnitude(0, 0) = Num(0, 0, 0)
    BY Zenon DEF Magnitude
  <2>3. QED BY <2>1, <2>2 DEF is_zero, Num
<1>9. ASSUME A # 0
      PROVE  /\ Answer.s = (IF A < 0 THEN 1 ELSE 0)
             /\ Abs(A) \in Nat /\ NearestDouble(Answer, Abs(A))
  <2>1. CASE A < 0
    <3>1. -A \in Nat /\ -A >= 1 /\ -A < Pw(LB) /\ Abs(A) = -A /\ 1 \in {0, 1}
      BY <1>6, <2>1 DEF Abs
    <3>2. NearestDouble(Magnitude(1, -A), -A) /\ Magnitude(1, -A).s = 1
      BY <3>1, MagnitudeIs, Zenon
    <3>3. QED BY <1>7, <2>1, <3>1, <3>2
  <2>2. CASE ~(A < 0)
    <3>1. A \in Nat /\ A >= 1 /\ A < Pw(LB) /\ Abs(A) = A /\ 0 \in {0, 1}
      BY <1>6, <1>9, <2>2 DEF Abs
    <3>2. NearestDouble(Magnitude(0, A), A) /\ Magnitude(0, A).s = 0
      BY <3>1, MagnitudeIs, Zenon
    <3>3. QED BY <1>7, <2>2, <3>1, <3>2
  <2>3. QED BY <2>1, <2>2
<1>10. QED
  BY <1>6, <1>8, <1>9

(* Conversions keep what the other type can hold (softfp.c, __fixsfsi to    *)
(* __floatunsidf, __truncdfsf2, __extendsfdf2).                             *)
LEMMA InvConverts == FloatInv => ConversionsRound
<1> SUFFICES ASSUME FloatInv PROVE ConversionsRound
  OBVIOUS
<1>1. \A fns : Done(fns) => call \in Calls /\ call.fn \in fns /\ Answer = Returned(call)
  BY DEF FloatInv, Done, Answer
<1>2. ASSUME Done({"__fixsfsi"}), ~Nan(A)
      PROVE  Answer = Clamp(Toward0(A, Floor(A, F32_BIAS, MB)), INT_MIN, INT_MAX)
  <2>1. call \in Calls /\ call.fn = "__fixsfsi" /\ Answer = Returned(call)
    BY <1>1, <1>2
  <2>2. A \in Floats /\ Answer = __fixsfsi(A)
    BY <2>1, Arguments DEF Returned, A
  <2>3. QED BY <1>2, <2>2, FixsfsiIs
<1>3. ASSUME Done({"__fixdfsi"}), ~f64_is_nan(A)
      PROVE  Answer = Clamp(Toward0(A, Floor(A, F64_BIAS, DMB)), INT_MIN, INT_MAX)
  <2>1. call \in Calls /\ call.fn = "__fixdfsi" /\ Answer = Returned(call)
    BY <1>1, <1>3
  <2>2. A \in Doubles /\ Answer = __fixdfsi(A)
    BY <2>1, Arguments DEF Returned, A
  <2>3. QED BY <1>3, <2>2, FixdfsiIs
<1>4. ASSUME Done({"__fixunsdfdi"}), ~f64_is_nan(A)
      PROVE  Answer = Clamp(Toward0(A, Floor(A, F64_BIAS, DMB)), 0, 2^LB - 1)
  <2>1. call \in Calls /\ call.fn = "__fixunsdfdi" /\ Answer = Returned(call)
    BY <1>1, <1>4
  <2>2. A \in Doubles /\ Answer = __fixunsdfdi(A)
    BY <2>1, Arguments DEF Returned, A
  <2>3. __fixunsdfdi(A) = Clamp(Toward0(A, Floor(A, F64_BIAS, DMB)), 0, 2^LB - 1)
    BY <1>4, <2>2, FixunsdfdiIs, Zenon
  <2>4. QED BY <2>2, <2>3, Zenon
<1>5. ASSUME Done({"__floatsidf", "__floatunsidf", "__floatundidf", "__floatdidf"})
      PROVE  IF A = 0 THEN is_zero(Answer)
             ELSE LET ulp == 2^(Answer.e - F64_BIAS)
                      error == Abs(Abs(A) * F64_IMPLICIT - Worth(Answer))
                  IN /\ Answer.s = (IF A < 0 THEN 1 ELSE 0) /\ Answer.e >= F64_BIAS
                     /\ 2 * error <= ulp
                     /\ 2 * error = ulp => Answer.m % 2 = 0
                     /\ Abs(A) < 2 * F64_IMPLICIT => error = 0
  <2>1. CASE A = 0
    BY <1>5, <2>1, InvIntegers
  <2>2. CASE A # 0
    <3>1. Answer.s = (IF A < 0 THEN 1 ELSE 0) /\ NearestDouble(Answer, Abs(A))
      BY <1>5, <2>2, InvIntegers
    <3>2. 2^(Answer.e - F64_BIAS) = Pw(Answer.e - F64_BIAS)
          /\ Worth(Answer) = (F64_IMPLICIT + Answer.m) * Pw(Answer.e - F64_BIAS)
      BY Zenon DEF Worth, Pw
    <3>3. QED BY <2>2, <3>1, <3>2, Zenon DEF NearestDouble
  <2>3. QED BY <2>1, <2>2
<1>6. ASSUME Done({"__extendsfdf2"})
      PROVE  __truncdfsf2(Answer) = IF A.e = 0 THEN f32_zero(A.s) ELSE A
  <2>1. call \in Calls /\ call.fn = "__extendsfdf2" /\ Answer = Returned(call)
    BY <1>1, <1>6
  <2>2. A \in Floats /\ Answer = __extendsfdf2(A)
    BY <2>1, Arguments DEF Returned, A
  <2>3. QED BY <2>2, TruncExtend
<1>7. ASSUME Done({"__truncdfsf2"}), Normal(Answer)
      PROVE  LET back == __extendsfdf2(Answer)
             IN /\ back.s = A.s /\ back.e = A.e
                /\ back.m <= A.m /\ A.m < back.m + 2^Low
  <2>1. call \in Calls /\ call.fn = "__truncdfsf2" /\ Answer = Returned(call)
    BY <1>1, <1>7
  <2>2. A \in Doubles /\ Answer = __truncdfsf2(A)
    BY <2>1, Arguments DEF Returned, A
  <2>3. QED BY <1>7, <2>2, ExtendTrunc, Zenon
<1>8. QED
  BY <1>2, <1>3, <1>4, <1>5, <1>6, <1>7, Zenon DEF ConversionsRound

(* For all widths, comparisons order the numbers and conversions round.     *)
THEOREM ComparisonsOrderAll == FloatSpec => []ComparisonsOrder
BY FloatInductive, InvCompares, PTL

(* The same of conversions.                                                 *)
THEOREM ConversionsRoundAll == FloatSpec => []ConversionsRound
BY FloatInductive, InvConverts, PTL
-----------------------------------------------------------------------------
(* Rounding by guard, round and sticky bits.  v is m times u; or, if m has  *)
(* one of its two lowest bits, it lies between the multiples of 4 around m: *)
(* this is all that the rounding needs to know.                             *)
Near(v, m, u) ==
  IF m % 4 = 0 THEN v = m * u ELSE (m - (m % 4)) * u < v /\ v < (m - (m % 4) + 4) * u

(* v is m times u, or m has its sticky bit and v lies between the even      *)
(* numbers around m.                                                        *)
Stuck(v, m, u) == v = m * u \/ (m % 2 = 1 /\ (m - 1) * u < v /\ v < (m + 1) * u)

(* A number and the three bits below it.                                    *)
LEMMA Eighths ==
  ASSUME NEW m \in Nat
  PROVE  \E main \in Nat, c \in 0 .. 7 :
           /\ m = 8 * main + c /\ m \div 8 = main
           /\ m % 4 = (IF c < 4 THEN c ELSE c - 4)
           /\ m - (m % 4) = (IF c < 4 THEN 8 * main ELSE 8 * main + 4)
           /\ RoundsUp(m) <=> c > 4 \/ (c = 4 /\ main % 2 = 1)
<1> DEFINE main == m \div 8
           c == m % 8
<1>1. main \in Nat /\ c \in 0 .. 7 /\ m = 8 * main + c
  OBVIOUS
<1>2. m % 4 = (IF c < 4 THEN c ELSE c - 4) /\ (m \div 4) % 2 = (IF c < 4 THEN 0 ELSE 1)
  BY <1>1
<1>3. RoundsUp(m) <=> c > 4 \/ (c = 4 /\ main % 2 = 1)
  <2>1. RoundsUp(m) <=> (m \div 4) % 2 = 1 /\ (m % 4 # 0 \/ main % 2 = 1)
    BY DEF RoundsUp
  <2> HIDE DEF main, c
  <2>2. QED BY <1>1, <1>2, <2>1
<1> HIDE DEF main, c
<1>4. m \div 8 = main
  BY DEF main
<1>5. m - (m % 4) = (IF c < 4 THEN 8 * main ELSE 8 * main + 4)
  <2>1. PICK x \in Nat : x = m % 4
    BY <1>1, <1>2
  <2>2. QED BY <1>1, <1>2, <2>1
<1>6. QED
  BY <1>1, <1>2, <1>3, <1>4, <1>5

(* What the rounding decides of the number n, of which m is eighths of u.   *)
LEMMA Halves ==
  ASSUME NEW n \in Nat, NEW u \in Nat, u >= 1, NEW m \in Nat, Near(8 * n, m, u)
  PROVE  LET main == m \div 8
             p == main * u
         IN /\ main \in Nat /\ p \in Nat /\ p <= n /\ n <= p + u
            /\ RoundsUp(m) => 2 * n >= 2 * p + u /\ (2 * n = 2 * p + u => main % 2 = 1)
            /\ ~RoundsUp(m) => 2 * n <= 2 * p + u /\ (2 * n = 2 * p + u => main % 2 = 0)
<1>1. PICK main \in Nat, c \in 0 .. 7 :
        /\ m = 8 * main + c /\ m \div 8 = main
        /\ m % 4 = (IF c < 4 THEN c ELSE c - 4)
        /\ m - (m % 4) = (IF c < 4 THEN 8 * main ELSE 8 * main + 4)
        /\ RoundsUp(m) <=> c > 4 \/ (c = 4 /\ main % 2 = 1)
  BY Eighths
<1> DEFINE p == main * u
<1>2. p \in Nat
  BY <1>1, Times
<1>3. /\ (8 * main) * u = 8 * p /\ (8 * main + 4) * u = 8 * p + 4 * u
      /\ (8 * main + 8) * u = 8 * p + 8 * u
  BY <1>1
<1>4. CASE c = 0
  <2>1. m = 8 * main /\ m % 4 = 0
    BY <1>1, <1>4
  <2>2. 8 * n = 8 * p
    BY <1>3, <2>1 DEF Near
  <2> HIDE DEF p
  <2>3. n = p /\ ~RoundsUp(m)
    BY <1>1, <1>2, <1>4, <2>2
  <2>4. QED BY <1>1, <1>2, <2>3 DEF p
<1>5. CASE c \in 1 .. 3
  <2>1. m % 4 # 0 /\ m - (m % 4) = 8 * main
    BY <1>1, <1>5
  <2>2. 8 * p < 8 * n /\ 8 * n < 8 * p + 4 * u
    BY <1>3, <2>1 DEF Near
  <2> HIDE DEF p
  <2>3. p < n /\ 2 * n < 2 * p + u /\ ~RoundsUp(m)
    BY <1>1, <1>2, <1>5, <2>2
  <2>4. QED BY <1>1, <1>2, <2>3 DEF p
<1>6. CASE c = 4
  <2>1. m % 4 = 0 /\ m = 8 * main + 4
    BY <1>1, <1>6
  <2>2. 8 * n = 8 * p + 4 * u
    BY <1>3, <2>1 DEF Near
  <2> HIDE DEF p
  <2>3. 2 * n = 2 * p + u /\ (RoundsUp(m) <=> main % 2 = 1)
    BY <1>1, <1>2, <1>6, <2>2
  <2>4. main % 2 \in {0, 1}
    BY <1>1
  <2>5. QED BY <1>1, <1>2, <2>3, <2>4 DEF p
<1>7. CASE c \in 5 .. 7
  <2>1. m % 4 # 0 /\ m - (m % 4) = 8 * main + 4 /\ 8 * main + 4 + 4 = 8 * main + 8
    BY <1>1, <1>7
  <2>2. 8 * p + 4 * u < 8 * n /\ 8 * n < 8 * p + 8 * u
    BY <1>3, <2>1 DEF Near
  <2> HIDE DEF p
  <2>3. 2 * p + u < 2 * n /\ n < p + u /\ RoundsUp(m)
    BY <1>1, <1>2, <1>7, <2>2
  <2>4. QED BY <1>1, <1>2, <2>3 DEF p
<1>8. QED
  BY <1>4, <1>5, <1>6, <1>7

(* A sticky bit below a bit that is kept is enough.                         *)
LEMMA StuckIsNear ==
  ASSUME NEW v \in Int, NEW m \in Nat, NEW u \in Nat, u >= 1, Stuck(v, m, u)
  PROVE  Near(v, m, u)
<1> DEFINE r == m % 4
           k == m - r
<1>1. r \in 0 .. 3 /\ k \in Nat /\ m = k + r
  OBVIOUS
<1>2. /\ k * u <= m * u /\ (r >= 1 => k * u < m * u) /\ m * u < (k + 4) * u
  <2>1. k <= m /\ (r >= 1 => k < m) /\ m < k + 4
    BY <1>1
  <2> HIDE DEF r, k
  <2>2. k \in Int /\ m \in Int /\ k + 4 \in Int
    BY <1>1
  <2>3. QED BY <2>1, <2>2, Times
<1>3. CASE v = m * u
  <2>1. m % 4 = r /\ m - (m % 4) = k /\ (r = 0 \/ r >= 1)
    OBVIOUS
  <2> HIDE DEF r, k
  <2>2. QED BY <1>2, <1>3, <2>1 DEF Near
<1>4. CASE m % 2 = 1 /\ (m - 1) * u < v /\ v < (m + 1) * u
  <2>1. /\ r \in {1, 3} /\ k <= m - 1 /\ m + 1 <= k + 4
        /\ m % 4 = r /\ m - (m % 4) = k
    BY <1>4
  <2> HIDE DEF r, k
  <2>2. k * u <= (m - 1) * u /\ (m + 1) * u <= (k + 4) * u
    <3>1. k \in Int /\ m - 1 \in Int /\ m + 1 \in Int /\ k + 4 \in Int
      BY <1>1
    <3>2. QED BY <2>1, <3>1, Times
  <2>3. k * u < v /\ v < (k + 4) * u
    <3>1. {k * u, (m - 1) * u, (m + 1) * u, (k + 4) * u} \subseteq Int
      BY <1>1
    <3>2. QED BY <1>4, <2>2, <3>1
  <2>4. QED BY <2>1, <2>3 DEF Near
<1>5. QED
  BY <1>3, <1>4 DEF Stuck

(* Also after a shift by one to the left.                                   *)
LEMMA StuckIsNearTwice ==
  ASSUME NEW v \in Int, NEW m \in Nat, NEW u \in Nat, u >= 1, Stuck(v, m, 2 * u)
  PROVE  Near(v, 2 * m, u)
<1>1. CASE v = m * (2 * u)
  <2>1. v = (2 * m) * u
    BY <1>1
  <2>2. Stuck(v, 2 * m, u)
    BY <2>1 DEF Stuck
  <2>3. QED BY <2>2, StuckIsNear
<1>2. CASE m % 2 = 1 /\ (m - 1) * (2 * u) < v /\ v < (m + 1) * (2 * u)
  <2>1. (2 * m) % 4 = 2 /\ 2 * m - ((2 * m) % 4) = 2 * m - 2
    BY <1>2
  <2>2. (m - 1) * (2 * u) = (2 * m - 2) * u /\ (m + 1) * (2 * u) = (2 * m + 2) * u
    OBVIOUS
  <2>3. 2 * m - 2 + 4 = 2 * m + 2
    OBVIOUS
  <2>4. QED BY <1>2, <2>1, <2>2, <2>3 DEF Near
<1>3. QED
  BY <1>1, <1>2 DEF Stuck

(* In smaller units.                                                        *)
LEMMA StuckScales ==
  ASSUME NEW v \in Int, NEW m \in Nat, NEW u \in Nat, NEW k \in Nat, k >= 1, Stuck(v, m, u)
  PROVE  Stuck(v * k, m, u * k)
<1>1. CASE v = m * u
  <2>1. v * k = m * (u * k)
    BY <1>1
  <2>2. QED BY <2>1 DEF Stuck
<1>2. CASE m % 2 = 1 /\ (m - 1) * u < v /\ v < (m + 1) * u
  <2> DEFINE x == (m - 1) * u
             y == (m + 1) * u
  <2>1. x * k = (m - 1) * (u * k) /\ y * k = (m + 1) * (u * k) /\ x \in Int /\ y \in Int
    OBVIOUS
  <2>2. x < v /\ v < y
    BY <1>2
  <2> HIDE DEF x, y
  <2>3. x * k < v * k /\ v * k < y * k
    BY <2>1, <2>2, Times
  <2>4. QED BY <1>2, <2>1, <2>3 DEF Stuck
<1>3. QED
  BY <1>1, <1>2 DEF Stuck

(* A shift to the right with a sticky bit, of v / y in units of u.          *)
LEMMA Sticks ==
  ASSUME NEW v \in Nat, NEW y \in Nat \ {0}
  PROVE  LET m == OrSticky(v \div y, v % y)
         IN /\ m \in Nat /\ Stuck(v, m, y)
            /\ m = v \div y \/ (m = v \div y + 1 /\ (v \div y) % 2 = 0)
<1>1. PICK q \in Nat, r \in 0 .. y - 1 : v \div y = q /\ v % y = r /\ v = q * y + r
  BY Quotient
<1> DEFINE m == OrSticky(q, r)
<1>2. q * y \in Nat /\ (q + 1) * y = q * y + y /\ (q - 1) * y = q * y - y
      /\ (q + 2) * y = q * y + 2 * y
  BY Times
<1>3. CASE r = 0
  <2>1. m = q
    BY <1>3 DEF OrSticky
  <2>2. v = q * y
    BY <1>1, <1>2, <1>3
  <2>3. QED BY <1>1, <2>1, <2>2 DEF Stuck
<1>4. CASE r # 0 /\ q % 2 = 0
  <2>1. m = q + 1 /\ (q + 1) % 2 = 1 /\ q + 1 - 1 = q /\ q + 1 + 1 = q + 2
    BY <1>4 DEF OrSticky
  <2>2. q * y < v /\ v < (q + 2) * y
    BY <1>1, <1>2, <1>4
  <2>3. QED BY <1>1, <1>4, <2>1, <2>2 DEF Stuck
<1>5. CASE r # 0 /\ q % 2 = 1
  <2>1. m = q
    BY <1>5 DEF OrSticky
  <2>2. (q - 1) * y < v /\ v < (q + 1) * y
    BY <1>1, <1>2
  <2>3. QED BY <1>1, <1>5, <2>1, <2>2 DEF Stuck
<1>6. QED
  BY <1>3, <1>4, <1>5


-----------------------------------------------------------------------------
(* The numbers that a result may be rounded to.                             *)
LEMMA InfIs ==
  ASSUME NEW s \in {0, 1}
  PROVE  /\ f32_inf(s) \in Floats /\ f32_zero(s) \in Floats
         /\ Mag(f32_inf(s)) = F32_IMPLICIT * Pw(F32_EXP_MASK)
<1>1. f32_inf(s) \in Floats /\ f32_zero(s) \in Floats
  BY FloatFields DEF f32_inf, f32_zero, Num, Floats
<1>2. ExpOf(f32_inf(s)) = F32_EXP_MASK /\ MantOf(f32_inf(s)) = F32_IMPLICIT
  BY FloatFields DEF f32_inf, Num, ExpOf, MantOf
<1>3. QED
  BY <1>1, <1>2, MagIs

(* Least and most.                                                          *)
LEMMA EndsAre ==
  /\ Mag(Least) = 2 * F32_IMPLICIT /\ BelowLeast = 2 * F32_IMPLICIT - 1
  /\ Mag(Most) = (2 * F32_IMPLICIT - 1) * Pw(F32_EXP_MASK - 1)
  /\ Pw(F32_EXP_MASK) = 2 * Pw(F32_EXP_MASK - 1) /\ Pw(F32_EXP_MASK - 1) \in Nat
  /\ F32_EXP_MASK \in Nat /\ F32_EXP_MASK >= 3
<1>1. F32_EXP_MASK \in Nat /\ F32_EXP_MASK >= 3 /\ F32_IMPLICIT \in Nat /\ F32_IMPLICIT >= 8
  BY FloatFields
<1>2. Least \in Floats /\ ExpOf(Least) = 1 /\ MantOf(Least) = F32_IMPLICIT
  BY <1>1 DEF Least, Num, Floats, ExpOf, MantOf
<1>3. Most \in Floats /\ ExpOf(Most) = F32_EXP_MASK - 1 /\ MantOf(Most) = 2 * F32_IMPLICIT - 1
  BY <1>1 DEF Most, Num, Floats, ExpOf, MantOf
<1>4. Pw(1) = 2
  BY PwBasics
<1>5. Mag(Least) = F32_IMPLICIT * 2
  BY <1>2, <1>4, MagIs
<1>6. Mag(Most) = (2 * F32_IMPLICIT - 1) * Pw(F32_EXP_MASK - 1)
  BY <1>3, MagIs
<1>7. /\ Pw(F32_EXP_MASK - 1 + 1) = Pw(F32_EXP_MASK - 1) + Pw(F32_EXP_MASK - 1)
      /\ Pw(F32_EXP_MASK - 1) \in Nat /\ F32_EXP_MASK - 1 + 1 = F32_EXP_MASK
  <2>1. F32_EXP_MASK - 1 \in Nat /\ F32_EXP_MASK - 1 + 1 = F32_EXP_MASK
    BY <1>1
  <2>2. QED BY <2>1, PwBasics
<1>8. QED
  BY <1>1, <1>5, <1>6, <1>7 DEF BelowLeast

(* Each has a mantissa and an exponent, or is the one below the least.      *)
LEMMA GridIs ==
  ASSUME NEW g \in Grid
  PROVE  /\ g \in Nat
         /\ \/ g = 2 * F32_IMPLICIT - 1
            \/ \E m \in Nat, e \in Nat :
                 /\ m >= F32_IMPLICIT /\ m < 2 * F32_IMPLICIT /\ e >= 1 /\ e <= F32_EXP_MASK
                 /\ e = F32_EXP_MASK => m = F32_IMPLICIT
                 /\ g = m * Pw(e)
<1>1. CASE g \in {Mag(x) : x \in Normals}
  <2>1. PICK x \in Floats : Normal(x) /\ g = Mag(x)
    BY <1>1 DEF Normals
  <2>2. ExpOf(x) = x.e /\ MantOf(x) = F32_IMPLICIT + x.m
    BY <2>1 DEF Normal, ExpOf, MantOf
  <2>3. x.e < F32_EXP_MASK /\ x.e >= 1
    BY <2>1 DEF Normal
  <2>4. QED BY <2>1, <2>2, <2>3, MagIs, FloatIs, FloatFields
<1>2. CASE g = BelowLeast
  BY <1>2, FloatFields DEF BelowLeast
<1>3. CASE g = Mag(f32_inf(0))
  <2>1. g = F32_IMPLICIT * Pw(F32_EXP_MASK)
    BY <1>3, InfIs
  <2>2. F32_IMPLICIT \in Nat /\ F32_IMPLICIT >= 8 /\ F32_EXP_MASK \in Nat /\ F32_EXP_MASK >= 1
    BY FloatFields
  <2>3. Pw(F32_EXP_MASK) \in Nat
    BY <2>2, PwPositive
  <2>4. g \in Nat
    BY <2>1, <2>2, <2>3, Times
  <2>5. QED BY <2>1, <2>2, <2>4
<1>4. QED
  BY <1>1, <1>2, <1>3 DEF Grid

(* None of them lies between two neighbours of one exponent; nor, with the  *)
(* exponent 0, above the one below the least.                               *)
LEMMA GridGap ==
  ASSUME NEW g \in Grid, NEW main \in Nat, NEW e \in Nat, main < 2 * F32_IMPLICIT,
         IF e = 0 THEN main = 2 * F32_IMPLICIT - 1 ELSE main >= F32_IMPLICIT
  PROVE  g <= main * Pw(e) \/ g >= (main + 1) * Pw(e)
<1> DEFINE i == F32_IMPLICIT
           p == Pw(e)
<1>1. i \in Nat /\ i >= 8 /\ p \in Nat /\ p >= 1 /\ g \in Nat
  BY FloatFields, PwPositive, GridIs
<1>2. CASE e = 0
  <2>1. p = 1
    BY <1>2, PwBasics
  <2>2. main * p = main /\ (main + 1) * p = main + 1
    BY <2>1
  <2>3. QED BY <1>1, <2>2
<1>3. CASE e >= 1 /\ g = 2 * i - 1
  <2>1. 2 <= p
    <3>1. Pw(1) = 2
      BY PwBasics
    <3>2. QED BY <1>3, <3>1, PwMonotone
  <2> HIDE DEF p
  <2>2. main >= i
    BY <1>3
  <2> HIDE DEF i
  <2>3. 2 * main <= p * main
    BY <1>1, <2>1, Times
  <2>4. p * main = main * p
    BY <1>1
  <2>5. QED BY <1>1, <1>3, <2>2, <2>3, <2>4 DEF p
<1>4. CASE e >= 1 /\ \E m \in Nat, f \in Nat : m >= i /\ m < 2 * i /\ g = m * Pw(f)
  <2>1. PICK m \in Nat, f \in Nat : m >= i /\ m < 2 * i /\ g = m * Pw(f)
    BY <1>4
  <2> DEFINE q == Pw(f)
  <2>2. q \in Nat /\ q >= 1
    BY PwPositive
  <2>3. main >= i /\ main < 2 * i
    BY <1>4
  <2>4. CASE f = e
    <3>1. p = q
      BY <2>4
    <3> HIDE DEF p, q, i
    <3>2. m <= main => m * p <= main * p
      BY <1>1, <2>1, Times
    <3>3. main + 1 <= m => (main + 1) * p <= m * p
      BY <1>1, <2>1, Times
    <3>4. m <= main \/ main + 1 <= m
      BY <2>1
    <3>5. g = m * p
      BY <2>1, <3>1 DEF q
    <3>6. QED BY <3>2, <3>3, <3>4, <3>5 DEF p
  <2>5. CASE f < e
    <3>1. 2 * q <= p
      BY <2>5, PwMonotone
    <3>2. g = m * q
      BY <2>1
    <3> HIDE DEF p, q, i
    <3>3. m * q <= (2 * i) * q /\ (2 * q) * i <= p * i /\ i * p <= main * p
      <4>1. m <= 2 * i /\ 2 * i \in Nat /\ 2 * q \in Nat
        BY <1>1, <2>1, <2>2
      <4>2. QED BY <1>1, <2>1, <2>2, <2>3, <3>1, <4>1, Times
    <3>4. (2 * i) * q = (2 * q) * i /\ p * i = i * p
      BY <1>1, <2>2
    <3>5. {m * q, (2 * i) * q, p * i, main * p} \subseteq Int
      BY <1>1, <2>2
    <3>6. g <= main * p
      BY <3>2, <3>3, <3>4, <3>5
    <3>7. QED BY <3>6 DEF p
  <2>6. CASE e < f
    <3>1. 2 * p <= q
      BY <2>6, PwMonotone
    <3>2. g = m * q
      BY <2>1
    <3> HIDE DEF p, q, i
    <3>3. (main + 1) * p <= (2 * i) * p /\ (2 * p) * i <= q * i /\ i * q <= m * q
      <4>1. main + 1 <= 2 * i /\ 2 * i \in Nat /\ 2 * p \in Nat /\ main + 1 \in Nat
        BY <1>1, <2>3
      <4>2. QED BY <1>1, <2>1, <2>2, <2>3, <3>1, <4>1, Times
    <3>4. (2 * i) * p = (2 * p) * i /\ q * i = i * q
      BY <1>1, <2>2
    <3>5. {(main + 1) * p, (2 * i) * p, q * i, m * q} \subseteq Int
      BY <1>1, <2>2
    <3>6. g >= (main + 1) * p
      BY <3>2, <3>3, <3>4, <3>5
    <3>7. QED BY <3>6 DEF p
  <2>7. QED BY <2>4, <2>5, <2>6
<1>5. QED
  <2>1. e = 0 \/ e >= 1
    OBVIOUS
  <2>2. QED BY <1>2, <1>3, <1>4, <2>1, GridIs

(* The mantissa after rounding, before a carry is brought back.             *)
RoundedMain(m) == IF RoundsUp(m) THEN m \div 8 + 1 ELSE m \div 8

(* What the last steps make of a mantissa and an exponent.                  *)
LEMMA PackedIs ==
  ASSUME NEW s \in {0, 1}, NEW e \in Int, NEW m \in Nat, m < 16 * F32_IMPLICIT,
         e >= 1 => m >= 8 * F32_IMPLICIT
  PROVE  LET x == Packed(s, e, m)
             main == m \div 8
             carry == RoundedMain(m) = 2 * F32_IMPLICIT
         IN /\ x \in Floats /\ x.s = s /\ (x.e = 0 => x.m = 0)
            /\ main \in Nat /\ main < 2 * F32_IMPLICIT /\ (e >= 1 => main >= F32_IMPLICIT)
            /\ carry => main = 2 * F32_IMPLICIT - 1 /\ RoundsUp(m)
            /\ \/ is_zero(x) /\ e <= 0 /\ ~(e = 0 /\ carry)
               \/ /\ ~is_zero(x) /\ x.e = F32_EXP_MASK /\ x.m = 0
                  /\ e >= F32_EXP_MASK \/ (e = F32_EXP_MASK - 1 /\ carry)
               \/ /\ ~is_zero(x) /\ x.e # F32_EXP_MASK /\ e >= 0 /\ (e = 0 => carry)
                  /\ Mag(x) = RoundedMain(m) * Pw(e)
                  /\ x.m % 2 = RoundedMain(m) % 2
<1> DEFINE x == Packed(s, e, m)
           main == m \div 8
           k == RoundedMain(m)
           i == F32_IMPLICIT
           carry == k = 2 * i
           r == Rounded(e, m)
<1>1. i \in Nat /\ i >= 8 /\ i % 2 = 0 /\ F32_EXP_MASK \in Nat /\ F32_EXP_MASK >= 3
  BY FloatFields
<1>2. main \in Nat /\ main < 2 * i /\ (e >= 1 => main >= i)
  <2>1. m < 16 * i /\ (e >= 1 => m >= 8 * i)
    OBVIOUS
  <2> HIDE DEF i
  <2>2. QED BY <1>1, <2>1
<1>3. k \in Nat /\ k <= 2 * i /\ k >= main /\ (carry => main = 2 * i - 1 /\ RoundsUp(m))
  <2>1. k = main \/ (RoundsUp(m) /\ k = main + 1)
    BY DEF RoundedMain
  <2> HIDE DEF k, main, i
  <2>2. QED BY <1>1, <1>2, <2>1
<1>4. /\ r.e = (IF carry THEN e + 1 ELSE e)
      /\ r.main = (IF carry THEN i ELSE k)
  <2>1. CASE ~RoundsUp(m)
    <3>1. r = [e |-> e, main |-> main] /\ k = main
      BY <2>1 DEF Rounded, RoundedMain
    <3>2. ~carry
      BY <2>1, <1>3
    <3>3. QED BY <3>1, <3>2
  <2>2. CASE RoundsUp(m)
    <3>1. k = main + 1
      BY <2>2 DEF RoundedMain
    <3>2. r = IF carry THEN [e |-> e + 1, main |-> i] ELSE [e |-> e, main |-> k]
      BY <2>2, <3>1 DEF Rounded
    <3>3. QED BY <3>2
  <2>3. QED BY <2>1, <2>2
<1>5. x = IF r.e >= F32_EXP_MASK THEN f32_inf(s)
          ELSE IF r.e <= 0 THEN f32_zero(s)
          ELSE Num(s, r.e, r.main % i)
  BY DEF Packed
<1> HIDE DEF x, main, k, i, r
<1>6. CASE r.e >= F32_EXP_MASK
  <2>1. x = f32_inf(s)
    BY <1>5, <1>6
  <2>2. x \in Floats
    BY <2>1, InfIs
  <2>3. x.s = s /\ x.e = F32_EXP_MASK /\ x.m = 0 /\ ~is_zero(x)
    BY <1>1, <2>1 DEF f32_inf, Num, is_zero
  <2>4. e >= F32_EXP_MASK \/ (e = F32_EXP_MASK - 1 /\ carry)
    BY <1>1, <1>4, <1>6
  <2>5. QED BY <1>1, <1>2, <1>3, <2>2, <2>3, <2>4 DEF x, main, k, i
<1>7. CASE r.e <= 0
  <2>1. x = f32_zero(s)
    BY <1>1, <1>4, <1>5, <1>7
  <2>2. x \in Floats
    BY <2>1, InfIs
  <2>3. x.s = s /\ x.m = 0 /\ is_zero(x)
    BY <1>1, <2>1 DEF f32_zero, Num, is_zero
  <2>4. e <= 0 /\ ~(e = 0 /\ carry)
    BY <1>1, <1>4, <1>7
  <2>5. QED BY <1>1, <1>2, <1>3, <2>2, <2>3, <2>4 DEF x, main, k, i
<1>8. CASE r.e >= 1 /\ r.e < F32_EXP_MASK
  <2>1. x = Num(s, r.e, r.main % i)
    BY <1>1, <1>4, <1>5, <1>8
  <2>2. e >= 0 /\ (e = 0 => carry) /\ r.e \in Nat
    BY <1>4, <1>8
  <2>3. r.main \in Nat /\ r.main >= i /\ r.main < 2 * i /\ r.main % 2 = k % 2
    <3>1. CASE carry
      <4>1. (2 * i) % 2 = 0
        BY <1>1
      <4>2. QED BY <1>1, <1>4, <3>1, <4>1
    <3>2. CASE ~carry
      <4>1. e >= 1
        BY <1>4, <1>8, <3>2
      <4>2. k >= i /\ k # 2 * i
        BY <1>1, <1>2, <1>3, <3>2, <4>1
      <4>3. QED BY <1>1, <1>3, <1>4, <3>2, <4>2
    <3>3. QED BY <3>1, <3>2
  <2>4. r.main % i = r.main - i
    BY <1>1, <2>3, TopBit
  <2>5. x.s = s /\ x.e = r.e /\ x.m = r.main - i
    BY <2>1, <2>4 DEF Num
  <2>6. x \in Floats
    <3>1. r.main - i \in 0 .. i - 1 /\ r.e \in 0 .. F32_EXP_MASK
      BY <1>1, <1>8, <2>2, <2>3
    <3>2. QED BY <2>1, <2>4, <3>1 DEF Num, Floats, i
  <2>7. ~is_zero(x) /\ x.e # F32_EXP_MASK /\ x.e # 0
    BY <1>1, <1>8, <2>5 DEF is_zero
  <2>8. ExpOf(x) = r.e /\ MantOf(x) = r.main
    BY <1>1, <2>3, <2>5, <2>7 DEF ExpOf, MantOf, i
  <2>9. Mag(x) = r.main * Pw(r.e)
    BY <2>6, <2>8, MagIs
  <2>10. r.main * Pw(r.e) = k * Pw(e)
    <3>1. CASE carry
      <4>1. r.e = e + 1 /\ r.main = i /\ e \in Nat
        BY <1>4, <2>2, <3>1
      <4>2. Pw(e + 1) = Pw(e) + Pw(e) /\ Pw(e) \in Nat
        BY <4>1, PwBasics
      <4>3. i * (Pw(e) + Pw(e)) = (2 * i) * Pw(e)
        BY <1>1, <4>2
      <4>4. QED BY <3>1, <4>1, <4>2, <4>3
    <3>2. CASE ~carry
      BY <1>4, <3>2
    <3>3. QED BY <3>1, <3>2
  <2>11. x.m % 2 = k % 2
    BY <1>1, <2>3, <2>5
  <2>12. QED BY <1>1, <1>2, <1>3, <2>2, <2>5, <2>6, <2>7, <2>9, <2>10, <2>11 DEF x, main, k, i
<1>9. r.e \in Int
  BY <1>4
<1>10. QED
  BY <1>1, <1>6, <1>7, <1>8, <1>9


(* If m holds eighths of the exact number, with a sticky bit, then what is  *)
(* packed is that number rounded to nearest.                                *)
LEMMA PackedNearest ==
  ASSUME NEW s \in {0, 1}, NEW n \in Nat, NEW d \in Nat, d >= 1,
         NEW e \in Nat, NEW m \in Nat, m < 16 * F32_IMPLICIT,
         e >= 1 => m >= 8 * F32_IMPLICIT,
         Near(8 * n, m, Pw(e) * d)
  PROVE  Nearest(n, d, Packed(s, e, m))
<1> DEFINE x == Packed(s, e, m)
           main == m \div 8
           i == F32_IMPLICIT
           carry == RoundedMain(m) = 2 * i
           w == Pw(e)
           u == w * d
           p == main * u
<1>1. i \in Nat /\ i >= 8 /\ w \in Nat /\ w >= 1
  BY FloatFields, PwPositive
<1>2. u \in Nat /\ u >= 1
  <2> HIDE DEF w
  <2>1. w * d \in Nat /\ 1 * d <= w * d
    BY <1>1, Times
  <2>2. QED BY <2>1
<1>3. /\ main \in Nat /\ p \in Nat /\ p <= n /\ n <= p + u
      /\ RoundsUp(m) => 2 * n >= 2 * p + u /\ (2 * n = 2 * p + u => main % 2 = 1)
      /\ ~RoundsUp(m) => 2 * n <= 2 * p + u /\ (2 * n = 2 * p + u => main % 2 = 0)
  BY <1>2, Halves
<1>4. /\ x \in Floats /\ (x.e = 0 => x.m = 0)
      /\ main < 2 * i /\ (e >= 1 => main >= i)
      /\ carry => main = 2 * i - 1 /\ RoundsUp(m)
      /\ \/ is_zero(x) /\ e <= 0 /\ ~(e = 0 /\ carry)
         \/ /\ ~is_zero(x) /\ x.e = F32_EXP_MASK /\ x.m = 0
            /\ e >= F32_EXP_MASK \/ (e = F32_EXP_MASK - 1 /\ carry)
         \/ /\ ~is_zero(x) /\ x.e # F32_EXP_MASK /\ e >= 0 /\ (e = 0 => carry)
            /\ Mag(x) = RoundedMain(m) * w
            /\ x.m % 2 = RoundedMain(m) % 2
  BY PackedIs
<1>5. RoundedMain(m) = (IF RoundsUp(m) THEN main + 1 ELSE main)
  BY DEF RoundedMain
<1>6. p = (main * w) * d /\ p + u = ((main + 1) * w) * d
  <2> HIDE DEF w, main
  <2>1. QED BY <1>1, <1>3 DEF p, u
<1> HIDE DEF x, main, w, u, p
<1>7. CASE is_zero(x)
  <2>1. e = 0 /\ ~carry
    BY <1>4, <1>7
  <2>2. w = 1
    BY <2>1, PwBasics DEF w
  <2>3. p = main * d /\ p + d = (main + 1) * d /\ u = d
    BY <1>2, <1>3, <1>6, <2>2 DEF u
  <2>4. BelowLeast = 2 * i - 1 /\ Mag(Least) = 2 * i
    BY EndsAre
  <2> HIDE DEF i
  <2>5. CASE main + 1 <= 2 * i - 1
    <3>1. (main + 1) * d <= (2 * i - 1) * d
      BY <1>1, <1>3, <2>5, Times
    <3>2. (2 * i - 1) * d \in Int
      BY <1>1
    <3>3. n <= (2 * i - 1) * d
      BY <1>3, <2>3, <3>1, <3>2
    <3>4. n <= BelowLeast * d
      BY <2>4, <3>3
    <3>5. QED BY <1>7, <3>4 DEF Nearest, x
  <2>6. CASE main = 2 * i - 1
    <3>1. ~RoundsUp(m)
      BY <1>1, <1>5, <2>1, <2>6
    <3>2. main % 2 = 1
      BY <1>1, <2>6
    <3>3. 2 * n < 2 * p + d
      BY <1>3, <2>3, <3>1, <3>2
    <3>4. n - p < p + d - n
      BY <1>3, <3>3
    <3>5. Abs(n - p) < Abs(n - (p + d))
      BY <1>3, <3>3 DEF Abs
    <3>6. BelowLeast * d = p /\ Mag(Least) * d = p + d
      <4>1. main + 1 = 2 * i
        BY <1>1, <2>6
      <4>2. QED BY <2>3, <2>4, <2>6, <4>1
    <3>7. Nearer(n, d, BelowLeast, Mag(Least))
      BY <3>5, <3>6 DEF Nearer, Distance
    <3>8. QED BY <1>7, <3>7 DEF Nearest, x
  <2>7. QED BY <1>1, <1>3, <1>4, <2>5, <2>6 DEF i
<1>8. CASE ~is_zero(x) /\ x.e = F32_EXP_MASK
  <2>1. x.m = 0 /\ (e >= F32_EXP_MASK \/ (e = F32_EXP_MASK - 1 /\ carry))
    BY <1>4, <1>8
  <2>2. Mag(x) = i * Pw(F32_EXP_MASK)
    <3>1. ExpOf(x) = F32_EXP_MASK /\ MantOf(x) = i
      BY <1>1, <1>8, <2>1, EndsAre DEF ExpOf, MantOf
    <3>2. QED BY <1>4, <3>1, MagIs
  <2> DEFINE top == Pw(F32_EXP_MASK)
             below == Pw(F32_EXP_MASK - 1)
  <2>3. /\ top = 2 * below /\ below \in Nat /\ Mag(Most) = (2 * i - 1) * below
        /\ F32_EXP_MASK \in Nat /\ F32_EXP_MASK >= 3
    BY EndsAre
  <2>4. CASE e >= F32_EXP_MASK
    <3>1. top <= w /\ main >= i
      BY <1>4, <2>3, <2>4, PwMonotone DEF w
    <3> HIDE DEF top, below, i
    <3>2. top * i <= w * i /\ i * w <= main * w
      BY <1>1, <1>3, <2>3, <3>1, Times
    <3>3. i * top <= main * w /\ i * top \in Nat /\ main * w \in Nat
      <4>1. top * i = i * top /\ w * i = i * w /\ i * top \in Nat /\ i * w \in Nat /\ main * w \in Nat
        BY <1>1, <1>3, <2>3
      <4>2. QED BY <3>2, <4>1
    <3>4. (i * top) * d <= (main * w) * d
      BY <3>3, Times
    <3>5. (2 * i - 1) * below <= i * top /\ (2 * i - 1) * below \in Int
      <4>1. (2 * i - 1) * below <= (2 * i) * below
        BY <1>1, <2>3, Times
      <4>2. (2 * i) * below = i * top
        BY <1>1, <2>3
      <4>3. QED BY <1>1, <2>3, <4>1, <4>2
    <3>6. ((2 * i - 1) * below) * d <= (i * top) * d
      BY <3>3, <3>5, Times
    <3>7. {((2 * i - 1) * below) * d, (i * top) * d} \subseteq Int
      BY <3>3, <3>5
    <3>8. (i * top) * d <= n
      BY <1>3, <1>6, <3>4, <3>7
    <3>9. ~(Abs(n - ((2 * i - 1) * below) * d) < Abs(n - (i * top) * d))
      BY <3>6, <3>7, <3>8 DEF Abs
    <3>10. ~Nearer(n, d, Mag(Most), Mag(x))
      BY <2>2, <2>3, <3>9 DEF Nearer, Distance, top
    <3>11. QED BY <1>8, <2>1, <3>10 DEF Nearest, x
  <2>5. CASE e = F32_EXP_MASK - 1 /\ carry
    <3>1. main = 2 * i - 1 /\ RoundsUp(m) /\ w = below
      BY <1>4, <2>5 DEF w
    <3>2. Mag(Most) = main * w
      BY <2>3, <3>1
    <3>3. Mag(x) = (main + 1) * w
      <4>1. Mag(x) = i * top
        BY <2>2
      <4> HIDE DEF top, below, i
      <4>2. main + 1 = 2 * i
        BY <1>1, <3>1
      <4>3. (2 * i) * w = i * (2 * w)
        BY <1>1
      <4>4. QED BY <2>3, <3>1, <4>1, <4>2, <4>3
    <3>4. 2 * n >= 2 * p + u
      BY <1>3, <3>1
    <3>5. ~(Abs(n - p) < Abs(n - (p + u)))
      BY <1>2, <1>3, <3>4 DEF Abs
    <3>6. ~Nearer(n, d, Mag(Most), Mag(x))
      BY <1>6, <3>2, <3>3, <3>5 DEF Nearer, Distance
    <3>7. QED BY <1>8, <2>1, <3>6 DEF Nearest, x
  <2>6. QED BY <2>1, <2>4, <2>5
<1>9. CASE ~is_zero(x) /\ x.e # F32_EXP_MASK
  <2>1. Mag(x) = RoundedMain(m) * w /\ x.m % 2 = RoundedMain(m) % 2 /\ (e = 0 => carry)
    BY <1>4, <1>9
  <2>2. SUFFICES ASSUME NEW g \in Grid
                 PROVE  \/ g = Mag(x)
                        \/ Nearer(n, d, Mag(x), g)
                        \/ Distance(n, d, Mag(x)) = Distance(n, d, g) /\ x.m % 2 = 0
    BY <1>9 DEF Nearest, x
  <2>3. g <= main * w \/ g >= (main + 1) * w
    <3>1. IF e = 0 THEN main = 2 * i - 1 ELSE main >= i
      BY <1>4, <2>1
    <3>2. QED BY <1>3, <1>4, <3>1, GridGap DEF w
  <2> HIDE DEF i
  <2>4. g \in Nat /\ main * w \in Nat /\ (main + 1) * w \in Nat /\ main + 1 \in Nat
    BY <1>1, <1>3, GridIs, Times
  <2> DEFINE y == g * d
  <2>5. y \in Nat /\ (y <= p \/ y >= p + u)
    <3>1. g <= main * w => y <= (main * w) * d
      BY <2>4, Times
    <3>2. g >= (main + 1) * w => y >= ((main + 1) * w) * d
      BY <2>4, Times
    <3>3. y \in Nat
      BY <2>4, Times
    <3>4. QED BY <1>6, <2>3, <3>1, <3>2, <3>3
  <2>6. /\ y = p => g = main * w
        /\ y = p + u => g = (main + 1) * w
    <3>1. ASSUME NEW h \in Nat, g # h PROVE g * d # h * d
      <4>1. g < h \/ h < g
        BY <2>4, <3>1
      <4>2. g * d < h * d \/ h * d < g * d
        BY <2>4, <4>1, Times
      <4>3. g * d \in Int /\ h * d \in Int
        BY <2>4
      <4>4. QED BY <4>2, <4>3
    <3>2. QED BY <1>6, <2>4, <3>1
  <2> HIDE DEF y
  <2>7. p \in Nat /\ u \in Nat /\ p <= n /\ n <= p + u
    BY <1>2, <1>3
  <2>8. CASE RoundsUp(m)
    <3>1. Mag(x) = (main + 1) * w /\ Mag(x) * d = p + u /\ x.m % 2 = (main + 1) % 2
      BY <1>5, <1>6, <2>1, <2>8
    <3>2. 2 * n >= 2 * p + u /\ (2 * n = 2 * p + u => (main + 1) % 2 = 0)
      BY <1>3, <2>8
    <3>3. \/ y = p + u \/ Abs(n - (p + u)) < Abs(n - y)
          \/ Abs(n - (p + u)) = Abs(n - y) /\ 2 * n = 2 * p + u
      BY <2>5, <2>7, <3>2 DEF Abs
    <3>4. QED BY <2>6, <3>1, <3>2, <3>3 DEF Nearer, Distance, y
  <2>9. CASE ~RoundsUp(m)
    <3>1. Mag(x) = main * w /\ Mag(x) * d = p /\ x.m % 2 = main % 2
      BY <1>5, <1>6, <2>1, <2>9
    <3>2. 2 * n <= 2 * p + u /\ (2 * n = 2 * p + u => main % 2 = 0)
      BY <1>3, <2>9
    <3>3. \/ y = p \/ Abs(n - p) < Abs(n - y)
          \/ Abs(n - p) = Abs(n - y) /\ 2 * n = 2 * p + u
      BY <2>5, <2>7, <3>2 DEF Abs
    <3>4. QED BY <2>6, <3>1, <3>2, <3>3 DEF Nearer, Distance, y
  <2>10. QED BY <2>8, <2>9
<1>10. QED
  BY <1>7, <1>8, <1>9

(* If the exact number lies above main and below the next, and is not main  *)
(* itself where main is rounded up, then no number lies between it and what *)
(* is packed.                                                               *)
LEMMA PackedFaithful ==
  ASSUME NEW s \in {0, 1}, NEW n \in Nat, NEW d \in Nat, d >= 1,
         NEW e \in Nat, NEW m \in Nat, m < 16 * F32_IMPLICIT,
         e >= 1 => m >= 8 * F32_IMPLICIT,
         NEW main \in Nat, main = m \div 8,
         main * (Pw(e) * d) <= n, n < (main + 1) * (Pw(e) * d),
         RoundsUp(m) => main * (Pw(e) * d) < n,
         ~is_zero(Packed(s, e, m))
  PROVE  Faithful(n, d, Packed(s, e, m))
<1> DEFINE x == Packed(s, e, m)
           i == F32_IMPLICIT
           carry == RoundedMain(m) = 2 * i
           w == Pw(e)
<1>1. i \in Nat /\ i >= 8 /\ w \in Nat /\ w >= 1
  BY FloatFields, PwPositive
<1>2. /\ x \in Floats
      /\ main < 2 * i /\ (e >= 1 => main >= i)
      /\ carry => main = 2 * i - 1 /\ RoundsUp(m)
      /\ \/ /\ x.e = F32_EXP_MASK /\ x.m = 0
            /\ e >= F32_EXP_MASK \/ (e = F32_EXP_MASK - 1 /\ carry)
         \/ /\ e >= 0 /\ (e = 0 => carry)
            /\ Mag(x) = RoundedMain(m) * w
  BY PackedIs
<1>3. RoundedMain(m) = (IF RoundsUp(m) THEN main + 1 ELSE main)
  BY DEF RoundedMain
<1>4. /\ main * (w * d) = (main * w) * d /\ (main + 1) * (w * d) = ((main + 1) * w) * d
      /\ (main * w) * d \in Nat /\ ((main + 1) * w) * d \in Nat
      /\ main * w \in Nat /\ (main + 1) * w \in Nat
  <2> HIDE DEF w
  <2>1. main * w \in Nat /\ (main + 1) * w \in Nat
    BY <1>1, Times
  <2>2. (main * w) * d \in Nat /\ ((main + 1) * w) * d \in Nat
    BY <2>1, Times
  <2>3. main * (w * d) = (main * w) * d /\ (main + 1) * (w * d) = ((main + 1) * w) * d
    BY <1>1
  <2>4. QED BY <2>1, <2>2, <2>3
<1>5. /\ (main * w) * d <= n /\ n < ((main + 1) * w) * d
      /\ RoundsUp(m) => (main * w) * d < n
  BY <1>4
<1> HIDE DEF x, w
<1>6. ASSUME NEW g \in Grid PROVE g \in Nat /\ g * d \in Nat
  BY <1>6, GridIs, Times
<1>7. CASE Mag(x) = RoundedMain(m) * w /\ (e = 0 => carry)
  <2>1. SUFFICES ASSUME NEW g \in Grid
                 PROVE  ~(\/ (n <= g * d /\ g < Mag(x))
                          \/ (Mag(x) < g /\ g * d <= n))
    BY DEF Faithful, x
  <2>2. g <= main * w \/ g >= (main + 1) * w
    <3>1. IF e = 0 THEN main = 2 * i - 1 ELSE main >= i
      BY <1>2, <1>7
    <3>2. QED BY <1>2, <3>1, GridGap DEF w
  <2>3. /\ g <= main * w => g * d <= (main * w) * d
        /\ g >= (main + 1) * w => g * d >= ((main + 1) * w) * d
        /\ g \in Nat /\ g * d \in Nat
    <3>1. g \in Nat /\ g * d \in Nat
      BY <1>6
    <3>2. QED BY <1>4, <3>1, Times
  <2>4. main * w < (main + 1) * w
    BY <1>1, Times
  <2>5. CASE RoundsUp(m)
    <3>1. Mag(x) = (main + 1) * w
      BY <1>3, <1>7, <2>5
    <3>2. QED BY <1>4, <1>5, <2>2, <2>3, <2>4, <2>5, <3>1
  <2>6. CASE ~RoundsUp(m)
    <3>1. Mag(x) = main * w
      BY <1>3, <1>7, <2>6
    <3>2. QED BY <1>4, <1>5, <2>2, <2>3, <2>4, <2>6, <3>1
  <2>7. QED BY <2>5, <2>6
<1>8. ASSUME x.e = F32_EXP_MASK, x.m = 0
      PROVE  Mag(x) = i * Pw(F32_EXP_MASK)
  <2>1. ExpOf(x) = F32_EXP_MASK /\ MantOf(x) = i
    BY <1>1, <1>8, EndsAre DEF ExpOf, MantOf
  <2>2. QED BY <1>2, <2>1, MagIs
<1>9. CASE x.e = F32_EXP_MASK /\ x.m = 0 /\ e = F32_EXP_MASK - 1 /\ carry
  <2>1. main = 2 * i - 1 /\ RoundsUp(m) /\ w = Pw(F32_EXP_MASK - 1)
    BY <1>2, <1>9 DEF w
  <2>2. Mag(x) = i * Pw(F32_EXP_MASK) /\ Pw(F32_EXP_MASK) = 2 * Pw(F32_EXP_MASK - 1)
    BY <1>8, <1>9, EndsAre
  <2>3. Mag(x) = RoundedMain(m) * w
    <3>1. Mag(x) = i * (2 * w)
      BY <2>1, <2>2
    <3>2. RoundedMain(m) = 2 * i
      BY <1>9
    <3> HIDE DEF i
    <3>3. (2 * i) * w = i * (2 * w)
      BY <1>1
    <3>4. QED BY <3>1, <3>2, <3>3
  <2>4. e # 0
    BY <1>9, EndsAre
  <2>5. QED BY <1>7, <2>3, <2>4
<1>10. CASE x.e = F32_EXP_MASK /\ x.m = 0 /\ e >= F32_EXP_MASK
  <2> DEFINE top == Pw(F32_EXP_MASK)
  <2>1. F32_EXP_MASK \in Nat /\ F32_EXP_MASK >= 3
    BY EndsAre
  <2>2. top \in Nat /\ top >= 1 /\ top <= w /\ main >= i
    BY <1>2, <1>10, <2>1, PwMonotone, PwPositive DEF w
  <2>3. Mag(x) = i * top
    BY <1>8, <1>10
  <2>4. (i * top) * d <= n /\ i * top \in Nat
    <3> HIDE DEF top, i
    <3>1. top * i <= w * i /\ i * w <= main * w
      BY <1>1, <2>2, Times
    <3>2. top * i = i * top /\ w * i = i * w /\ i * top \in Nat /\ i * w \in Nat
      BY <1>1, <2>2
    <3>3. i * top <= main * w
      BY <1>4, <3>1, <3>2
    <3>4. (i * top) * d <= (main * w) * d /\ (i * top) * d \in Nat
      BY <1>4, <3>2, <3>3, Times
    <3>5. QED BY <1>4, <1>5, <3>2, <3>4
  <2>5. ASSUME NEW g \in Grid PROVE g <= i * top
    <3>1. g \in Nat
      BY <1>6
    <3>2. CASE g = 2 * i - 1
      <4>1. 2 <= top
        <5>1. Pw(1) = 2
          BY PwBasics
        <5>2. QED BY <2>1, <5>1, PwMonotone
      <4> HIDE DEF top, i
      <4>2. 2 * i <= top * i /\ top * i = i * top /\ i * top \in Nat
        BY <1>1, <2>2, <4>1, Times
      <4>3. QED BY <1>1, <3>2, <4>2
    <3>3. CASE \E k \in Nat, f \in Nat :
                 /\ k >= i /\ k < 2 * i /\ f >= 1 /\ f <= F32_EXP_MASK
                 /\ f = F32_EXP_MASK => k = i
                 /\ g = k * Pw(f)
      <4>1. PICK k \in Nat, f \in Nat :
                 /\ k >= i /\ k < 2 * i /\ f >= 1 /\ f <= F32_EXP_MASK
                 /\ f = F32_EXP_MASK => k = i
                 /\ g = k * Pw(f)
        BY <3>3
      <4>2. CASE f = F32_EXP_MASK
        BY <1>1, <2>4, <3>1, <4>1, <4>2
      <4>3. CASE f < F32_EXP_MASK
        <5> DEFINE q == Pw(f)
        <5>1. 2 * q <= top /\ q \in Nat
          BY <2>1, <4>3, PwMonotone, PwPositive
        <5>2. k <= 2 * i /\ g = k * q
          BY <1>1, <4>1
        <5> HIDE DEF q, top, i
        <5>3. k * q <= (2 * i) * q /\ (2 * q) * i <= top * i
          BY <1>1, <2>2, <5>1, <5>2, Times
        <5>4. (2 * i) * q = (2 * q) * i /\ top * i = i * top /\ i * top \in Nat /\ (2 * q) * i \in Nat
          BY <1>1, <2>2, <5>1
        <5>5. QED BY <3>1, <5>2, <5>3, <5>4
      <4>4. QED BY <2>1, <4>1, <4>2, <4>3
    <3>4. QED BY <3>2, <3>3, GridIs
  <2>6. ASSUME NEW g \in Grid, g < i * top PROVE g * d < n
    <3>1. g \in Nat /\ g * d \in Nat
      BY <1>6
    <3> HIDE DEF top, i
    <3>2. g * d < (i * top) * d /\ (i * top) * d \in Nat
      BY <2>4, <2>6, <3>1, Times
    <3>3. QED BY <2>4, <3>1, <3>2
  <2>7. SUFFICES ASSUME NEW g \in Grid
                 PROVE  ~(\/ (n <= g * d /\ g < Mag(x))
                          \/ (Mag(x) < g /\ g * d <= n))
    BY DEF Faithful, x
  <2>8. g \in Nat /\ g * d \in Nat
    BY <1>6
  <2> HIDE DEF top, i
  <2>9. QED BY <2>3, <2>4, <2>5, <2>6, <2>8
<1>11. QED
  BY <1>2, <1>7, <1>9, <1>10


-----------------------------------------------------------------------------
(* Addition.  Even numbers may be added.                                    *)
LEMMA StuckSum ==
  ASSUME NEW w \in Int, NEW m \in Nat, NEW y \in Nat, NEW k \in Int, k % 2 = 0, Stuck(w, m, y),
         NEW z \in Int, z = k * y + w, NEW r \in Nat, r = k + m
  PROVE  Stuck(z, r, y)
<1>1. /\ (k + m) * y = k * y + m * y
      /\ (k + m - 1) * y = k * y + (m - 1) * y /\ (k + m + 1) * y = k * y + (m + 1) * y
      /\ {k * y, m * y, (m - 1) * y, (m + 1) * y} \subseteq Int
  OBVIOUS
<1>2. CASE w = m * y
  BY <1>1, <1>2 DEF Stuck
<1>3. CASE m % 2 = 1 /\ (m - 1) * y < w /\ w < (m + 1) * y
  <2>1. r % 2 = 1
    BY <1>3
  <2>2. k * y + (m - 1) * y < k * y + w /\ k * y + w < k * y + (m + 1) * y
    BY <1>1, <1>3
  <2>3. QED BY <1>1, <2>1, <2>2 DEF Stuck
<1>4. QED
  BY <1>2, <1>3 DEF Stuck

(* And taken from.                                                          *)
LEMMA StuckDifference ==
  ASSUME NEW w \in Int, NEW m \in Nat, NEW y \in Nat, NEW k \in Int, k % 2 = 0, Stuck(w, m, y),
         NEW z \in Int, z = k * y - w, NEW r \in Nat, r = k - m
  PROVE  Stuck(z, r, y)
<1>1. /\ (k - m) * y = k * y - m * y
      /\ (k - m - 1) * y = k * y - (m + 1) * y /\ (k - m + 1) * y = k * y - (m - 1) * y
      /\ {k * y, m * y, (m - 1) * y, (m + 1) * y} \subseteq Int
  OBVIOUS
<1>2. CASE w = m * y
  BY <1>1, <1>2 DEF Stuck
<1>3. CASE m % 2 = 1 /\ (m - 1) * y < w /\ w < (m + 1) * y
  <2>1. r % 2 = 1
    BY <1>3
  <2>2. k * y - (m + 1) * y < k * y - w /\ k * y - w < k * y - (m - 1) * y
    BY <1>1, <1>3
  <2>3. QED BY <1>1, <2>1, <2>2 DEF Stuck
<1>4. QED
  BY <1>2, <1>3 DEF Stuck

(* A shift by one to the right keeps a sticky bit.                          *)
LEMMA StuckHalf ==
  ASSUME NEW v \in Int, NEW m \in Nat, NEW u \in Nat, Stuck(v, m, u)
  PROVE  LET h == OrSticky(m \div 2, m % 2)
         IN /\ h \in Nat /\ Stuck(v, h, 2 * u)
            /\ h = m \div 2 \/ (h = m \div 2 + 1 /\ (m \div 2) % 2 = 0)
<1>1. PICK q \in Nat, r \in 0 .. 1 : m \div 2 = q /\ m % 2 = r /\ m = 2 * q + r
  <2>1. m \div 2 \in Nat /\ m % 2 \in 0 .. 1 /\ m = 2 * (m \div 2) + (m % 2)
    OBVIOUS
  <2>2. QED BY <2>1
<1> DEFINE h == OrSticky(q, r)
<1>2. /\ (2 * q) * u = q * (2 * u) /\ (2 * q + 1 - 1) * u = q * (2 * u)
      /\ (2 * q + 1 + 1) * u = (q + 1) * (2 * u) /\ (2 * q + 1) * u = q * (2 * u) + u
      /\ (q + 1) * (2 * u) = q * (2 * u) + 2 * u /\ (q - 1) * (2 * u) = q * (2 * u) - 2 * u
      /\ (q + 2) * (2 * u) = q * (2 * u) + 4 * u /\ q * (2 * u) \in Nat
  <2>1. q * (2 * u) \in Nat
    BY Times
  <2>2. QED BY <2>1
<1>3. CASE r = 0
  <2>1. m = 2 * q /\ h = q
    BY <1>1, <1>3 DEF OrSticky
  <2>2. v = m * u
    BY <1>1, <1>3 DEF Stuck
  <2>3. v = q * (2 * u)
    BY <1>2, <2>1, <2>2
  <2>4. QED BY <1>1, <2>1, <2>3 DEF Stuck
<1>4. CASE r = 1
  <2>1. m = 2 * q + 1
    BY <1>1, <1>4
  <2>2. CASE v = m * u /\ u = 0
    <3>1. v = 0 /\ 2 * u = 0
      BY <2>2
    <3>2. \A x \in Nat : x * 0 = 0
      OBVIOUS
    <3>3. h \in Nat /\ (h = q \/ (h = q + 1 /\ q % 2 = 0))
      BY DEF OrSticky
    <3>4. QED BY <1>1, <3>1, <3>2, <3>3 DEF Stuck
  <2>3. CASE u >= 1 \/ v # m * u
    <3>1. q * (2 * u) < v /\ v < (q + 1) * (2 * u)
      <4>1. m * u = q * (2 * u) + u /\ (m - 1) * u = q * (2 * u) /\ (m + 1) * u = q * (2 * u) + 2 * u
        BY <1>2, <2>1
      <4>2. CASE v = m * u
        BY <1>2, <2>3, <4>1, <4>2
      <4>3. CASE (m - 1) * u < v /\ v < (m + 1) * u
        BY <1>2, <4>1, <4>3
      <4>4. QED BY <4>2, <4>3 DEF Stuck
    <3>2. CASE q % 2 = 0
      <4>1. h = q + 1 /\ (q + 1) % 2 = 1 /\ q + 1 - 1 = q /\ q + 1 + 1 = q + 2
        BY <1>4, <3>2 DEF OrSticky
      <4>2. v < (q + 2) * (2 * u)
        BY <1>2, <3>1
      <4>3. QED BY <1>1, <3>1, <3>2, <4>1, <4>2 DEF Stuck
    <3>3. CASE q % 2 = 1
      <4>1. h = q
        BY <3>3 DEF OrSticky
      <4>2. (q - 1) * (2 * u) < v
        BY <1>2, <3>1
      <4>3. QED BY <1>1, <3>1, <3>3, <4>1, <4>2 DEF Stuck
    <3>4. QED BY <3>2, <3>3
  <2>4. QED BY <2>2, <2>3
<1>5. QED
  BY <1>3, <1>4

(* The powers of two that addition compares with.                           *)
LEMMA AddPowers ==
  /\ Pw(1) = 2 /\ Pw(2) = 4 /\ Pw(3) = 8 /\ Pw(4) = 16
  /\ Pw(MB + 3) = 8 * F32_IMPLICIT /\ Pw(MB + 4) = 16 * F32_IMPLICIT
  /\ MB + 3 \in Nat /\ MB + 4 \in Nat
<1>1. Pw(0 + 1) = 2 /\ Pw(1 + 1) = 4 /\ Pw(2 + 1) = 8 /\ Pw(3 + 1) = 16
  BY PwBasics
<1>2. Pw(1) = 2 /\ Pw(2) = 4 /\ Pw(3) = 8 /\ Pw(4) = 16
  BY <1>1
<1>3. MB \in Nat /\ F32_IMPLICIT = Pw(MB) /\ F32_IMPLICIT \in Nat
  BY FieldWidths, FloatFields
<1>4. Pw(MB + 3) = Pw(MB) * 8 /\ Pw(MB + 4) = Pw(MB) * 16
  BY <1>2, <1>3, PwSum
<1>5. QED
  BY <1>2, <1>3, <1>4

(* A normal number.                                                         *)
LEMMA NormalIs ==
  ASSUME NEW a \in Floats, Normal(a)
  PROVE  /\ ~f32_is_nan(a) /\ ~f32_is_inf(a) /\ ~is_zero(a)
         /\ ExpOf(a) \in Nat /\ ExpOf(a) >= 1 /\ ExpOf(a) = a.e
         /\ MantOf(a) \in Nat /\ MantOf(a) >= F32_IMPLICIT /\ MantOf(a) < 2 * F32_IMPLICIT
         /\ Mag(a) = MantOf(a) * Pw(ExpOf(a)) /\ Mag(a) \in Nat /\ Mag(a) >= 1
         /\ a.s \in {0, 1}
<1>1. a.e # 0 /\ a.e # F32_EXP_MASK
  BY FloatIs, FloatFields DEF Normal
<1>2. ~f32_is_nan(a) /\ ~f32_is_inf(a) /\ ~is_zero(a)
  BY <1>1 DEF f32_is_nan, f32_is_inf, is_zero
<1>3. ExpOf(a) = a.e /\ MantOf(a) = F32_IMPLICIT + a.m
  BY <1>1 DEF ExpOf, MantOf
<1>4. QED
  BY <1>2, <1>3, MagIs, FloatIs, FloatFields

(* The lower of two numbers, shifted to the exponent of the other.          *)
Aligned(hi, lo) ==
  LET diff == ExpOf(hi) - ExpOf(lo)
  IN IF diff >= ShiftCap THEN 1 ELSE ShiftRight(MantOf(lo) * 8, diff)

(* It has a sticky bit; and unless it is exact, it is far smaller.          *)
LEMMA AlignedIs ==
  ASSUME NEW hi \in Floats, NEW lo \in Floats, Normal(hi), Normal(lo), ExpOf(lo) <= ExpOf(hi)
  PROVE  LET y == Pw(ExpOf(hi) - ExpOf(lo))
             w == MantOf(lo) * 8
             ml == Aligned(hi, lo)
         IN /\ ml \in Nat /\ ml < 16 * F32_IMPLICIT /\ Stuck(w, ml, y)
            /\ w # ml * y => ml <= F32_IMPLICIT
            /\ ml > 8 * F32_IMPLICIT => y = 1 /\ w = ml
<1> DEFINE diff == ExpOf(hi) - ExpOf(lo)
           y == Pw(diff)
           w == MantOf(lo) * 8
           ml == Aligned(hi, lo)
           i == F32_IMPLICIT
<1>1. /\ diff \in Nat /\ i \in Nat /\ i >= 8 /\ y \in Nat /\ y >= 1
      /\ w \in Nat /\ w >= 8 * i /\ w < 16 * i /\ w = 8 * MantOf(lo) /\ MantOf(lo) \in Nat
  <2>1. ExpOf(hi) \in Nat /\ ExpOf(lo) \in Nat /\ diff \in Nat
    BY NormalIs
  <2>2. y \in Nat /\ y >= 1
    BY <2>1, PwPositive
  <2>3. QED BY <2>1, <2>2, NormalIs, FloatFields
<1>2. CASE diff >= ShiftCap
  <2>1. ml = 1
    BY <1>2 DEF Aligned
  <2>2. Pw(MB + 4) <= y
    <3>1. MB + 4 <= diff
      BY <1>1, <1>2, FieldWidths
    <3>2. QED BY <1>1, <3>1, AddPowers, PwMonotone
  <2>3. w < y
    BY <1>1, <2>2, AddPowers
  <2> HIDE DEF y, w, ml, i
  <2>4. (1 - 1) * y = 0 /\ (1 + 1) * y = 2 * y /\ 1 % 2 = 1
    BY <1>1
  <2>5. Stuck(w, 1, y)
    BY <1>1, <2>3, <2>4 DEF Stuck
  <2>6. QED BY <1>1, <2>1, <2>5 DEF y, w, ml, i
<1>3. CASE diff < ShiftCap
  <2>1. ml = OrSticky(w \div y, w % y)
    <3>1. ml = ShiftRight(w, diff)
      BY <1>1, <1>3, FieldWidths DEF Aligned
    <3>2. QED BY <3>1, Zenon DEF ShiftRight, Pw
  <2>2. PICK q \in Nat, r \in 0 .. y - 1 : w \div y = q /\ w % y = r /\ w = q * y + r
    <3>1. y \in Nat \ {0}
      BY <1>1
    <3>2. QED BY <1>1, <3>1, Quotient
  <2>3. ml \in Nat /\ Stuck(w, ml, y) /\ (ml = q \/ (ml = q + 1 /\ q % 2 = 0))
    <3>1. y \in Nat \ {0}
      BY <1>1
    <3> HIDE DEF y, w, ml
    <3>2. QED BY <1>1, <2>1, <2>2, <3>1, Sticks
  <2>4. CASE diff = 0
    <3>1. y = 1
      BY <2>4, PwBasics
    <3> HIDE DEF y, w, ml, i
    <3>2. w = q /\ r = 0
      BY <1>1, <2>2, <3>1
    <3>3. ml = w
      BY <1>1, <2>1, <2>2, <3>2 DEF OrSticky
    <3>4. w = ml * y
      BY <1>1, <3>1, <3>3
    <3>5. QED BY <1>1, <2>3, <3>1, <3>3, <3>4 DEF y, w, ml, i
  <2>5. CASE diff \in {1, 2, 3}
    <3>1. y \in {2, 4, 8}
      BY <2>5, AddPowers
    <3> DEFINE k == MantOf(lo)
    <3> HIDE DEF y, w, ml, i, k
    <3>2. r = 0 /\ q <= 4 * k
      <4>1. w = 8 * k /\ k \in Nat
        BY <1>1 DEF k
      <4>2. CASE y = 2
        BY <2>2, <4>1, <4>2
      <4>3. CASE y = 4
        BY <2>2, <4>1, <4>3
      <4>4. CASE y = 8
        BY <2>2, <4>1, <4>4
      <4>5. QED BY <3>1, <4>2, <4>3, <4>4
    <3>3. ml = q
      BY <2>1, <2>2, <3>2 DEF OrSticky
    <3>4. w = ml * y
      BY <1>1, <2>2, <3>2, <3>3, Times
    <3>5. ml < 8 * i
      BY <1>1, <2>2, <3>2, <3>3 DEF k
    <3>6. QED BY <1>1, <2>3, <3>4, <3>5 DEF y, w, ml, i
  <2>6. CASE diff >= 4
    <3>1. 16 <= y
      BY <1>1, <2>6, AddPowers, PwMonotone
    <3> HIDE DEF y, w, ml, i
    <3>2. 16 * q <= y * q /\ y * q = q * y
      BY <1>1, <2>2, <3>1, Times
    <3>3. 16 * q <= w
      BY <1>1, <2>2, <3>2
    <3>4. ml <= i
      BY <1>1, <2>2, <2>3, <3>3
    <3>5. QED BY <1>1, <2>3, <3>4 DEF y, w, ml, i
  <2>7. diff = 0 \/ diff \in {1, 2, 3} \/ diff >= 4
    BY <1>1
  <2>8. QED BY <2>4, <2>5, <2>6, <2>7
<1>4. QED
  BY <1>1, <1>2, <1>3, FieldWidths


(* What AddFinite computes once the larger exponent is known.               *)
Added(hi, lo) ==
  LET mh == MantOf(hi) * 8
      ml == Aligned(hi, lo)
      sum == mh + ml
      rest == IF mh >= ml THEN mh - ml ELSE ml - mh
      shift == LeastShift(rest, MB + 3)
      steps == IF shift < ExpOf(hi) THEN shift ELSE ExpOf(hi)
  IN IF hi.s = lo.s
     THEN IF sum >= 2^(MB + 4) THEN Packed(hi.s, ExpOf(hi) + 1, ShiftRight(sum, 1))
                               ELSE Packed(hi.s, ExpOf(hi), sum)
     ELSE IF rest = 0 THEN f32_zero(0)
     ELSE Packed(IF mh >= ml THEN hi.s ELSE lo.s, ExpOf(hi) - steps, rest * 2^steps)

(* It is what the code computes.                                            *)
LEMMA AddFiniteIs ==
  ASSUME NEW a, NEW b
  PROVE  AddFinite(a, b) = IF ExpOf(b) > ExpOf(a) THEN Added(b, a) ELSE Added(a, b)
<1>1. CASE ExpOf(b) > ExpOf(a)
  BY <1>1, Zenon DEF AddFinite, Added, Aligned
<1>2. CASE ~(ExpOf(b) > ExpOf(a))
  BY <1>2, Zenon DEF AddFinite, Added, Aligned
<1>3. QED
  BY <1>1, <1>2

(* A sum of numbers of one sign.                                            *)
LEMMA SumIsNearest ==
  ASSUME NEW hi \in Floats, NEW lo \in Floats, Normal(hi), Normal(lo), ExpOf(lo) <= ExpOf(hi),
         hi.s = lo.s
  PROVE  LET x == Added(hi, lo)
         IN /\ x \in Floats /\ x.s = hi.s /\ (x.e = 0 => x.m = 0)
            /\ Nearest(Mag(hi) + Mag(lo), 1, x)
<1> DEFINE e == ExpOf(hi)
           y == Pw(e - ExpOf(lo))
           u == Pw(ExpOf(lo))
           mh == MantOf(hi) * 8
           w == MantOf(lo) * 8
           ml == Aligned(hi, lo)
           i == F32_IMPLICIT
           sum == mh + ml
           n == Mag(hi) + Mag(lo)
           v == mh * y + w
           x == Added(hi, lo)
<1>1. /\ e \in Nat /\ e >= 1 /\ ExpOf(lo) \in Nat /\ e - ExpOf(lo) \in Nat
      /\ MantOf(hi) \in Nat /\ mh \in Nat /\ mh >= 8 * i /\ mh < 16 * i /\ mh % 2 = 0
      /\ MantOf(lo) \in Nat /\ w \in Nat /\ i \in Nat /\ i >= 8
      /\ n \in Nat /\ hi.s \in {0, 1}
  BY NormalIs, FloatFields
<1>2. y \in Nat /\ y >= 1 /\ u \in Nat /\ u >= 1 /\ y * u = Pw(e)
  <2>1. y \in Nat /\ y >= 1 /\ u \in Nat /\ u >= 1
    BY <1>1, PwPositive
  <2>2. Pw(e - ExpOf(lo) + ExpOf(lo)) = y * u
    BY <1>1, PwSum
  <2>3. e - ExpOf(lo) + ExpOf(lo) = e
    BY <1>1
  <2>4. QED BY <2>1, <2>2, <2>3
<1>3. ml \in Nat /\ ml < 16 * i /\ Stuck(w, ml, y)
  BY AlignedIs
<1>4. sum \in Nat /\ sum >= 8 * i /\ sum < 32 * i
  BY <1>1, <1>3
<1>5. v \in Int /\ 8 * n = v * u
  <2>1. Mag(hi) = MantOf(hi) * (y * u) /\ Mag(lo) = MantOf(lo) * u
    BY <1>2, NormalIs
  <2> DEFINE h == MantOf(hi)
             k == MantOf(lo)
  <2>2. n = h * (y * u) + k * u /\ v = (h * 8) * y + k * 8
    BY <2>1
  <2>3. h \in Nat /\ k \in Nat
    BY <1>1
  <2> HIDE DEF n, v, h, k, y, u
  <2>4. 8 * (h * (y * u) + k * u) = ((h * 8) * y + k * 8) * u
    BY <1>2, <2>3
  <2>5. (h * 8) * y + k * 8 \in Int
    BY <1>2, <2>3
  <2>6. QED BY <2>2, <2>4, <2>5
<1> HIDE DEF e, y, u, mh, w, ml, i, n
<1>6. Stuck(v, sum, y)
  <2>1. v = mh * y + w /\ sum = mh + ml
    OBVIOUS
  <2> HIDE DEF v, sum
  <2>2. mh \in Int /\ w \in Int
    BY <1>1
  <2>3. QED BY <1>1, <1>2, <1>3, <1>4, <1>5, <2>1, <2>2, StuckSum
<1> HIDE DEF v, sum
<1>7. Stuck(8 * n, sum, Pw(e))
  <2>1. Stuck(v * u, sum, y * u)
    BY <1>2, <1>4, <1>5, <1>6, StuckScales
  <2>2. QED BY <1>2, <1>5, <2>1
<1>8. 2^(MB + 4) = 16 * i /\ Pw(e) \in Nat /\ Pw(e) >= 1 /\ Pw(e + 1) = 2 * Pw(e) /\ Pw(e + 1) \in Nat
  <2>1. Pw(MB + 4) = 16 * i
    BY AddPowers DEF i
  <2>2. Pw(MB + 4) = 2^(MB + 4)
    BY Zenon DEF Pw
  <2>3. Pw(e) \in Nat /\ Pw(e) >= 1 /\ Pw(e + 1) = Pw(e) + Pw(e)
    BY <1>1, PwPositive, PwBasics
  <2>4. QED BY <2>1, <2>2, <2>3
<1>9. ASSUME NEW f \in Nat, f >= 1, NEW m \in Nat, m >= 8 * i, m < 16 * i,
             Stuck(8 * n, m, Pw(f)), x = Packed(hi.s, f, m)
      PROVE  x \in Floats /\ x.s = hi.s /\ (x.e = 0 => x.m = 0) /\ Nearest(n, 1, x)
  <2>1. Pw(f) \in Nat /\ Pw(f) >= 1
    BY PwPositive
  <2>2. Pw(f) * 1 = Pw(f)
    BY <2>1
  <2>3. Near(8 * n, m, Pw(f) * 1)
    BY <1>1, <1>9, <2>1, <2>2, StuckIsNear
  <2>4. Nearest(n, 1, Packed(hi.s, f, m))
    BY <1>1, <1>9, <2>3, PackedNearest DEF i
  <2>5. /\ Packed(hi.s, f, m) \in Floats /\ Packed(hi.s, f, m).s = hi.s
        /\ Packed(hi.s, f, m).e = 0 => Packed(hi.s, f, m).m = 0
    BY <1>1, <1>9, PackedIs DEF i
  <2>6. QED BY <1>9, <2>4, <2>5
<1>10. CASE sum < 16 * i
  <2>1. x = Packed(hi.s, e, sum)
    BY <1>1, <1>4, <1>8, <1>10 DEF Added, sum, mh, ml, e
  <2> HIDE DEF x
  <2>2. QED BY <1>1, <1>4, <1>7, <1>9, <1>10, <2>1 DEF n, x
<1>11. CASE sum >= 16 * i
  <2> DEFINE h == OrSticky(sum \div 2, sum % 2)
  <2>1. x = Packed(hi.s, e + 1, ShiftRight(sum, 1))
    BY <1>1, <1>4, <1>8, <1>11 DEF Added, sum, mh, ml, e
  <2>2. ShiftRight(sum, 1) = h
    <3>1. 2^1 = 2
      BY AddPowers DEF Pw
    <3>2. QED BY <3>1 DEF ShiftRight
  <2>3. /\ h \in Nat /\ Stuck(8 * n, h, 2 * Pw(e))
        /\ h = sum \div 2 \/ (h = sum \div 2 + 1 /\ (sum \div 2) % 2 = 0)
    BY <1>1, <1>4, <1>7, <1>8, StuckHalf
  <2> HIDE DEF h, x
  <2>4. h >= 8 * i /\ h < 16 * i
    <3>1. sum \div 2 >= 8 * i /\ sum \div 2 < 16 * i /\ sum \div 2 \in Nat
      BY <1>1, <1>4, <1>11
    <3>2. QED BY <1>1, <2>3, <3>1
  <2>5. e + 1 \in Nat /\ e + 1 >= 1
    BY <1>1
  <2>6. QED BY <1>8, <1>9, <2>1, <2>2, <2>3, <2>4, <2>5 DEF n, x
<1>12. QED
  BY <1>1, <1>4, <1>10, <1>11

(* A difference.                                                            *)
LEMMA DifferenceIsNearest ==
  ASSUME NEW hi \in Floats, NEW lo \in Floats, Normal(hi), Normal(lo), ExpOf(lo) <= ExpOf(hi),
         hi.s # lo.s
  PROVE  LET x == Added(hi, lo)
             d == Mag(hi) - Mag(lo)
         IN /\ x \in Floats /\ (x.e = 0 => x.m = 0)
            /\ x.s = (IF d = 0 THEN 0 ELSE IF d > 0 THEN hi.s ELSE lo.s)
            /\ Nearest(Abs(d), 1, x)
<1> DEFINE e == ExpOf(hi)
           y == Pw(e - ExpOf(lo))
           u == Pw(ExpOf(lo))
           mh == MantOf(hi) * 8
           w == MantOf(lo) * 8
           ml == Aligned(hi, lo)
           i == F32_IMPLICIT
           d == Mag(hi) - Mag(lo)
           large == mh >= ml
           rest == IF large THEN mh - ml ELSE ml - mh
           v == IF large THEN mh * y - w ELSE w - mh * y
           x == Added(hi, lo)
<1>1. /\ e \in Nat /\ e >= 1 /\ ExpOf(lo) \in Nat /\ e - ExpOf(lo) \in Nat
      /\ MantOf(hi) \in Nat /\ mh \in Nat /\ mh >= 8 * i /\ mh < 16 * i /\ mh % 2 = 0
      /\ (-mh) % 2 = 0
      /\ MantOf(lo) \in Nat /\ w \in Nat /\ i \in Nat /\ i >= 8
      /\ d \in Int /\ hi.s \in {0, 1} /\ lo.s \in {0, 1}
  BY NormalIs, FloatFields
<1>2. y \in Nat /\ y >= 1 /\ u \in Nat /\ u >= 1 /\ y * u = Pw(e)
  <2>1. y \in Nat /\ y >= 1 /\ u \in Nat /\ u >= 1
    BY <1>1, PwPositive
  <2>2. Pw(e - ExpOf(lo) + ExpOf(lo)) = y * u
    BY <1>1, PwSum
  <2>3. e - ExpOf(lo) + ExpOf(lo) = e
    BY <1>1
  <2>4. QED BY <2>1, <2>2, <2>3
<1>3. /\ ml \in Nat /\ ml < 16 * i /\ Stuck(w, ml, y)
      /\ w # ml * y => ml <= i
      /\ ml > 8 * i => y = 1 /\ w = ml
  BY AlignedIs
<1>4. rest \in Nat /\ rest < 16 * i
  BY <1>1, <1>3
<1>5. v \in Int /\ 8 * d = (IF large THEN v * u ELSE -(v * u))
  <2>1. Mag(hi) = MantOf(hi) * (y * u) /\ Mag(lo) = MantOf(lo) * u
    BY <1>2, NormalIs
  <2> DEFINE h == MantOf(hi)
             k == MantOf(lo)
             t == (h * 8) * y - k * 8
  <2>2. d = h * (y * u) - k * u /\ mh = h * 8 /\ w = k * 8
    BY <2>1
  <2>3. h \in Nat /\ k \in Nat
    BY <1>1
  <2>4. v = (IF large THEN mh * y - w ELSE w - mh * y)
    OBVIOUS
  <2> HIDE DEF d, v, h, k, y, u, large, mh, w
  <2>5. 8 * (h * (y * u) - k * u) = t * u /\ t \in Int /\ t * u \in Int
    BY <1>2, <2>3
  <2>6. k * 8 - (h * 8) * y = -t /\ (-t) * u = -(t * u)
    BY <1>2, <2>3
  <2>7. v = (IF large THEN t ELSE -t) /\ 8 * d = t * u
    BY <2>2, <2>4, <2>5, <2>6
  <2> HIDE DEF t
  <2>8. QED BY <2>5, <2>6, <2>7
<1>6. Stuck(v, rest, y) /\ (v # rest * y => ml <= i /\ large)
  <2>1. CASE large
    <3>1. v = mh * y - w /\ rest = mh - ml
      BY <2>1
    <3> HIDE DEF e, y, u, mh, w, ml, i, v, rest
    <3>2. mh \in Int /\ w \in Int
      BY <1>1
    <3>3. Stuck(v, rest, y)
      BY <1>1, <1>2, <1>3, <1>4, <1>5, <3>1, <3>2, StuckDifference
    <3>4. w = ml * y => v = rest * y
      <4>1. (mh - ml) * y = mh * y - ml * y
        BY <1>1, <1>2, <1>3
      <4>2. QED BY <3>1, <4>1
    <3>5. QED BY <1>3, <2>1, <3>3, <3>4
  <2>2. CASE ~large
    <3>1. v = w - mh * y /\ rest = ml - mh /\ ml > mh
      BY <1>1, <1>3, <2>2
    <3> HIDE DEF e, u, mh, w, ml, i, v, rest
    <3>2. y = 1 /\ w = ml
      BY <1>1, <1>3, <3>1
    <3>3. v = rest * y
      BY <1>1, <1>3, <3>1, <3>2
    <3>4. QED BY <3>3 DEF Stuck
  <2>3. QED BY <2>1, <2>2
<1> HIDE DEF e, y, u, mh, w, ml, i, d, large, rest, v, x
<1>7. rest = 0 => d = 0
  <2>1. ASSUME rest = 0 PROVE v = 0
    <3>1. 0 * y = 0 /\ 0 % 2 = 0
      BY <1>2
    <3>2. QED BY <1>6, <2>1, <3>1 DEF Stuck
  <2>2. 0 * u = 0
    BY <1>2
  <2>3. ASSUME rest = 0 PROVE d = 0
    <3>1. 8 * d = 0
      BY <1>5, <2>1, <2>2, <2>3
    <3>2. QED BY <1>1, <3>1
  <2>4. QED BY <2>3
<1>8. rest >= 1 => v * u \in Nat /\ v * u >= 1
  <2>1. ASSUME rest >= 1 PROVE v >= 1
    <3>1. CASE v = rest * y
      <4>1. 1 * y <= rest * y /\ rest * y \in Nat
        BY <1>2, <1>4, <2>1, Times
      <4>2. QED BY <1>2, <3>1, <4>1
    <3>2. CASE (rest - 1) * y < v
      <4>1. rest - 1 \in Nat
        BY <1>4, <2>1
      <4>2. (rest - 1) * y \in Nat
        BY <1>2, <4>1, Times
      <4>3. QED BY <1>5, <3>2, <4>2
    <3>3. QED BY <1>6, <3>1, <3>2 DEF Stuck
  <2>2. ASSUME rest >= 1 PROVE 1 * u <= v * u /\ v * u \in Nat
    <3>1. v \in Nat /\ 1 <= v
      BY <1>5, <2>1, <2>2
    <3>2. QED BY <1>2, <3>1, Times
  <2>3. QED BY <1>2, <2>2
<1>9. /\ rest >= 1 => 8 * Abs(d) = v * u /\ Abs(d) \in Nat /\ d # 0
      /\ rest >= 1 => (d > 0 <=> large)
  <2>1. v * u \in Int
    BY <1>2, <1>5
  <2> DEFINE z == v * u
  <2> HIDE DEF z
  <2>2. QED BY <1>1, <1>5, <1>8, <2>1 DEF Abs, z
<1>10. CASE rest = 0
  <2>1. x = f32_zero(0)
    BY <1>10 DEF x, Added, rest, mh, ml, large
  <2>2. x \in Floats /\ x.s = 0 /\ x.m = 0 /\ is_zero(x)
    BY <2>1, InfIs DEF f32_zero, Num, is_zero
  <2>3. Abs(d) = 0
    BY <1>7, <1>10 DEF Abs
  <2>4. QED BY <1>7, <1>10, <2>2, <2>3 DEF Nearest, x, d
<1>11. CASE rest >= 1
  <2> DEFINE shift == LeastShift(rest, MB + 3)
             steps == IF shift < e THEN shift ELSE e
             f == e - steps
             m == rest * Pw(steps)
             s == IF large THEN hi.s ELSE lo.s
  <2>1. x = Packed(s, f, m)
    <3>1. x = Packed(s, f, rest * 2^steps)
      BY <1>11, <1>4 DEF x, Added, rest, mh, ml, large, e
    <3>2. 2^steps = Pw(steps)
      BY Zenon DEF Pw
    <3>3. QED BY <3>1, <3>2
  <2>2. /\ shift \in Nat
        /\ rest * Pw(shift) >= 8 * i
        /\ \A k \in 0 .. shift - 1 : rest * Pw(k) < 8 * i
    <3>1. Pw(MB + 3) = 8 * i /\ MB + 3 \in Nat
      BY AddPowers DEF i
    <3>2. QED BY <1>4, <1>11, <3>1, ShiftIs
  <2> HIDE DEF shift
  <2>3. steps \in Nat /\ steps <= shift /\ f \in Nat /\ (f >= 1 => steps = shift)
    BY <1>1, <2>2
  <2>4. Pw(steps) \in Nat /\ Pw(steps) >= 1 /\ Pw(f) \in Nat /\ Pw(f) >= 1 /\ Pw(e) = Pw(steps) * Pw(f)
    <3>1. e = steps + f
      BY <1>1, <2>3
    <3> HIDE DEF steps, f
    <3>2. QED BY <2>3, <3>1, PwPositive, PwSum
  <2>5. m \in Nat /\ m < 16 * i /\ (f >= 1 => m >= 8 * i)
    <3>1. CASE steps = 0
      <4>1. Pw(steps) = 1
        BY <3>1, PwBasics
      <4>2. m = rest
        BY <1>4, <4>1
      <4>3. QED BY <1>4, <2>2, <2>3, <4>2
    <3>2. CASE steps >= 1
      <4>1. steps - 1 \in Nat /\ steps - 1 \in 0 .. shift - 1 /\ steps - 1 + 1 = steps
        BY <2>2, <2>3, <3>2
      <4>2. Pw(steps - 1 + 1) = Pw(steps - 1) + Pw(steps - 1) /\ Pw(steps - 1) \in Nat
        BY <4>1, PwBasics
      <4> DEFINE t == Pw(steps - 1)
      <4>3. Pw(steps) = t + t /\ t \in Nat /\ rest * t < 8 * i
        BY <2>2, <4>1, <4>2
      <4> HIDE DEF t
      <4>4. rest * (t + t) = rest * t + rest * t /\ rest * t \in Nat
        BY <1>4, <4>3, Times
      <4>5. m = rest * t + rest * t
        BY <4>3, <4>4
      <4>6. m < 16 * i /\ m \in Nat
        BY <1>1, <4>3, <4>4, <4>5
      <4>7. f >= 1 => m >= 8 * i
        BY <2>2, <2>3
      <4>8. QED BY <4>6, <4>7
    <3>3. QED BY <2>3, <3>1, <3>2
  <2>6. Stuck(8 * Abs(d), rest, Pw(e))
    <3>1. Stuck(v * u, rest, y * u)
      BY <1>2, <1>4, <1>5, <1>6, StuckScales
    <3>2. QED BY <1>2, <1>9, <1>11, <3>1
  <2>7. Near(8 * Abs(d), m, Pw(f))
    <3>1. CASE v = rest * y
      <4>1. 8 * Abs(d) = m * Pw(f)
        <5>1. (rest * y) * u = rest * (y * u) /\ rest * (Pw(steps) * Pw(f)) = (rest * Pw(steps)) * Pw(f)
          BY <1>2, <1>4, <2>4
        <5>2. QED BY <1>2, <1>9, <1>11, <2>4, <3>1, <5>1
      <4>2. Stuck(8 * Abs(d), m, Pw(f))
        BY <4>1 DEF Stuck
      <4>3. 8 * Abs(d) \in Int
        BY <1>9, <1>11
      <4> HIDE DEF m, f
      <4>4. QED BY <2>4, <2>5, <4>2, <4>3, StuckIsNear
    <3>2. CASE v # rest * y
      <4>1. ml <= i /\ rest = mh - ml
        BY <1>6, <3>2 DEF rest
      <4>2. rest >= 7 * i
        BY <1>1, <1>3, <4>1
      <4>3. shift <= 1
        <5>1. ASSUME shift > 1 PROVE FALSE
          <6>1. 1 \in 0 .. shift - 1
            BY <2>2, <5>1
          <6>2. rest * 2 < 8 * i
            BY <2>2, <6>1, AddPowers
          <6>3. QED BY <1>1, <1>4, <4>2, <6>2
        <5>2. QED BY <2>2, <5>1
      <4>4. CASE steps = 0
        <5>1. m = rest /\ Pw(f) = Pw(e)
          <6>1. Pw(steps) = 1
            BY <4>4, PwBasics
          <6>2. m = rest
            BY <1>4, <6>1
          <6>3. Pw(e) = 1 * Pw(f)
            BY <2>4, <6>1
          <6>4. QED BY <2>4, <6>2, <6>3
        <5>2. 8 * Abs(d) \in Int
          BY <1>9, <1>11
        <5> HIDE DEF m, f, steps
        <5>3. QED BY <1>4, <2>4, <2>6, <5>1, <5>2, StuckIsNear
      <4>5. CASE steps = 1
        <5>1. m = 2 * rest /\ Pw(e) = 2 * Pw(f)
          <6>1. Pw(steps) = 2
            BY <4>5, AddPowers
          <6>2. m = rest * 2
            BY <6>1
          <6>3. Pw(e) = 2 * Pw(f)
            BY <2>4, <6>1
          <6>4. QED BY <1>4, <6>2, <6>3
        <5>2. 8 * Abs(d) \in Int
          BY <1>9, <1>11
        <5> HIDE DEF m, f, steps
        <5>3. QED BY <1>4, <2>4, <2>6, <5>1, <5>2, StuckIsNearTwice
      <4>6. QED BY <2>2, <2>3, <4>3, <4>4, <4>5
    <3>3. QED BY <3>1, <3>2
  <2> HIDE DEF m, f, steps
  <2>8. s \in {0, 1}
    BY <1>1
  <2>9. Pw(f) * 1 = Pw(f)
    BY <2>4
  <2>10. Nearest(Abs(d), 1, Packed(s, f, m))
    <3> HIDE DEF s
    <3>1. Near(8 * Abs(d), m, Pw(f) * 1)
      BY <2>7, <2>9
    <3>2. QED BY <1>9, <1>11, <2>3, <2>5, <2>8, <3>1, PackedNearest DEF i
  <2>11. /\ Packed(s, f, m) \in Floats /\ Packed(s, f, m).s = s
         /\ Packed(s, f, m).e = 0 => Packed(s, f, m).m = 0
    <3> HIDE DEF s
    <3>1. QED BY <2>3, <2>5, <2>8, PackedIs DEF i
  <2>12. s = (IF d = 0 THEN 0 ELSE IF d > 0 THEN hi.s ELSE lo.s)
    BY <1>9, <1>11
  <2>13. QED BY <2>1, <2>10, <2>11, <2>12 DEF x, d
<1>12. QED
  BY <1>4, <1>10, <1>11


(* The sum of two normal numbers, in either order.                          *)
LEMMA AddIs ==
  ASSUME NEW a \in Floats, NEW b \in Floats, Normal(a), Normal(b)
  PROVE  LET x == __addsf3(a, b)
             n == Signed(a) + Signed(b)
         IN /\ x \in Floats /\ (x.e = 0 => x.m = 0)
            /\ x.s = (IF n < 0 THEN 1 ELSE 0)
            /\ Nearest(Abs(n), 1, x)
<1>1. ASSUME NEW hi \in Floats, NEW lo \in Floats, Normal(hi), Normal(lo), ExpOf(lo) <= ExpOf(hi)
      PROVE  LET x == Added(hi, lo)
                 n == Signed(hi) + Signed(lo)
             IN /\ x \in Floats /\ (x.e = 0 => x.m = 0)
                /\ x.s = (IF n < 0 THEN 1 ELSE 0)
                /\ Nearest(Abs(n), 1, x)
  <2> DEFINE x == Added(hi, lo)
             n == Signed(hi) + Signed(lo)
  <2>1. /\ Mag(hi) \in Nat /\ Mag(hi) >= 1 /\ hi.s \in {0, 1}
        /\ Mag(lo) \in Nat /\ Mag(lo) >= 1 /\ lo.s \in {0, 1}
    BY <1>1, NormalIs
  <2>2. CASE hi.s = lo.s
    <3>1. Abs(n) = Mag(hi) + Mag(lo) /\ hi.s = (IF n < 0 THEN 1 ELSE 0)
      BY <2>1, <2>2 DEF Abs, Signed
    <3>2. x \in Floats /\ x.s = hi.s /\ (x.e = 0 => x.m = 0) /\ Nearest(Mag(hi) + Mag(lo), 1, x)
      BY <1>1, <2>2, SumIsNearest
    <3> HIDE DEF x, n
    <3>3. QED BY <3>1, <3>2 DEF x, n
  <2>3. CASE hi.s # lo.s
    <3> DEFINE d == Mag(hi) - Mag(lo)
    <3>1. /\ Abs(n) = Abs(d)
          /\ (IF d = 0 THEN 0 ELSE IF d > 0 THEN hi.s ELSE lo.s) = (IF n < 0 THEN 1 ELSE 0)
      BY <2>1, <2>3 DEF Abs, Signed
    <3>2. /\ x \in Floats /\ (x.e = 0 => x.m = 0) /\ Nearest(Abs(d), 1, x)
          /\ x.s = (IF d = 0 THEN 0 ELSE IF d > 0 THEN hi.s ELSE lo.s)
      BY <1>1, <2>3, DifferenceIsNearest
    <3> HIDE DEF x, n, d
    <3>3. QED BY <3>1, <3>2 DEF x, n
  <2>4. QED BY <2>2, <2>3
<1>2. __addsf3(a, b) = IF ExpOf(b) > ExpOf(a) THEN Added(b, a) ELSE Added(a, b)
  <2>1. __addsf3(a, b) = AddFinite(a, b)
    BY NormalIs DEF __addsf3
  <2>2. QED BY <2>1, AddFiniteIs
<1>3. ExpOf(a) \in Nat /\ ExpOf(b) \in Nat /\ Signed(a) \in Int /\ Signed(b) \in Int
  BY NormalIs DEF Signed
<1>4. CASE ExpOf(b) > ExpOf(a)
  <2>1. __addsf3(a, b) = Added(b, a) /\ ExpOf(a) <= ExpOf(b)
    BY <1>2, <1>3, <1>4
  <2>2. Signed(a) + Signed(b) = Signed(b) + Signed(a)
    BY <1>3
  <2>3. QED BY <1>1, <2>1, <2>2
<1>5. CASE ~(ExpOf(b) > ExpOf(a))
  <2>1. __addsf3(a, b) = Added(a, b) /\ ExpOf(b) <= ExpOf(a)
    BY <1>2, <1>3, <1>5
  <2>2. QED BY <1>1, <2>1
<1>6. QED
  BY <1>4, <1>5

(* Subtraction adds the number with its sign changed.                       *)
LEMMA SubIs ==
  ASSUME NEW a \in Floats, NEW b \in Floats, Normal(a), Normal(b)
  PROVE  LET x == __subsf3(a, b)
             n == Signed(a) + (-Signed(b))
         IN /\ x.s = (IF n < 0 THEN 1 ELSE 0)
            /\ Nearest(Abs(n), 1, x)
<1> DEFINE c == [b EXCEPT !.s = 1 - @]
<1>1. c = [s |-> 1 - b.s, e |-> b.e, m |-> b.m]
  BY FloatIs
<1>2. c \in Floats /\ Normal(c) /\ c.s = 1 - b.s /\ c.e = b.e /\ c.m = b.m
  <2>1. 1 - b.s \in {0, 1} /\ b.e \in 0 .. F32_EXP_MASK /\ b.m \in 0 .. F32_IMPLICIT - 1
    BY FloatIs, FloatFields
  <2> HIDE DEF c
  <2>2. QED BY <1>1, <2>1 DEF Floats, Normal
<1> HIDE DEF c
<1>3. Mag(c) = Mag(b)
  BY <1>2 DEF Mag, MantOf, ExpOf
<1>4. Signed(c) = -Signed(b)
  BY <1>2, <1>3, NormalIs DEF Signed
<1>5. __subsf3(a, b) = __addsf3(a, c)
  BY DEF __subsf3, c
<1>6. QED
  BY <1>2, <1>4, <1>5, AddIs

-----------------------------------------------------------------------------
(* Division and multiplication.  One unit.                                  *)
LEMMA OneIs == One = F32_IMPLICIT * Pw(F32_BIAS) /\ One \in Nat /\ One >= 1
<1> DEFINE x == Num(0, F32_BIAS, 0)
<1>1. x \in Floats /\ Normal(x) /\ MantOf(x) = F32_IMPLICIT /\ x.e = F32_BIAS
  BY FloatFields DEF Num, Floats, Normal, MantOf
<1>2. QED
  BY <1>1, NormalIs DEF One

(* The sign of both.                                                        *)
LEMMA SignType ==
  ASSUME NEW a \in Floats, NEW b \in Floats
  PROVE  Sign(a, b) \in {0, 1}
BY FloatIs DEF Sign

(* A remainder that is the number itself.                                   *)
LEMMA Unreduced ==
  ASSUME NEW v \in Nat, NEW d \in Nat, v < d
  PROVE  v % d = v
<1>1. 0 * d = 0 /\ v = 0 * d + v
  OBVIOUS
<1>2. QED
  BY <1>1, Division

(* The quotient of two normal numbers.                                      *)
LEMMA DivIsNearest ==
  ASSUME NEW a \in Floats, NEW b \in Floats, Normal(a), Normal(b)
  PROVE  LET x == __divsf3(a, b)
         IN x.s = Sign(a, b) /\ Nearest(Mag(a) * One, Mag(b), x)
<1> DEFINE i == F32_IMPLICIT
           ma == MantOf(a)
           mb == MantOf(b)
           num == ma * 2^(MB + 3)
           quot == OrSticky(num \div mb, num % mb)
           ex == ExpOf(a) - ExpOf(b) + F32_BIAS
           shift == IF quot < 2^(MB + 3) THEN LeastShift(quot, MB + 3) ELSE 0
           m == quot * Pw(shift)
           f == ex - shift
           s == Sign(a, b)
           n == Mag(a) * One
           d == Mag(b)
           x == __divsf3(a, b)
<1>1. x = Packed(s, f, (quot * 2^shift) % 2^(WB + 3))
  BY NormalIs DEF __divsf3, DivFinite
<1>2. /\ i \in Nat /\ i >= 8 /\ ma \in Nat /\ ma >= i /\ ma < 2 * i
      /\ mb \in Nat /\ mb >= i /\ mb < 2 * i
      /\ ExpOf(a) \in Nat /\ ExpOf(b) \in Nat /\ F32_BIAS \in Nat /\ ex \in Int
      /\ Mag(a) = ma * Pw(ExpOf(a)) /\ d = mb * Pw(ExpOf(b)) /\ d \in Nat /\ d >= 1
      /\ Mag(a) \in Nat
      /\ s \in {0, 1}
  BY NormalIs, FloatFields, SignType
<1>3. /\ 2^(MB + 3) = 8 * i /\ Pw(MB + 3) = 8 * i /\ MB + 3 \in Nat /\ Pw(1) = 2
      /\ 2^(WB + 3) \in Nat /\ 2^(WB + 3) >= 16 * i
  <2>1. Pw(MB + 3) = 8 * i /\ Pw(MB + 4) = 16 * i /\ MB + 3 \in Nat /\ MB + 4 \in Nat /\ Pw(1) = 2
    BY AddPowers DEF i
  <2>2. WB + 3 \in Nat /\ MB + 4 <= WB + 3
    BY FieldWidths
  <2>3. Pw(WB + 3) \in Nat /\ Pw(MB + 4) <= Pw(WB + 3)
    BY <2>1, <2>2, PwPositive, PwMonotone
  <2>4. Pw(MB + 3) = 2^(MB + 3) /\ Pw(WB + 3) = 2^(WB + 3)
    BY Zenon DEF Pw
  <2>5. QED BY <2>1, <2>3, <2>4
<1>4. num = ma * (8 * i) /\ num \in Nat
  <2>1. num = ma * (8 * i)
    BY <1>3
  <2> HIDE DEF num, ma, i
  <2>2. ma * (8 * i) \in Nat
    BY <1>2
  <2>3. QED BY <2>1, <2>2
<1> HIDE DEF ma, mb, num, i, n, d, s, x
<1>5. PICK q \in Nat, r \in 0 .. mb - 1 : num \div mb = q /\ num % mb = r /\ num = q * mb + r
  <2>1. mb \in Nat \ {0}
    BY <1>2
  <2>2. QED BY <1>4, <2>1, Quotient
<1>6. quot \in Nat /\ Stuck(num, quot, mb) /\ (quot = q \/ (quot = q + 1 /\ q % 2 = 0))
  <2>1. mb \in Nat \ {0}
    BY <1>2
  <2>2. QED BY <1>4, <1>5, <2>1, Sticks
<1>7. q >= 4 * i /\ q <= 16 * i - 8
  <2>1. ASSUME q < 4 * i PROVE FALSE
    <3>1. (q + 1) * mb <= (4 * i) * mb
      <4>1. q + 1 <= 4 * i /\ q + 1 \in Nat /\ 4 * i \in Nat
        BY <1>2, <2>1
      <4>2. QED BY <1>2, <4>1, Times
    <3>2. mb * (4 * i) <= (2 * i - 1) * (4 * i)
      <4>1. mb <= 2 * i - 1 /\ 2 * i - 1 \in Nat /\ 4 * i \in Nat
        BY <1>2
      <4>2. QED BY <1>2, <4>1, Times
    <3>3. i * (8 * i) <= ma * (8 * i)
      <4>1. 8 * i \in Nat
        BY <1>2
      <4>2. QED BY <1>2, <4>1, Times
    <3>4. /\ (q + 1) * mb = q * mb + mb /\ (4 * i) * mb = mb * (4 * i)
          /\ (2 * i - 1) * (4 * i) = i * (8 * i) - 4 * i
          /\ q * mb \in Nat /\ i * (8 * i) \in Nat /\ mb * (4 * i) \in Nat
      BY <1>2, Times
    <3>5. QED BY <1>2, <1>4, <1>5, <3>1, <3>2, <3>3, <3>4
  <2>2. ASSUME q > 16 * i - 8 PROVE FALSE
    <3>1. (16 * i - 7) * i <= (16 * i - 7) * mb /\ (16 * i - 7) * mb <= q * mb
      <4>1. 16 * i - 7 \in Nat /\ 16 * i - 7 <= q
        BY <1>2, <2>2
      <4> DEFINE z == 16 * i - 7
      <4> HIDE DEF z
      <4>2. i * z <= mb * z /\ z * mb <= q * mb
        BY <1>2, <4>1, Times DEF z
      <4>3. i * z = z * i /\ mb * z = z * mb
        BY <1>2, <4>1 DEF z
      <4>4. QED BY <4>2, <4>3 DEF z
    <3>2. ma * (8 * i) <= (2 * i - 1) * (8 * i)
      <4>1. ma <= 2 * i - 1 /\ 2 * i - 1 \in Nat /\ 8 * i \in Nat
        BY <1>2
      <4>2. QED BY <1>2, <4>1, Times
    <3>3. /\ (2 * i - 1) * (8 * i) = 16 * (i * i) - 8 * i /\ (16 * i - 7) * i = 16 * (i * i) - 7 * i
          /\ i * i \in Nat /\ q * mb \in Nat /\ (16 * i - 7) * mb \in Int
      BY <1>2, Times
    <3>4. QED BY <1>2, <1>4, <1>5, <3>1, <3>2, <3>3
  <2>3. QED BY <1>2, <2>1, <2>2
<1>8. quot >= 4 * i /\ quot < 16 * i
  BY <1>2, <1>6, <1>7
<1> HIDE DEF quot
<1>9. /\ shift \in {0, 1}
      /\ m \in Nat /\ m >= 8 * i /\ m < 16 * i /\ (quot * 2^shift) % 2^(WB + 3) = m
      /\ shift = 0 => m = quot
      /\ shift = 1 => m = 2 * quot
  <2>1. CASE quot >= 8 * i
    <3>1. shift = 0
      BY <1>2, <1>3, <1>6, <2>1
    <3>2. Pw(shift) = 1
      BY <3>1, PwBasics
    <3> HIDE DEF shift
    <3>3. m = quot
      BY <1>6, <3>2
    <3>4. 2^shift = Pw(shift)
      BY Zenon DEF Pw
    <3>5. quot * 2^shift = m
      BY <3>4
    <3> HIDE DEF m
    <3>6. (quot * 2^shift) % 2^(WB + 3) = m
      BY <1>2, <1>3, <1>6, <1>8, <3>3, <3>5, Unreduced
    <3>7. QED BY <1>6, <1>8, <2>1, <3>1, <3>3, <3>6
  <2>2. CASE quot < 8 * i
    <3> DEFINE l == LeastShift(quot, MB + 3)
    <3>1. shift = l
      BY <1>2, <1>3, <1>6, <2>2
    <3>2. /\ l \in Nat /\ quot * Pw(l) >= 8 * i
          /\ \A k \in 0 .. l - 1 : quot * Pw(k) < 8 * i
      <4>1. quot >= 1
        BY <1>2, <1>6, <1>8
      <4>2. QED BY <1>3, <1>6, <4>1, ShiftIs
    <3> HIDE DEF l
    <3>3. l = 1
      <4>1. ASSUME l = 0 PROVE FALSE
        <5>1. Pw(l) = 1
          BY <4>1, PwBasics
        <5>2. quot * Pw(l) = quot
          BY <1>6, <5>1
        <5>3. QED BY <1>2, <1>6, <2>2, <3>2, <5>2
      <4>2. ASSUME l > 1 PROVE FALSE
        <5>1. 1 \in 0 .. l - 1
          BY <3>2, <4>2
        <5>2. quot * 2 < 8 * i
          BY <1>3, <3>2, <5>1
        <5>3. QED BY <1>2, <1>6, <1>8, <5>2
      <4>3. QED BY <3>2, <4>1, <4>2
    <3>4. shift = 1
      BY <3>1, <3>3
    <3> HIDE DEF shift
    <3>5. m = 2 * quot
      <4>1. m = quot * 2
        BY <1>3, <3>4
      <4>2. QED BY <1>6, <4>1
    <3>6. 2^shift = Pw(shift)
      BY Zenon DEF Pw
    <3>7. m \in Nat /\ m >= 8 * i /\ m < 16 * i
      BY <1>2, <1>6, <1>8, <2>2, <3>5
    <3>8. (quot * 2^shift) % 2^(WB + 3) = m
      <4>1. quot * 2^shift = m
        BY <3>6
      <4> HIDE DEF m
      <4>2. m % 2^(WB + 3) = m
        BY <1>2, <1>3, <3>7, Unreduced
      <4>3. QED BY <4>1, <4>2, Zenon
    <3>9. QED BY <3>4, <3>5, <3>7, <3>8
  <2>3. QED BY <1>2, <1>6, <2>1, <2>2
<1>10. x = Packed(s, f, m)
  BY <1>1, <1>9
<1> HIDE DEF m, shift
<1>11. /\ Packed(s, f, m).s = s
       /\ f < 0 => is_zero(Packed(s, f, m))
  <2>1. f \in Int
    BY <1>2, <1>9
  <2> HIDE DEF f
  <2>2. m < 16 * F32_IMPLICIT /\ m >= 8 * F32_IMPLICIT
    BY <1>9 DEF i
  <2>3. F32_EXP_MASK \in Nat /\ F32_EXP_MASK >= 3
    BY EndsAre
  <2>4. QED BY <1>2, <1>9, <2>1, <2>2, <2>3, PackedIs
<1>12. n = (ma * i) * Pw(ExpOf(a) + F32_BIAS) /\ n \in Nat
  <2>1. n = (ma * Pw(ExpOf(a))) * (i * Pw(F32_BIAS))
    BY <1>2, OneIs DEF n, i
  <2>2. Pw(ExpOf(a) + F32_BIAS) = Pw(ExpOf(a)) * Pw(F32_BIAS) /\ Pw(ExpOf(a)) \in Nat /\ Pw(F32_BIAS) \in Nat
    BY <1>2, PwPositive, PwSum
  <2> DEFINE g == Pw(ExpOf(a))
             h == Pw(F32_BIAS)
  <2>3. g \in Nat /\ h \in Nat
    BY <2>2
  <2> HIDE DEF g, h
  <2>4. (ma * g) * (i * h) = (ma * i) * (g * h)
    BY <1>2, <2>3
  <2>5. n \in Nat
    BY <1>2, OneIs, Times DEF n
  <2>6. QED BY <2>1, <2>2, <2>4, <2>5 DEF g, h
<1>13. CASE f < 0
  <2>1. ExpOf(a) + F32_BIAS <= ExpOf(b) /\ ExpOf(a) + F32_BIAS \in Nat
    BY <1>2, <1>9, <1>13
  <2> DEFINE g == Pw(ExpOf(a) + F32_BIAS)
             h == Pw(ExpOf(b))
  <2>2. g <= h /\ g \in Nat /\ h \in Nat
    BY <1>2, <2>1, PwMonotone, PwPositive
  <2>3. n = (ma * i) * g /\ d = mb * h
    BY <1>2, <1>12
  <2> HIDE DEF g, h
  <2>4. ma * i <= (2 * i - 1) * mb /\ ma * i \in Nat /\ (2 * i - 1) * mb \in Nat
    <3>1. ma <= 2 * i - 1 /\ 2 * i - 1 \in Nat
      BY <1>2
    <3> DEFINE z == 2 * i - 1
    <3> HIDE DEF z
    <3>2. ma * i <= z * i /\ i * z <= mb * z /\ ma * i \in Nat /\ mb * z \in Nat
      BY <1>2, <3>1, Times DEF z
    <3>3. z * i = i * z /\ mb * z = z * mb /\ z * i \in Nat
      BY <1>2, <3>1, Times DEF z
    <3>4. QED BY <3>2, <3>3 DEF z
  <2>5. (ma * i) * g <= ((2 * i - 1) * mb) * g
    BY <2>2, <2>4, Times
  <2>6. g * ((2 * i - 1) * mb) <= h * ((2 * i - 1) * mb)
    BY <2>2, <2>4, Times
  <2>7. n <= (2 * i - 1) * d
    <3> DEFINE z == 2 * i - 1
    <3>1. z \in Nat
      BY <1>2
    <3> HIDE DEF z
    <3>2. /\ (z * mb) * g = g * (z * mb) /\ h * (z * mb) = z * (mb * h)
          /\ (z * mb) * g \in Nat /\ h * (z * mb) \in Nat /\ (ma * i) * g \in Nat
      <4>1. z * mb \in Nat /\ ma * i \in Nat
        BY <2>4 DEF z
      <4>2. (z * mb) * g \in Nat /\ h * (z * mb) \in Nat /\ (ma * i) * g \in Nat
        BY <2>2, <4>1, Times
      <4>3. (z * mb) * g = g * (z * mb) /\ h * (z * mb) = z * (mb * h)
        BY <1>2, <2>2, <3>1
      <4>4. QED BY <4>2, <4>3
    <3>3. QED BY <2>3, <2>5, <2>6, <3>2 DEF z
  <2>8. Nearest(n, d, x)
    <3>1. n <= BelowLeast * d
      BY <2>7 DEF BelowLeast, i
    <3>2. is_zero(x)
      BY <1>10, <1>11, <1>13
    <3>3. QED BY <3>1, <3>2 DEF Nearest
  <2>9. QED BY <1>10, <1>11, <2>8 DEF x, n, d, s
<1>14. CASE f >= 0
  <2> DEFINE t == Pw(ExpOf(b) + f)
             u == Pw(f) * d
  <2>1. /\ f \in Nat /\ ExpOf(b) + f \in Nat
        /\ ExpOf(b) + f + shift = ExpOf(a) + F32_BIAS /\ shift \in Nat
    BY <1>2, <1>9, <1>14
  <2>2. t \in Nat /\ t >= 1 /\ Pw(f) \in Nat /\ Pw(f) >= 1 /\ Pw(ExpOf(b)) \in Nat
    BY <1>2, <2>1, PwPositive
  <2>3. u = mb * t /\ u \in Nat /\ u >= 1
    <3>1. t = Pw(ExpOf(b)) * Pw(f)
      BY <1>2, <2>1, PwSum
    <3> DEFINE g == Pw(ExpOf(b))
               h == Pw(f)
    <3>2. g \in Nat /\ h \in Nat /\ t = g * h /\ u = h * (mb * g)
      BY <1>2, <2>2, <3>1
    <3> HIDE DEF g, h, t, u
    <3>3. h * (mb * g) = mb * (g * h)
      BY <1>2, <3>2
    <3>4. u = mb * t
      BY <3>2, <3>3
    <3>5. 1 * t <= mb * t /\ mb * t \in Nat
      BY <1>2, <2>2, Times
    <3>6. QED BY <2>2, <3>4, <3>5
  <2>4. 8 * n = num * Pw(ExpOf(a) + F32_BIAS)
    <3> DEFINE g == Pw(ExpOf(a) + F32_BIAS)
    <3>1. g \in Nat
      BY <1>2, PwPositive
    <3>2. n = (ma * i) * g
      BY <1>12
    <3> HIDE DEF g
    <3>3. 8 * ((ma * i) * g) = (ma * (8 * i)) * g
      BY <1>2, <3>1
    <3>4. QED BY <1>4, <3>2, <3>3 DEF g
  <2>5. Pw(ExpOf(a) + F32_BIAS) = t * Pw(shift) /\ Pw(shift) \in Nat
    BY <2>1, PwSum, PwPositive
  <2> HIDE DEF t, u
  <2>6. Near(8 * n, m, u)
    <3>1. CASE shift = 0
      <4>1. Pw(ExpOf(a) + F32_BIAS) = t
        BY <2>2, <2>5, <3>1, PwBasics
      <4>2. 8 * n = num * t
        BY <2>4, <4>1
      <4>3. Stuck(num * t, quot, mb * t)
        BY <1>2, <1>4, <1>6, <2>2, StuckScales
      <4>4. Stuck(8 * n, quot, u)
        BY <2>3, <4>2, <4>3
      <4>5. 8 * n \in Int /\ m = quot
        BY <1>9, <1>12, <3>1
      <4>6. QED BY <1>6, <2>3, <4>4, <4>5, StuckIsNear
    <3>2. CASE shift = 1
      <4>1. Pw(ExpOf(a) + F32_BIAS) = 2 * t
        BY <1>3, <2>2, <2>5, <3>2
      <4>2. 8 * n = num * (2 * t)
        BY <2>4, <4>1
      <4>3. Stuck(num * (2 * t), quot, mb * (2 * t))
        <5> DEFINE k == 2 * t
        <5>1. k \in Nat /\ k >= 1
          BY <2>2
        <5> HIDE DEF k
        <5>2. Stuck(num * k, quot, mb * k)
          BY <1>2, <1>4, <1>6, <5>1, StuckScales
        <5>3. QED BY <5>2 DEF k
      <4>4. mb * (2 * t) = 2 * u
        BY <1>2, <2>2, <2>3
      <4>5. Stuck(8 * n, quot, 2 * u)
        BY <4>2, <4>3, <4>4
      <4>6. 8 * n \in Int /\ m = 2 * quot
        BY <1>9, <1>12, <3>2
      <4>7. QED BY <1>6, <2>3, <4>5, <4>6, StuckIsNearTwice
    <3>3. QED BY <1>9, <3>1, <3>2
  <2>7. Nearest(n, d, Packed(s, f, m))
    <3>1. m < 16 * F32_IMPLICIT /\ m >= 8 * F32_IMPLICIT
      BY <1>9 DEF i
    <3>2. Near(8 * n, m, Pw(f) * d)
      BY <2>6 DEF u
    <3> HIDE DEF f
    <3>3. QED BY <1>2, <1>9, <1>12, <2>1, <3>1, <3>2, PackedNearest
  <2>8. QED BY <1>10, <1>11, <2>7 DEF x, n, d, s
<1>15. f \in Int
  BY <1>2, <1>9
<1>16. QED
  BY <1>13, <1>14, <1>15


(* The product of two normal numbers: the sticky bit does not stand for all *)
(* bits, so this is one of the two numbers around it.                       *)
LEMMA MulIsFaithful ==
  ASSUME NEW a \in Floats, NEW b \in Floats, Normal(a), Normal(b)
  PROVE  LET x == __mulsf3(a, b)
         IN /\ x.s = Sign(a, b)
            /\ IF is_zero(x) THEN Mag(a) * Mag(b) < Mag(Least) * One
               ELSE Faithful(Mag(a) * Mag(b), One, x)
<1> DEFINE i == F32_IMPLICIT
           ma == MantOf(a)
           mb == MantOf(b)
           prod == ma * mb
           high == prod >= 2^(2 * MB + 1)
           h == IF high THEN 1 ELSE 0
           p == IF high THEN prod \div 2 ELSE prod
           k == Pw(MB - 3)
           m == OrSticky(p \div k, p % k)
           f == ExpOf(a) + ExpOf(b) - F32_BIAS + h
           s == Sign(a, b)
           n == Mag(a) * Mag(b)
           t == Pw(ExpOf(a) + ExpOf(b))
           x == __mulsf3(a, b)
<1>1. /\ i \in Nat /\ i >= 8 /\ ma \in Nat /\ ma >= i /\ ma < 2 * i
      /\ mb \in Nat /\ mb >= i /\ mb < 2 * i
      /\ ExpOf(a) \in Nat /\ ExpOf(b) \in Nat /\ F32_BIAS \in Nat /\ f \in Int /\ h \in {0, 1}
      /\ Mag(a) = ma * Pw(ExpOf(a)) /\ Mag(b) = mb * Pw(ExpOf(b))
      /\ Mag(a) \in Nat /\ Mag(b) \in Nat
      /\ s \in {0, 1}
  BY NormalIs, FloatFields, SignType
<1>2. /\ 2^(2 * MB + 1) = 2 * (i * i)
      /\ i = 8 * k /\ k \in Nat /\ k >= 1
  <2>1. MB \in Nat /\ MB - 3 \in Nat /\ MB - 3 + 3 = MB /\ 2 * MB + 1 = MB + (MB + 1) /\ MB + 1 \in Nat
    BY FieldWidths
  <2>2. /\ Pw(MB + (MB + 1)) = Pw(MB) * Pw(MB + 1) /\ Pw(MB + 1) = Pw(MB) + Pw(MB)
        /\ Pw(MB - 3 + 3) = Pw(MB - 3) * Pw(3) /\ Pw(MB - 3) \in Nat /\ Pw(MB - 3) >= 1
    BY <2>1, PwSum, PwBasics, PwPositive
  <2>3. i = Pw(MB) /\ Pw(3) = 8
    BY FloatFields, AddPowers
  <2>4. 2^(2 * MB + 1) = Pw(2 * MB + 1)
    BY Zenon DEF Pw
  <2>5. 2^(2 * MB + 1) = i * (i + i)
    BY <2>1, <2>2, <2>3, <2>4
  <2>6. i = k * 8 /\ k \in Nat /\ k >= 1
    BY <2>1, <2>2, <2>3
  <2> HIDE DEF i, k
  <2>7. i * (i + i) = 2 * (i * i) /\ k * 8 = 8 * k
    BY <1>1, <2>6
  <2>8. QED BY <2>5, <2>6, <2>7
<1>3. x = Packed(s, f, m)
  <2>1. x = MulFinite(a, b)
    BY NormalIs DEF __mulsf3
  <2>2. MulFinite(a, b) = Packed(s, IF high THEN ExpOf(a) + ExpOf(b) - F32_BIAS + 1
                                    ELSE ExpOf(a) + ExpOf(b) - F32_BIAS, m)
    BY Zenon DEF MulFinite, ShiftRight, Pw
  <2>3. f = IF high THEN ExpOf(a) + ExpOf(b) - F32_BIAS + 1 ELSE ExpOf(a) + ExpOf(b) - F32_BIAS
    BY <1>1
  <2>4. QED BY <2>1, <2>2, <2>3
<1>4. n = prod * t /\ n \in Nat /\ t \in Nat /\ t >= 1
  <2>1. t = Pw(ExpOf(a)) * Pw(ExpOf(b)) /\ Pw(ExpOf(a)) \in Nat /\ Pw(ExpOf(b)) \in Nat
        /\ t \in Nat /\ t >= 1
    <3>1. t = Pw(ExpOf(a)) * Pw(ExpOf(b))
      BY <1>1, PwSum
    <3>2. ExpOf(a) + ExpOf(b) \in Nat
      BY <1>1
    <3>3. t \in Nat /\ t >= 1 /\ Pw(ExpOf(a)) \in Nat /\ Pw(ExpOf(b)) \in Nat
      BY <1>1, <3>2, PwPositive
    <3>4. QED BY <3>1, <3>3
  <2> DEFINE g == Pw(ExpOf(a))
             j == Pw(ExpOf(b))
  <2>2. n = (ma * g) * (mb * j) /\ t = g * j /\ g \in Nat /\ j \in Nat
    BY <1>1, <2>1
  <2>3. n \in Nat
    BY <1>1, Times
  <2> HIDE DEF g, j, ma, mb, n, t
  <2>4. (ma * g) * (mb * j) = (ma * mb) * (g * j)
    BY <1>1, <2>2
  <2>5. QED BY <2>1, <2>2, <2>3, <2>4
<1>5. prod \in Nat /\ i * i \in Nat /\ prod >= i * i /\ prod < 4 * (i * i)
  <2> HIDE DEF ma, mb, i
  <2>1. i * i <= ma * i /\ i * ma <= mb * ma /\ i * i \in Nat /\ ma * mb \in Nat
    BY <1>1, Times
  <2>2. ma * mb < (2 * i) * mb /\ mb * (2 * i) < (2 * i) * (2 * i)
    <3>1. 2 * i \in Nat /\ 2 * i >= 1 /\ mb >= 1
      BY <1>1
    <3>2. QED BY <1>1, <3>1, Times
  <2>3. /\ i * ma = ma * i /\ mb * ma = ma * mb /\ (2 * i) * mb = mb * (2 * i)
        /\ (2 * i) * (2 * i) = 4 * (i * i) /\ ma * i \in Nat /\ mb * (2 * i) \in Nat
    BY <1>1, Times
  <2>4. QED BY <2>1, <2>2, <2>3
<1> HIDE DEF ma, mb, i, k, t, n, x, s, prod
<1>6. /\ p \in Nat /\ p >= i * i /\ p < 2 * (i * i)
      /\ prod \in p * Pw(h) .. p * Pw(h) + Pw(h) - 1
      /\ Pw(h) \in {1, 2}
  <2>1. Pw(0) = 1 /\ Pw(1) = 2
    BY PwBasics, AddPowers
  <2> DEFINE sq == i * i
  <2>2. sq \in Nat /\ prod >= sq /\ prod < 4 * sq /\ (high <=> prod >= 2 * sq)
    BY <1>2, <1>5
  <2> HIDE DEF sq
  <2>3. CASE high
    <3>1. h = 1 /\ p = prod \div 2
      BY <2>3
    <3> HIDE DEF h, p, high
    <3>2. Pw(h) = 2
      BY <2>1, <3>1
    <3>3. p \in Nat /\ p >= sq /\ p < 2 * sq /\ p * 2 <= prod /\ prod <= p * 2 + 1
      BY <1>5, <2>2, <2>3, <3>1
    <3>4. QED BY <1>5, <3>2, <3>3 DEF sq
  <2>4. CASE ~high
    <3>1. h = 0 /\ p = prod
      BY <2>4
    <3> HIDE DEF h, p, high
    <3>2. Pw(h) = 1
      BY <2>1, <3>1
    <3>3. p \in Nat /\ p >= sq /\ p < 2 * sq /\ p * 1 = prod
      BY <1>5, <2>2, <2>4, <3>1
    <3>4. QED BY <1>5, <3>2, <3>3 DEF sq
  <2>5. QED BY <2>3, <2>4
<1> HIDE DEF p, h, high
<1>7. PICK q \in Nat, r \in 0 .. k - 1 : p \div k = q /\ p % k = r /\ p = q * k + r
  <2>1. k \in Nat \ {0}
    BY <1>2
  <2>2. QED BY <1>6, <2>1, Quotient
<1>8. m \in Nat /\ (m = q \/ (m = q + 1 /\ q % 2 = 0))
  BY <1>7 DEF OrSticky
<1>9. q >= 8 * i /\ q < 16 * i
  <2>1. i * i = (8 * i) * k /\ 2 * (i * i) = (16 * i) * k
    BY <1>1, <1>2
  <2>2. q * k \in Nat /\ (q + 1) * k = q * k + k
    BY <1>2, Times
  <2>3. ASSUME q < 8 * i PROVE FALSE
    <3>1. q + 1 <= 8 * i /\ q + 1 \in Nat /\ 8 * i \in Nat
      BY <1>1, <2>3
    <3>2. (q + 1) * k <= (8 * i) * k
      BY <1>2, <3>1, Times
    <3>3. QED BY <1>2, <1>5, <1>6, <1>7, <2>1, <2>2, <3>2
  <2>4. ASSUME q >= 16 * i PROVE FALSE
    <3>1. 16 * i <= q /\ 16 * i \in Nat
      BY <1>1, <2>4
    <3>2. (16 * i) * k <= q * k
      BY <1>2, <3>1, Times
    <3>3. QED BY <1>2, <1>5, <1>6, <1>7, <2>1, <2>2, <3>2
  <2>5. QED BY <1>1, <2>3, <2>4
<1>10. m >= 8 * i /\ m < 16 * i
  BY <1>1, <1>8, <1>9
<1> HIDE DEF m
<1>11. PICK main \in Nat : /\ m \div 8 = main /\ q \div 8 = main
                           /\ main * i <= p /\ p < (main + 1) * i
                           /\ RoundsUp(m) => main * i < p
  <2>1. PICK main \in Nat, c \in 0 .. 7 : q = 8 * main + c /\ q \div 8 = main
    BY Eighths
  <2>2. m \div 8 = main /\ (RoundsUp(m) => c >= 4)
    <3>1. PICK o \in Nat, g \in 0 .. 7 :
            /\ m = 8 * o + g /\ m \div 8 = o
            /\ RoundsUp(m) <=> g > 4 \/ (g = 4 /\ o % 2 = 1)
      BY <1>8, Eighths
    <3>2. m = q \/ (m = q + 1 /\ c # 7)
      BY <1>8, <2>1
    <3>3. o = main
      BY <2>1, <3>1, <3>2
    <3>4. m = q + 1 => c % 2 = 0
      BY <1>8, <2>1
    <3>5. RoundsUp(m) => c >= 4
      BY <2>1, <3>1, <3>2, <3>3, <3>4
    <3>6. QED BY <3>1, <3>3, <3>5
  <2>3. /\ q * k = main * i + c * k /\ (main + 1) * i = main * i + 8 * k
        /\ c * k + k <= 8 * k /\ c * k \in Nat /\ main * i \in Nat /\ (c >= 4 => c * k >= 4 * k)
    <3>1. (8 * main + c) * k = main * (8 * k) + c * k /\ (main + 1) * (8 * k) = main * (8 * k) + 8 * k
      BY <1>2
    <3>2. (c + 1) * k <= 8 * k /\ (c + 1) * k = c * k + k
      <4>1. c + 1 <= 8 /\ c + 1 \in Nat
        OBVIOUS
      <4>2. QED BY <1>2, <4>1, Times
    <3>3. c * k \in Nat /\ main * i \in Nat
      BY <1>1, <1>2, Times
    <3>4. c >= 4 => c * k >= 4 * k
      BY <1>2, Times
    <3>5. QED BY <1>2, <2>1, <3>1, <3>2, <3>3, <3>4
  <2>4. main * i <= p /\ p < (main + 1) * i /\ (c >= 4 => main * i < p)
    BY <1>2, <1>7, <2>3
  <2>5. QED BY <2>1, <2>2, <2>4
<1>12. /\ Packed(s, f, m).s = s
       /\ is_zero(Packed(s, f, m)) => f <= 0
       /\ ~is_zero(Packed(s, f, m)) => f >= 0
       /\ is_zero(Packed(s, f, m)) /\ f = 0 => RoundedMain(m) # 2 * i
  <2> HIDE DEF f
  <2>1. m < 16 * F32_IMPLICIT /\ m >= 8 * F32_IMPLICIT /\ m \in Nat
    BY <1>8, <1>10 DEF i
  <2>2. F32_EXP_MASK \in Nat /\ F32_EXP_MASK >= 3
    BY EndsAre
  <2>3. QED BY <1>1, <2>1, <2>2, PackedIs DEF i
<1>13. CASE is_zero(x)
  <2>1. f <= 0
    BY <1>3, <1>12, <1>13
  <2> DEFINE g == Pw(ExpOf(a) + ExpOf(b) + h)
             j == Pw(F32_BIAS)
  <2>2. ExpOf(a) + ExpOf(b) + h \in Nat /\ ExpOf(a) + ExpOf(b) + h <= F32_BIAS
        /\ ExpOf(a) + ExpOf(b) \in Nat /\ h \in Nat
    BY <1>1, <2>1
  <2>3. g <= j /\ g \in Nat /\ j \in Nat /\ g = t * Pw(h)
    BY <1>1, <2>2, PwMonotone, PwPositive, PwSum DEF t
  <2>4. Mag(Least) * One = (2 * i) * (i * j)
    BY EndsAre, OneIs DEF i
  <2> HIDE DEF g, j
  <2> DEFINE sq == i * i
  <2>5. sq \in Nat /\ sq >= 1 /\ p < 2 * sq
    <3>1. 8 * i <= i * i /\ i * i \in Nat
      BY <1>1, Times
    <3>2. QED BY <1>1, <1>6, <3>1
  <2>6. (2 * i) * (i * j) = (2 * sq) * j
    BY <1>1, <2>3
  <2> HIDE DEF sq
  <2>7. prod < (2 * sq) * Pw(h)
    BY <1>5, <1>6, <2>5
  <2>8. prod * t < ((2 * sq) * Pw(h)) * t
    <3>1. (2 * sq) * Pw(h) \in Nat
      BY <1>6, <2>5
    <3>2. QED BY <1>4, <1>5, <2>7, <3>1, Times
  <2>9. ((2 * sq) * Pw(h)) * t = (2 * sq) * g
    BY <1>4, <1>6, <2>3, <2>5
  <2>10. g * (2 * sq) <= j * (2 * sq) /\ g * (2 * sq) = (2 * sq) * g /\ j * (2 * sq) = (2 * sq) * j
    <3>1. 2 * sq \in Nat
      BY <2>5
    <3>2. QED BY <2>3, <3>1, Times
  <2>11. {prod * t, (2 * sq) * g, (2 * sq) * j} \subseteq Int
    BY <1>4, <1>5, <2>3, <2>5
  <2>12. prod * t < (2 * sq) * j
    BY <2>8, <2>9, <2>10, <2>11
  <2>13. n < Mag(Least) * One
    BY <1>4, <2>4, <2>6, <2>12
  <2>14. QED BY <1>3, <1>12, <1>13, <2>13 DEF x, n, s
<1>14. CASE ~is_zero(x)
  <2>1. f \in Nat
    BY <1>1, <1>3, <1>12, <1>14
  <2> DEFINE u == Pw(f) * One
             g == t * Pw(h)
  <2>2. g \in Nat /\ g >= 1 /\ u = i * g
    <3>1. Pw(ExpOf(a) + ExpOf(b) + h) = g
      <4>1. ExpOf(a) + ExpOf(b) \in Nat /\ h \in Nat
        BY <1>1
      <4>2. QED BY <4>1, PwSum DEF t
    <3>2. ExpOf(a) + ExpOf(b) + h = f + F32_BIAS /\ ExpOf(a) + ExpOf(b) + h \in Nat
      BY <1>1
    <3>3. g = Pw(f) * Pw(F32_BIAS) /\ Pw(f) \in Nat /\ Pw(F32_BIAS) \in Nat
      BY <1>1, <2>1, <3>1, <3>2, PwSum, PwPositive
    <3>4. g \in Nat /\ g >= 1
      BY <3>1, <3>2, PwPositive
    <3> DEFINE v == Pw(f)
               j == Pw(F32_BIAS)
    <3>5. u = v * (i * j) /\ g = v * j /\ v \in Nat /\ j \in Nat
      BY <3>3, OneIs DEF i
    <3> HIDE DEF g, u, v, j
    <3>6. v * (i * j) = i * (v * j)
      BY <1>1, <3>5
    <3>7. QED BY <3>4, <3>5, <3>6
  <2> HIDE DEF u
  <2>3. main * u <= n /\ n < (main + 1) * u /\ (RoundsUp(m) => main * u < n)
    <3>1. main * u = (main * i) * g /\ (main + 1) * u = ((main + 1) * i) * g
      <4> HIDE DEF g
      <4>1. QED BY <1>1, <2>2
    <3> DEFINE lower == main * i
               upper == (main + 1) * i
    <3>2. lower \in Nat /\ upper \in Nat /\ lower <= p /\ p + 1 <= upper /\ (RoundsUp(m) => lower + 1 <= p)
      <4>1. main * i \in Nat /\ (main + 1) * i \in Nat
        BY <1>1, Times
      <4>2. QED BY <1>6, <1>11, <4>1
    <3> HIDE DEF lower, upper
    <3>3. /\ lower * Pw(h) <= prod /\ prod < upper * Pw(h)
          /\ RoundsUp(m) => lower * Pw(h) < prod
      BY <1>5, <1>6, <3>2
    <3>4. lower * Pw(h) \in Nat /\ upper * Pw(h) \in Nat
      BY <1>6, <3>2
    <3>5. /\ (lower * Pw(h)) * t <= prod * t /\ prod * t < (upper * Pw(h)) * t
          /\ RoundsUp(m) => (lower * Pw(h)) * t < prod * t
      BY <1>4, <1>5, <3>3, <3>4, Times
    <3>6. (lower * Pw(h)) * t = lower * g /\ (upper * Pw(h)) * t = upper * g
      BY <1>4, <1>6, <3>2
    <3>7. QED BY <1>4, <3>1, <3>5, <3>6 DEF lower, upper
  <2>4. Faithful(n, One, Packed(s, f, m))
    <3>1. m < 16 * F32_IMPLICIT /\ m >= 8 * F32_IMPLICIT /\ m \in Nat
      BY <1>8, <1>10 DEF i
    <3>2. /\ main * (Pw(f) * One) <= n /\ n < (main + 1) * (Pw(f) * One)
          /\ RoundsUp(m) => main * (Pw(f) * One) < n
      BY <2>3 DEF u
    <3>3. main = m \div 8 /\ ~is_zero(Packed(s, f, m))
      BY <1>3, <1>11, <1>14
    <3> HIDE DEF f
    <3>4. QED BY <1>1, <1>4, <2>1, <3>1, <3>2, <3>3, OneIs, PackedFaithful
  <2>5. QED BY <1>3, <1>12, <1>14, <2>4 DEF x, n, s
<1>15. QED
  BY <1>13, <1>14


(* Doubles that are normal floats are added as the floats are.              *)
LEMMA AddDoubleIs ==
  ASSUME NEW a \in Floats, NEW b \in Floats, Normal(a), Normal(b)
  PROVE  __truncdfsf2(__adddf3(__extendsfdf2(a), __extendsfdf2(b))) = __addsf3(a, b)
<1> DEFINE r == __addsf3(a, b)
<1>1. a.e # 0 /\ b.e # 0
  BY FloatIs DEF Normal
<1>2. __truncdfsf2(__extendsfdf2(a)) = a /\ __truncdfsf2(__extendsfdf2(b)) = b
  BY <1>1, TruncExtend
<1>3. r \in Floats /\ (r.e = 0 => r.m = 0)
  BY AddIs
<1>4. __adddf3(__extendsfdf2(a), __extendsfdf2(b)) = __extendsfdf2(r)
  BY <1>2, Zenon DEF __adddf3
<1> HIDE DEF r
<1>5. __truncdfsf2(__extendsfdf2(r)) = IF r.e = 0 THEN f32_zero(r.s) ELSE r
  BY <1>3, TruncExtend
<1>6. r.e = 0 => f32_zero(r.s) = r
  BY <1>3, FloatIs DEF f32_zero, Num
<1>7. __truncdfsf2(__extendsfdf2(r)) = r
  BY <1>5, <1>6
<1>8. QED
  BY <1>4, <1>7 DEF r

(* Sums, differences and quotients of normal numbers are rounded to nearest *)
(* even, products to one of the two numbers around them (softfp.c,          *)
(* __addsf3, __subsf3, __mulsf3, __divsf3, __adddf3).                       *)
LEMMA InvRounds == FloatInv => ArithmeticIsRounded
<1> SUFFICES ASSUME FloatInv PROVE ArithmeticIsRounded
  OBVIOUS
<1>1. ASSUME NEW fns \in SUBSET {"__addsf3", "__subsf3", "__mulsf3", "__divsf3", "__adddf3"},
             Computed(fns)
      PROVE  /\ call \in Calls /\ Answer = Returned(call) /\ call.fn \in fns
             /\ A \in Floats /\ B \in Floats /\ Normal(A) /\ Normal(B)
  <2>1. result # <<>> /\ call.fn \in fns /\ Normal(A) /\ Normal(B)
    BY <1>1 DEF Computed, Done
  <2>2. call \in Calls /\ Answer = Returned(call)
    BY <2>1 DEF FloatInv, Answer
  <2>3. A \in Floats /\ B \in Floats
    BY <2>1, <2>2, Arguments DEF A, B
  <2>4. QED BY <2>1, <2>2, <2>3
<1>2. ASSUME Computed({"__addsf3", "__subsf3", "__adddf3"})
      PROVE  Nearest(Abs(ExactSum), 1, Answer) /\ SignIs(ExactSum)
  <2>1. /\ call \in Calls /\ Answer = Returned(call)
        /\ call.fn \in {"__addsf3", "__subsf3", "__adddf3"}
        /\ A \in Floats /\ B \in Floats /\ Normal(A) /\ Normal(B)
    BY <1>1, <1>2
  <2>2. CASE call.fn = "__subsf3"
    <3>1. Answer = __subsf3(A, B) /\ ExactSum = Signed(A) + (-Signed(B))
      BY <2>1, <2>2 DEF Returned, ExactSum, A, B
    <3>2. QED BY <2>1, <3>1, SubIs DEF SignIs
  <2>3. CASE call.fn = "__addsf3"
    <3>1. Answer = __addsf3(A, B) /\ ExactSum = Signed(A) + Signed(B)
      BY <2>1, <2>3 DEF Returned, ExactSum, A, B
    <3>2. QED BY <2>1, <3>1, AddIs DEF SignIs
  <2>4. CASE call.fn = "__adddf3"
    <3>1. /\ Answer = __truncdfsf2(__adddf3(__extendsfdf2(A), __extendsfdf2(B)))
          /\ ExactSum = Signed(A) + Signed(B)
      BY <2>1, <2>4 DEF Returned, ExactSum, A, B
    <3>2. Answer = __addsf3(A, B)
      BY <2>1, <3>1, AddDoubleIs
    <3>3. QED BY <2>1, <3>1, <3>2, AddIs DEF SignIs
  <2>5. QED BY <2>1, <2>2, <2>3, <2>4
<1>3. ASSUME Computed({"__divsf3"}) PROVE Answer = __divsf3(A, B) /\ A \in Floats /\ B \in Floats /\ Normal(A) /\ Normal(B)
  <2>1. /\ Answer = Returned(call) /\ call.fn = "__divsf3"
        /\ A \in Floats /\ B \in Floats /\ Normal(A) /\ Normal(B)
    BY <1>1, <1>3
  <2>2. QED BY <2>1 DEF Returned, A, B
<1>4. ASSUME Computed({"__mulsf3"}) PROVE Answer = __mulsf3(A, B) /\ A \in Floats /\ B \in Floats /\ Normal(A) /\ Normal(B)
  <2>1. /\ Answer = Returned(call) /\ call.fn = "__mulsf3"
        /\ A \in Floats /\ B \in Floats /\ Normal(A) /\ Normal(B)
    BY <1>1, <1>4
  <2>2. QED BY <2>1 DEF Returned, A, B
<1>5. Computed({"__divsf3"}) => Nearest(Mag(A) * One, Mag(B), Answer) /\ Answer.s = Sign(A, B)
  BY <1>3, DivIsNearest
<1>6. Computed({"__mulsf3"}) =>
        /\ IF is_zero(Answer) THEN Mag(A) * Mag(B) < Mag(Least) * One
           ELSE Faithful(Mag(A) * Mag(B), One, Answer)
        /\ Answer.s = Sign(A, B)
  BY <1>4, MulIsFaithful
<1>7. Computed({"__mulsf3", "__divsf3"}) => Computed({"__mulsf3"}) \/ Computed({"__divsf3"})
  BY DEF Computed, Done
<1>8. QED
  BY <1>2, <1>5, <1>6, <1>7, Zenon DEF ArithmeticIsRounded

(* For all widths, arithmetic on normal numbers is rounded as it should be. *)
THEOREM ArithmeticIsRoundedAll == FloatSpec => []ArithmeticIsRounded
BY FloatInductive, InvRounds, PTL
=============================================================================
