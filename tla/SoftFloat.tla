------------------------------ MODULE SoftFloat ------------------------------
(***************************************************************************)
(* Software floating point (avs/runtime/freestanding/src/softfp/softfp.c):  *)
(* addition, multiplication and division of floats, doubles by way of       *)
(* floats, comparisons, and conversions.  A number is its three fields,     *)
(* sign, exponent and mantissa; the widths of the fields and of the         *)
(* integers are parameters, and the shifts of the code are written by them. *)
(***************************************************************************)
EXTENDS Integers

CONSTANTS
  MB, EB,         \* mantissa and exponent bits of a float: 23, 8
  DMB, DEB,       \* of a double: 52, 11
  IB, LB,         \* bits of an int and of a long: 32, 64
  WB,             \* bits of the word that holds a mantissa: 32
  ShiftCap        \* 31: a larger difference of exponents is not shifted by

ASSUME SoftFloatAssumption ==
  /\ {MB, EB, DMB, DEB, IB, LB, WB, ShiftCap} \subseteq Nat
  /\ MB >= 3 /\ EB >= 2 /\ DMB > MB /\ DEB > EB /\ IB <= DMB + 1 /\ LB > IB
  /\ IB >= 1
  \* the least subnormal float is a normal double
  /\ 2^(DEB - 1) - 2^(EB - 1) >= MB
  \* infinity is beyond the integers
  /\ 2^(EB - 1) >= IB - 1 /\ 2^(DEB - 1) >= LB
  /\ ShiftCap >= MB + 4 /\ WB >= MB + 2

F32_EXP_MASK == 2^EB - 1
F32_BIAS == 2^(EB - 1) - 1
F32_IMPLICIT == 2^MB
F64_EXP_MASK == 2^DEB - 1
F64_BIAS == 2^(DEB - 1) - 1
F64_IMPLICIT == 2^DMB

Num(s, e, m) == [s |-> s, e |-> e, m |-> m]

f32_is_inf(x) == x.e = F32_EXP_MASK /\ x.m = 0
f32_is_nan(x) == x.e = F32_EXP_MASK /\ x.m # 0
is_zero(x) == x.e = 0 /\ x.m = 0
f64_is_nan(x) == x.e = F64_EXP_MASK /\ x.m # 0

f32_qnan == Num(0, F32_EXP_MASK, 2^(MB - 1))
f32_inf(s) == Num(s, F32_EXP_MASK, 0)
f32_zero(s) == Num(s, 0, 0)

(* A subnormal has the exponent of the least normal number and no implicit  *)
(* bit.                                                                     *)
ExpOf(x) == IF x.e = 0 THEN 1 ELSE x.e
MantOf(x) == IF x.e = 0 THEN x.m ELSE F32_IMPLICIT + x.m

(* x with its lowest bit set if y is not 0. *)
OrSticky(x, y) == IF y # 0 /\ x % 2 = 0 THEN x + 1 ELSE x

ShiftRight(x, n) == OrSticky(x \div 2^n, x % 2^n)

(* Guard, round and sticky bits, and the last bit kept: to nearest, ties to *)
(* even.                                                                    *)
RoundsUp(m) == (m \div 4) % 2 = 1 /\ (m % 4 # 0 \/ (m \div 8) % 2 = 1)

(* Mutant: a carry out of the mantissa is not brought back. *)
Rounded_NoCarry(e, m) == [e |-> e, main |-> IF RoundsUp(m) THEN m \div 8 + 1 ELSE m \div 8]

(* The exponent and the mantissa after rounding. *)
Rounded(e, m) ==
  IF ~RoundsUp(m) THEN [e |-> e, main |-> m \div 8]
  ELSE IF m \div 8 + 1 = 2 * F32_IMPLICIT THEN [e |-> e + 1, main |-> F32_IMPLICIT]
  ELSE [e |-> e, main |-> m \div 8 + 1]

(* The last steps of addition, multiplication and division: rounding,       *)
(* overflow to infinity, underflow to zero.                                 *)
Packed(s, e, m) ==
  LET r == Rounded(e, m)
  IN IF r.e >= F32_EXP_MASK THEN f32_inf(s)
     ELSE IF r.e <= 0 THEN f32_zero(s)
     ELSE Num(s, r.e, r.main % F32_IMPLICIT)

(* The least shift to the left that brings m to bit or above it. *)
LeastShift(m, bit) == CHOOSE n \in 0 .. bit : m * 2^n >= 2^bit /\ \A k \in 0 .. n - 1 : m * 2^k < 2^bit

AddFinite(a, b) ==
  LET swap == ExpOf(b) > ExpOf(a)
      hi == IF swap THEN b ELSE a
      lo == IF swap THEN a ELSE b
      diff == ExpOf(hi) - ExpOf(lo)
      mh == MantOf(hi) * 8
      ml == IF diff >= ShiftCap THEN 1 ELSE ShiftRight(MantOf(lo) * 8, diff)
      sum == mh + ml
      rest == IF mh >= ml THEN mh - ml ELSE ml - mh
      shift == LeastShift(rest, MB + 3)
      steps == IF shift < ExpOf(hi) THEN shift ELSE ExpOf(hi)
  IN IF hi.s = lo.s
     THEN IF sum >= 2^(MB + 4) THEN Packed(hi.s, ExpOf(hi) + 1, ShiftRight(sum, 1))
                               ELSE Packed(hi.s, ExpOf(hi), sum)
     ELSE IF rest = 0 THEN f32_zero(0)
     ELSE Packed(IF mh >= ml THEN hi.s ELSE lo.s, ExpOf(hi) - steps, rest * 2^steps)

__addsf3(a, b) ==
  IF f32_is_nan(a) THEN a
  ELSE IF f32_is_nan(b) THEN b
  ELSE IF f32_is_inf(a) THEN IF f32_is_inf(b) /\ a.s # b.s THEN f32_qnan ELSE a
  ELSE IF f32_is_inf(b) THEN b
  ELSE IF is_zero(a) THEN b
  ELSE IF is_zero(b) THEN a
  ELSE AddFinite(a, b)

__subsf3(a, b) == __addsf3(a, [b EXCEPT !.s = 1 - @])

Sign(a, b) == (a.s + b.s) % 2

(* The product is brought into [1, 2) by a shift that keeps no sticky bit,  *)
(* then cut to the bits for rounding, with one.                             *)
MulFinite(a, b) ==
  LET prod == MantOf(a) * MantOf(b)
      e == ExpOf(a) + ExpOf(b) - F32_BIAS
      high == prod >= 2^(2 * MB + 1)
      m == ShiftRight(IF high THEN prod \div 2 ELSE prod, MB - 3)
  IN Packed(Sign(a, b), IF high THEN e + 1 ELSE e, m)

__mulsf3(a, b) ==
  IF f32_is_nan(a) THEN a
  ELSE IF f32_is_nan(b) THEN b
  ELSE IF f32_is_inf(a) THEN IF is_zero(b) THEN f32_qnan ELSE f32_inf(Sign(a, b))
  ELSE IF f32_is_inf(b) THEN IF is_zero(a) THEN f32_qnan ELSE f32_inf(Sign(a, b))
  ELSE IF is_zero(a) \/ is_zero(b) THEN f32_zero(Sign(a, b))
  ELSE MulFinite(a, b)

(* A quotient with its sticky bit, brought to MB + 4 bits at least; a        *)
(* subnormal divisor leaves more, and the word drops the highest.           *)
DivFinite(a, b) ==
  LET num == MantOf(a) * 2^(MB + 3)
      quot == OrSticky(num \div MantOf(b), num % MantOf(b))
      e == ExpOf(a) - ExpOf(b) + F32_BIAS
      shift == IF quot < 2^(MB + 3) THEN LeastShift(quot, MB + 3) ELSE 0
  IN Packed(Sign(a, b), e - shift, (quot * 2^shift) % 2^(WB + 3))

__divsf3(a, b) ==
  IF f32_is_nan(a) THEN a
  ELSE IF f32_is_nan(b) THEN b
  ELSE IF f32_is_inf(a) THEN IF f32_is_inf(b) THEN f32_qnan ELSE f32_inf(Sign(a, b))
  ELSE IF f32_is_inf(b) THEN f32_zero(Sign(a, b))
  ELSE IF is_zero(b) THEN IF is_zero(a) THEN f32_qnan ELSE f32_inf(Sign(a, b))
  ELSE IF is_zero(a) THEN f32_zero(Sign(a, b))
  ELSE DivFinite(a, b)

-----------------------------------------------------------------------------
(* Doubles: cut to floats, and back. *)
Low == DMB - MB

Cut(m) == m \div 2^Low

__truncdfsf2(a) ==
  LET exp_f == a.e - F64_BIAS + F32_BIAS
      mant == Cut(a.m)
  IN IF a.e = F64_EXP_MASK
     THEN Num(a.s, F32_EXP_MASK, IF a.m # 0 /\ mant = 0 THEN 1 ELSE mant)
     ELSE IF a.e = 0 \/ exp_f <= 0 THEN f32_zero(a.s)
     ELSE IF exp_f >= F32_EXP_MASK THEN f32_inf(a.s)
     ELSE Num(a.s, exp_f, mant)

Widened(e) == e - F32_BIAS + F64_BIAS

__extendsfdf2(a) ==
  LET shift == LeastShift(a.m, MB)
  IN IF a.e = F32_EXP_MASK THEN Num(a.s, F64_EXP_MASK, a.m * 2^Low)
     ELSE IF is_zero(a) THEN Num(a.s, 0, 0)
     ELSE IF a.e = 0
     THEN Num(a.s, Widened(1 - shift), ((a.m * 2^shift) % F32_IMPLICIT) * 2^Low)
     ELSE Num(a.s, Widened(a.e), a.m * 2^Low)

(* Doubles are computed with as floats. *)
__adddf3(a, b) == __extendsfdf2(__addsf3(__truncdfsf2(a), __truncdfsf2(b)))
__subdf3(a, b) == __extendsfdf2(__subsf3(__truncdfsf2(a), __truncdfsf2(b)))
__muldf3(a, b) == __extendsfdf2(__mulsf3(__truncdfsf2(a), __truncdfsf2(b)))
__divdf3(a, b) == __extendsfdf2(__divsf3(__truncdfsf2(a), __truncdfsf2(b)))

-----------------------------------------------------------------------------
(* Comparisons: the bits of numbers of one sign order them. *)
Below(a, b) == a.e < b.e \/ (a.e = b.e /\ a.m < b.m)

cmp(a, b, nan, nan_result) ==
  IF nan THEN nan_result
  ELSE IF (is_zero(a) /\ is_zero(b)) \/ a = b THEN 0
  ELSE IF a.s # b.s THEN IF a.s = 1 THEN -1 ELSE 1
  ELSE IF a.s = 0 THEN IF Below(a, b) THEN -1 ELSE 1
  ELSE IF Below(b, a) THEN -1 ELSE 1

f32_cmp(a, b, nan_result) == cmp(a, b, f32_is_nan(a) \/ f32_is_nan(b), nan_result)
f64_cmp(a, b, nan_result) == cmp(a, b, f64_is_nan(a) \/ f64_is_nan(b), nan_result)

(* Mutant: one answer for unordered numbers. *)
ge_nan_Same == 1

(* The answer of __gesf2, __gtsf2 and their double forms for unordered      *)
(* numbers; the other comparisons answer 1.                                 *)
ge_nan == -1

__cmpsf2(a, b) ==
  IF f32_is_nan(a) \/ f32_is_nan(b) THEN 1
  ELSE IF a = b THEN 0
  ELSE IF a.s # b.s THEN IF a.s = 1 THEN -1 ELSE 1
  ELSE IF (a.s = 1) # Below(a, b) THEN -1 ELSE 1

-----------------------------------------------------------------------------
(* Conversions from and to integers. *)
INT_MIN == -(2^(IB - 1))
INT_MAX == 2^(IB - 1) - 1

(* m * 2^n, cut to an integer. *)
Scaled(m, n) == IF n >= 0 THEN m * 2^n ELSE m \div 2^(-n)

(* Mutant: off by one. *)
TooLarge_Late(e) == e > IB - 1

TooLarge(e) == e >= IB - 1

__fixsfsi(a) ==
  LET shift == a.e - F32_BIAS
      abs == Scaled(F32_IMPLICIT + a.m, shift - MB)
  IN IF a.e # F32_EXP_MASK /\ shift < 0 THEN 0
     ELSE IF a.e = F32_EXP_MASK \/ TooLarge(shift)
     THEN IF a.s = 1 THEN INT_MIN ELSE INT_MAX
     ELSE IF a.s = 1 THEN -abs ELSE abs

__fixdfsi(a) ==
  LET e == a.e - F64_BIAS
      abs == Scaled(F64_IMPLICIT + a.m, e - DMB)
  IN IF a.e # F64_EXP_MASK /\ (a.e = 0 \/ e < 0) THEN 0
     ELSE IF a.e = F64_EXP_MASK \/ TooLarge(e)
     THEN IF a.s = 1 THEN INT_MIN ELSE INT_MAX
     ELSE IF a.s = 1 THEN -abs ELSE abs

__fixunsdfdi(a) ==
  LET e == a.e - F64_BIAS
  IN IF a.s = 1 THEN 0
     ELSE IF a.e = F64_EXP_MASK THEN IF a.m # 0 THEN 0 ELSE 2^LB - 1
     ELSE IF a.e = 0 \/ e < 0 THEN 0
     ELSE IF e >= LB THEN 2^LB - 1
     ELSE Scaled(F64_IMPLICIT + a.m, e - DMB)

u64_msb_index(x) == CHOOSE i \in 0 .. LB - 1 : 2^i <= x /\ x < 2^(i + 1)

(* A mantissa rounded up to the next power of two. *)
Renormalized(s, exp, mant) ==
  IF mant = 2 * F64_IMPLICIT THEN Num(s, exp + 1, 0) ELSE Num(s, exp, mant % F64_IMPLICIT)

Magnitude(s, a) ==
  LET msb == u64_msb_index(a)
      shift == msb - DMB
      rem == a % 2^shift
      half == 2^(shift - 1)
      cut == a \div 2^shift
      up == rem > half \/ (rem = half /\ cut % 2 = 1)
  IN IF a = 0 THEN Num(0, 0, 0)
     ELSE IF msb <= DMB THEN Num(s, msb + F64_BIAS, (a * 2^(DMB - msb)) % F64_IMPLICIT)
     ELSE Renormalized(s, msb + F64_BIAS, IF up THEN cut + 1 ELSE cut)

__floatundidf(a) == Magnitude(0, a)
__floatdidf(a) == IF a < 0 THEN Magnitude(1, -(a + 1) + 1) ELSE Magnitude(0, a)
__floatsidf(a) == IF a < 0 THEN Magnitude(1, -a) ELSE Magnitude(0, a)
__floatunsidf(a) == __floatundidf(a)
=============================================================================
