--------------------------- MODULE SoftFloatProps ---------------------------
(***************************************************************************)
(* What the functions of SoftFloat compute, compared with exact arithmetic  *)
(* on the numbers that the fields stand for.  A behaviour is one call: every *)
(* function with every argument of its type.                                *)
(***************************************************************************)
EXTENDS SoftFloat

VARIABLES call, result

floatVars == <<call, result>>

Floats == [s : {0, 1}, e : 0 .. F32_EXP_MASK, m : 0 .. F32_IMPLICIT - 1]
Doubles == [s : {0, 1}, e : 0 .. F64_EXP_MASK, m : 0 .. F64_IMPLICIT - 1]

Calls ==
  [fn : {"__addsf3", "__subsf3", "__mulsf3", "__divsf3", "__adddf3", "compare"}, a : Floats, b : Floats]
    \cup [fn : {"__fixsfsi", "__extendsfdf2"}, a : Floats, b : {0}]
    \cup [fn : {"__fixdfsi", "__fixunsdfdi", "__truncdfsf2"}, a : Doubles, b : {0}]
    \cup [fn : {"__floatsidf"}, a : INT_MIN .. INT_MAX, b : {0}]
    \cup [fn : {"__floatunsidf"}, a : 0 .. 2^IB - 1, b : {0}]
    \cup [fn : {"__floatundidf"}, a : 0 .. 2^LB - 1, b : {0}]
    \cup [fn : {"__floatdidf"}, a : -(2^(LB - 1)) .. 2^(LB - 1) - 1, b : {0}]

(* The four float comparisons that differ, and two through doubles. *)
Compared(a, b) ==
  [le |-> f32_cmp(a, b, 1), ge |-> f32_cmp(a, b, ge_nan), cmpsf2 |-> __cmpsf2(a, b),
   led |-> f64_cmp(__extendsfdf2(a), __extendsfdf2(b), 1),
   ged |-> f64_cmp(__extendsfdf2(a), __extendsfdf2(b), ge_nan)]

Returned(c) ==
  CASE c.fn = "__addsf3" -> __addsf3(c.a, c.b)
    [] c.fn = "__subsf3" -> __subsf3(c.a, c.b)
    [] c.fn = "__mulsf3" -> __mulsf3(c.a, c.b)
    [] c.fn = "__divsf3" -> __divsf3(c.a, c.b)
    [] c.fn = "__adddf3" ->
         __truncdfsf2(__adddf3(__extendsfdf2(c.a), __extendsfdf2(c.b)))
    [] c.fn = "compare" -> Compared(c.a, c.b)
    [] c.fn = "__fixsfsi" -> __fixsfsi(c.a)
    [] c.fn = "__extendsfdf2" -> __extendsfdf2(c.a)
    [] c.fn = "__fixdfsi" -> __fixdfsi(c.a)
    [] c.fn = "__fixunsdfdi" -> __fixunsdfdi(c.a)
    [] c.fn = "__truncdfsf2" -> __truncdfsf2(c.a)
    [] c.fn = "__floatsidf" -> __floatsidf(c.a)
    [] c.fn = "__floatunsidf" -> __floatunsidf(c.a)
    [] c.fn = "__floatundidf" -> __floatundidf(c.a)
    [] c.fn = "__floatdidf" -> __floatdidf(c.a)

FloatInit == call \in Calls /\ result = <<>>

FloatReturn == result = <<>> /\ result' = <<Returned(call)>> /\ UNCHANGED call

FloatSpec == FloatInit /\ [][FloatReturn]_floatVars

-----------------------------------------------------------------------------
Done(fns) == call.fn \in fns /\ result # <<>>
Answer == result[1]
A == call.a
B == call.b

Abs(n) == IF n < 0 THEN -n ELSE n
Normal(x) == 1 <= x.e /\ x.e < F32_EXP_MASK

(* A number without its sign, in units of half the least subnormal; for     *)
(* infinity, the power of two at which numbers end.                         *)
Mag(x) == 2 * MantOf(x) * 2^(ExpOf(x) - 1)
Signed(x) == IF x.s = 1 THEN -Mag(x) ELSE Mag(x)

Normals == {x \in Floats : Normal(x) /\ x.s = 0}
Least == Num(0, 1, 0)
Most == Num(0, F32_EXP_MASK - 1, F32_IMPLICIT - 1)

(* What numbers a result may be rounded to: the normal ones and, beyond     *)
(* their ends, the next below and above.                                    *)
BelowLeast == 2 * F32_IMPLICIT - 1
Grid == {Mag(x) : x \in Normals} \cup {BelowLeast, Mag(f32_inf(0))}

(* How far n / d, in units, is from g, times d. *)
Distance(n, d, g) == Abs(n - g * d)
Nearer(n, d, g, h) == Distance(n, d, g) < Distance(n, d, h)

(* r is n / d rounded to nearest, ties to even, as if exponents had no      *)
(* bounds; then infinity above them and zero below.                         *)
Nearest(n, d, r) ==
  IF is_zero(r) THEN n = 0 \/ n <= BelowLeast * d \/ Nearer(n, d, BelowLeast, Mag(Least))
  ELSE IF r.e = F32_EXP_MASK THEN r.m = 0 /\ ~Nearer(n, d, Mag(Most), Mag(r))
  ELSE \A g \in Grid : \/ g = Mag(r)
                       \/ Nearer(n, d, Mag(r), g)
                       \/ Distance(n, d, Mag(r)) = Distance(n, d, g) /\ r.m % 2 = 0

(* No number of the grid lies between n / d and r. *)
Faithful(n, d, r) ==
  \A g \in Grid : ~(\/ (n <= g * d /\ g < Mag(r))
                    \/ (Mag(r) < g /\ g * d <= n))

(* One unit is 1 / One of 1. *)
One == Mag(Num(0, F32_BIAS, 0))

ExactSum == Signed(A) + (IF call.fn = "__subsf3" THEN -Signed(B) ELSE Signed(B))
SignIs(n) == Answer.s = (IF n < 0 THEN 1 ELSE 0)

(* One of these was computed, from normal numbers. *)
Computed(fns) == Done(fns) /\ Normal(A) /\ Normal(B)

(* Sums, differences and quotients of normal numbers are rounded to nearest *)
(* even, with overflow to infinity and underflow to zero: the bits kept     *)
(* below the mantissa are enough at every distance of the exponents.        *)
(* Doubles that are floats are added alike.  A product is one of the two    *)
(* numbers around the exact one, and exact where that is a number.          *)
ArithmeticIsRounded ==
  /\ Computed({"__addsf3", "__subsf3", "__adddf3"}) =>
       Nearest(Abs(ExactSum), 1, Answer) /\ SignIs(ExactSum)
  /\ Computed({"__divsf3"}) => Nearest(Mag(A) * One, Mag(B), Answer)
  /\ Computed({"__mulsf3"}) =>
       IF is_zero(Answer) THEN Mag(A) * Mag(B) < Mag(Least) * One
       ELSE Faithful(Mag(A) * Mag(B), One, Answer)
  /\ Computed({"__mulsf3", "__divsf3"}) => Answer.s = Sign(A, B)

(* The sticky bit of a product stands for all bits below it (the comment    *)
(* "Keep 24+3 bits for rounding: shift right by 20, sticky in bit0"), so    *)
(* the rounding to nearest even that follows is right.                      *)
ProductIsNearest ==
  Computed({"__mulsf3"}) => Nearest(Mag(A) * Mag(B), One, Answer)

Nan(x) == x.e = F32_EXP_MASK /\ x.m # 0
Order(n, m) == IF n < m THEN -1 ELSE IF n > m THEN 1 ELSE 0

(* Comparisons order all numbers, infinities and subnormals too, floats and *)
(* doubles alike; <, <=, >, >= and = are false of a number that is not one. *)
(* __cmpsf2 alone tells the two zeros apart.                                *)
ComparisonsOrder ==
  Done({"compare"}) =>
    IF Nan(A) \/ Nan(B)
    THEN /\ Answer.le > 0 /\ Answer.ge < 0 /\ Answer.led > 0 /\ Answer.ged < 0
    ELSE /\ {Answer.le, Answer.ge, Answer.led, Answer.ged} = {Order(Signed(A), Signed(B))}
         /\ Answer.cmpsf2 = Answer.le \/ (is_zero(A) /\ is_zero(B))

Clamp(n, lo, hi) == IF n < lo THEN lo ELSE IF n > hi THEN hi ELSE n

(* The integer below a number without its sign, 2^LB for one beyond. *)
Floor(x, bias, mb) ==
  IF x.e < bias THEN 0
  ELSE IF x.e - bias >= LB THEN 2^LB
  ELSE ((2^mb + x.m) * 2^(x.e - bias)) \div 2^mb
Toward0(x, n) == IF x.s = 1 THEN -n ELSE n

(* What a double is worth, in units of 2^-DMB, for exponents from 0 on. *)
Worth(x) == (F64_IMPLICIT + x.m) * 2^(x.e - F64_BIAS)

(* Conversions keep what the other type can hold: to integers the fraction  *)
(* is cut, with a stop at the ends of the type; integers become the nearest *)
(* double, ties to even, exactly if they have DMB + 1 bits or fewer; a      *)
(* double becomes the next float toward 0, and a float survives the way to  *)
(* a double and back unless it is subnormal, so that the double operations  *)
(* compute what the float operations do.                                    *)
ConversionsRound ==
  /\ Done({"__fixsfsi"}) /\ ~Nan(A) =>
       Answer = Clamp(Toward0(A, Floor(A, F32_BIAS, MB)), INT_MIN, INT_MAX)
  /\ Done({"__fixdfsi"}) /\ ~f64_is_nan(A) =>
       Answer = Clamp(Toward0(A, Floor(A, F64_BIAS, DMB)), INT_MIN, INT_MAX)
  /\ Done({"__fixunsdfdi"}) /\ ~f64_is_nan(A) =>
       Answer = Clamp(Toward0(A, Floor(A, F64_BIAS, DMB)), 0, 2^LB - 1)
  /\ Done({"__floatsidf", "__floatunsidf", "__floatundidf", "__floatdidf"}) =>
       IF A = 0 THEN is_zero(Answer)
       ELSE LET ulp == 2^(Answer.e - F64_BIAS)
                error == Abs(Abs(A) * F64_IMPLICIT - Worth(Answer))
            IN /\ Answer.s = (IF A < 0 THEN 1 ELSE 0) /\ Answer.e >= F64_BIAS
               /\ 2 * error <= ulp
               /\ 2 * error = ulp => Answer.m % 2 = 0
               /\ Abs(A) < 2 * F64_IMPLICIT => error = 0
  /\ Done({"__extendsfdf2"}) =>
       __truncdfsf2(Answer) = IF A.e = 0 THEN f32_zero(A.s) ELSE A
  /\ Done({"__truncdfsf2"}) /\ Normal(Answer) =>
       LET back == __extendsfdf2(Answer)
       IN /\ back.s = A.s /\ back.e = A.e
          /\ back.m <= A.m /\ A.m < back.m + 2^Low
=============================================================================
