------------------------------- MODULE FpRef --------------------------------
(***************************************************************************)
(* What floating-point operations should return, after IEEE 754 with the   *)
(* canonical NaN and tininess after rounding, as RISC-V has them.  Finite  *)
(* numbers are integer multiples of the smallest subnormal; a result is an *)
(* exact rational n/d of that unit, or a square root, rounded once.  No    *)
(* definition of SoftFp that computes is used here.                        *)
(***************************************************************************)
EXTENDS SoftFp

\* The magnitude of a finite number in units, and the unit: 2^-One(F).
Units(F, x) ==
    LET e == biased_exponent(F, x)
        t == trailing_significand(F, x)
    IN IF e = 0 THEN t ELSE (t + 2^F.m) * 2^(e - 1)
SignedUnits(F, x) == IF sign(F, x) = 1 THEN -Units(F, x) ELSE Units(F, x)
One(F) == F.m + Bias(F) - 1

\* A magnitude: n/d, or its square root.
Ratio(n, d) == [n |-> n, d |-> d, sqrt |-> FALSE]
SqrtOf(n) == [n |-> n, d |-> 1, sqrt |-> TRUE]

\* Compare k/h with the magnitude x.
Versus(k, h, x) == IF x.sqrt THEN Compare(k * k, x.n * h * h)
                             ELSE Compare(k * x.d, x.n * h)

\* The integer part of the square root of n, which is in lo..hi.
RECURSIVE Isqrt(_, _, _)
Isqrt(n, lo, hi) ==
    LET mid == (lo + hi + 1) \div 2
    IN IF lo = hi THEN lo
       ELSE IF mid * mid <= n THEN Isqrt(n, mid, hi) ELSE Isqrt(n, lo, mid - 1)

\* The largest integer k with k * q at most x.
Floor(x, q) == IF x.sqrt THEN Isqrt(x.n \div (q * q), 0, 2^15)
                         ELSE x.n \div (x.d * q)

Exact(x, q) == Versus(Floor(x, q) * q, 1, x) = 0

\* x / q rounded to an integer.
Nearest(s, x, q, rm) ==
    LET k == Floor(x, q)
        half == Versus((2 * k + 1) * q, 2, x)
        up == CASE rm = "TiesToEven" -> half = -1 \/ (half = 0 /\ k % 2 = 1)
                [] rm = "TiesToAway" -> half <= 0
                [] rm = "TowardZero" -> FALSE
                [] rm = "TowardNegative" -> s = 1
                [] rm = "TowardPositive" -> s = 0
    IN IF ~Exact(x, q) /\ up THEN k + 1 ELSE k

\* The quantum of x: the distance of the numbers of format F around it.
Quantum(F, x) ==
    LET n == Floor(x, 1) IN IF n < 2^(F.m + 1) THEN 1 ELSE 2^(log2_floor(n) - F.m)

MaxUnits(F) == (2^(F.m + 1) - 1) * 2^(InfExp(F) - 2)

Encode(F, s, n) == CHOOSE x \in 0..(2^Width(F) - 1) :
                     /\ sign(F, x) = s /\ biased_exponent(F, x) # InfExp(F)
                     /\ Units(F, x) = n

\* With half the unit as quantum, x still rounds to less than a normal number.
Tiny(F, s, x, rm) ==
    LET y == IF x.sqrt THEN [x EXCEPT !.n = 4 * @] ELSE [x EXCEPT !.n = 2 * @]
    IN Versus(2^F.m, 1, x) > 0 /\ Nearest(s, y, 1, rm) < 2^(F.m + 1)

Rounded(F, s, x, rm) ==
    LET q == Quantum(F, x)
        n == Nearest(s, x, q, rm) * q
        nx == ~Exact(x, q)
        away == \/ rm \in {"TiesToEven", "TiesToAway"}
                \/ rm = "TowardNegative" /\ s = 1
                \/ rm = "TowardPositive" /\ s = 0
    IN IF n > MaxUnits(F)
       THEN Result(IF away THEN infinity(F, s) ELSE Encode(F, s, MaxUnits(F)),
                   {"OF", "NX"})
       ELSE Result(Encode(F, s, n),
                   If(nx, "NX") \cup If(nx /\ Tiny(F, s, x, rm), "UF"))

-----------------------------------------------------------------------------
NaNs(F, S) == Result(quiet_nan(F), If(\E x \in S : is_signaling(F, x), "NV"))
SomeNaN(F, S) == \E x \in S : is_nan(F, x)
SomeInf(F, S) == \E x \in S : is_infinite(F, x)

\* A sum that is exactly zero: the sign of the terms if they agree.
ZeroSum(F, s, t, rm) ==
    Result(zero(F, IF s = t THEN s ELSE IF rm = "TowardNegative" THEN 1 ELSE 0), {})

RoundedSum(F, n, d, s, t, rm) ==
    IF n = 0 THEN ZeroSum(F, s, t, rm)
    ELSE Rounded(F, IF n < 0 THEN 1 ELSE 0, Ratio(IF n < 0 THEN -n ELSE n, d), rm)

RefAdd(F, a, b, rm) ==
    CASE SomeNaN(F, {a, b}) -> NaNs(F, {a, b})
      [] is_infinite(F, a) /\ is_infinite(F, b) ->
           IF a = b THEN Result(a, {}) ELSE Result(quiet_nan(F), {"NV"})
      [] is_infinite(F, a) /\ ~SomeNaN(F, {b}) /\ ~is_infinite(F, b) -> Result(a, {})
      [] is_infinite(F, b) /\ ~SomeNaN(F, {a}) /\ ~is_infinite(F, a) -> Result(b, {})
      [] OTHER -> RoundedSum(F, SignedUnits(F, a) + SignedUnits(F, b), 1,
                             sign(F, a), sign(F, b), rm)

RefMul(F, a, b, rm) ==
    LET s == Xor(sign(F, a), sign(F, b)) IN
    CASE SomeNaN(F, {a, b}) -> NaNs(F, {a, b})
      [] SomeInf(F, {a, b}) /\ ~SomeNaN(F, {a, b}) ->
           IF is_zero(F, a) \/ is_zero(F, b) THEN Result(quiet_nan(F), {"NV"})
           ELSE Result(infinity(F, s), {})
      [] OTHER -> Rounded(F, s, Ratio(Units(F, a) * Units(F, b), 2^One(F)), rm)

RefDiv(F, a, b, rm) ==
    LET s == Xor(sign(F, a), sign(F, b)) IN
    IF SomeNaN(F, {a, b}) THEN NaNs(F, {a, b})
    ELSE IF \/ is_infinite(F, a) /\ is_infinite(F, b)
            \/ is_zero(F, a) /\ is_zero(F, b) THEN Result(quiet_nan(F), {"NV"})
    ELSE IF is_infinite(F, a) THEN Result(infinity(F, s), {})
    ELSE IF is_infinite(F, b) THEN Result(zero(F, s), {})
    ELSE IF is_zero(F, b) THEN Result(infinity(F, s), {"DZ"})
    ELSE Rounded(F, s, Ratio(Units(F, a) * 2^One(F), Units(F, b)), rm)

RefSqrt(F, a, rm) ==
    IF is_nan(F, a) THEN NaNs(F, {a})
    ELSE IF is_zero(F, a) THEN Result(a, {})
    ELSE IF sign(F, a) = 1 THEN Result(quiet_nan(F), {"NV"})
    ELSE IF is_infinite(F, a) THEN Result(a, {})
    ELSE Rounded(F, 0, SqrtOf(Units(F, a) * 2^One(F)), rm)

RefFma(F, a, b, c, rm) ==
    LET s == Xor(sign(F, a), sign(F, b))
        invalid == SomeInf(F, {a, b}) /\ (is_zero(F, a) \/ is_zero(F, b))
        p == Units(F, a) * Units(F, b)
    IN IF SomeNaN(F, {a, b}) THEN NaNs(F, {a, b, c})
       ELSE IF invalid THEN Result(quiet_nan(F), {"NV"})
       ELSE IF is_nan(F, c) THEN NaNs(F, {c})
       ELSE IF SomeInf(F, {a, b})
       THEN IF is_infinite(F, c) /\ sign(F, c) # s THEN Result(quiet_nan(F), {"NV"})
            ELSE Result(infinity(F, s), {})
       ELSE IF is_infinite(F, c) THEN Result(c, {})
       ELSE RoundedSum(F, (IF s = 1 THEN -p ELSE p) + SignedUnits(F, c) * 2^One(F),
                       2^One(F), s, sign(F, c), rm)

RefFromInt(F, n, rm) ==
    IF n = 0 THEN Result(zero(F, 0), {})
    ELSE LET s == IF n < 0 THEN 1 ELSE 0
         IN Rounded(F, s, Ratio((IF n < 0 THEN -n ELSE n) * 2^One(F), 1), rm)

\* To the integers lo..hi, as two's complement of width w.
RefToInt(F, a, w, lo, hi, rm) ==
    IF is_nan(F, a) THEN Result(hi, {"NV"})
    ELSE LET s == sign(F, a)
             x == Ratio(Units(F, a), 2^One(F))
             k == Nearest(s, x, 1, rm)
             n == IF s = 1 THEN -k ELSE k
         IN IF is_infinite(F, a) \/ n < lo \/ n > hi
            THEN Result((IF s = 1 THEN lo ELSE hi) % 2^w, {"NV"})
            ELSE Result(n % 2^w, If(~Exact(x, 1), "NX"))

\* F to G: the same number in the units of G.
RefFormat(F, G, a, rm) ==
    IF is_nan(F, a) THEN Result(quiet_nan(G), If(is_signaling(F, a), "NV"))
    ELSE IF is_infinite(F, a) THEN Result(infinity(G, sign(F, a)), {})
    ELSE Rounded(G, sign(F, a), Ratio(Units(F, a) * 2^One(G), 2^One(F)), rm)

\* The order of the numbers themselves.
RefOrder(F, a, b) ==
    LET big == 2 * MaxUnits(F)
        val(x) == IF is_infinite(F, x)
                  THEN IF sign(F, x) = 1 THEN -big ELSE big ELSE SignedUnits(F, x)
    IN IF SomeNaN(F, {a, b}) THEN Unordered ELSE Compare(val(a), val(b))

=============================================================================
