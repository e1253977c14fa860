------------------------------- MODULE SoftFp -------------------------------
(***************************************************************************)
(* Software floating point (src/lib/softfp/src/fp.rs), for any format.  A  *)
(* format F (FpDesc) has F.e exponent and F.m significand bits; a number   *)
(* is its encoding, as in Fp.0.  The code has (8, 23) and (11, 52); its    *)
(* comments require only that significands with four bits more fit the     *)
(* holder, whose width is that of the encoding.                            *)
(*                                                                         *)
(* An operation returns [v, f]: the encoding and the exception flags it    *)
(* sets.  rm is the current rounding mode.                                 *)
(***************************************************************************)
EXTENDS Integers

Modes == {"TiesToEven", "TowardZero", "TowardNegative", "TowardPositive",
          "TiesToAway"}

Result(v, f) == [v |-> v, f |-> f]
If(c, flag) == IF c THEN {flag} ELSE {}

Xor(s, t) == (s + t) % 2
Shl(x, n, width) == (x * 2^n) % 2^width
Or1(x, c) == IF c /\ x % 2 = 0 THEN x + 1 ELSE x
log2_floor(x) == CHOOSE k \in 0..x : 2^k <= x /\ x < 2^(k + 1)

Width(F) == 1 + F.e + F.m
Bias(F) == 2^(F.e - 1) - 1
InfExp(F) == 2^F.e - 1
MinExp(F) == 1 - Bias(F)
MaxExp(F) == InfExp(F) - 1 - Bias(F)

-----------------------------------------------------------------------------
(* Components, classification and order.                                   *)

sign(F, x) == x \div 2^(F.e + F.m)
biased_exponent(F, x) == (x \div 2^F.m) % 2^F.e
trailing_significand(F, x) == x % 2^F.m

\* set_sign, set_biased_exponent and set_trailing_significand keep what fits.
Make(F, s, e, t) == s * 2^(F.e + F.m) + (e % 2^F.e) * 2^F.m + (t % 2^F.m)

quiet_nan(F) == Make(F, 0, InfExp(F), 2^(F.m - 1))
infinity(F, s) == Make(F, s, InfExp(F), 0)
zero(F, s) == Make(F, s, 0, 0)
abs(F, x) == x % 2^(F.e + F.m)
copy_sign(F, x, s) == abs(F, x) + s * 2^(F.e + F.m)
negate(F, x) == copy_sign(F, x, 1 - sign(F, x))

is_zero(F, x) == abs(F, x) = 0
is_infinite(F, x) == abs(F, x) = infinity(F, 0)
is_nan(F, x) == abs(F, x) > infinity(F, 0)
is_signaling(F, x) ==
    is_nan(F, x) /\ trailing_significand(F, x) < 2^(F.m - 1)

classify(F, x) ==
    LET e == biased_exponent(F, x)
        t == trailing_significand(F, x)
        positive == CASE e = 0 -> IF t = 0 THEN 4 ELSE 5
                      [] e = InfExp(F) -> 7
                      [] OTHER -> 6
    IN IF is_nan(F, x) THEN IF is_signaling(F, x) THEN 8 ELSE 9
       ELSE IF sign(F, x) = 1 THEN 7 - positive ELSE positive

\* Orderings are -1, 0 and 1.
Compare(x, y) == IF x < y THEN -1 ELSE IF x > y THEN 1 ELSE 0
total_order_magnitude(F, a, b) == Compare(abs(F, a), abs(F, b))
\* Mutant: negative numbers are ordered by magnitude like positive ones.
total_order_unsigned(F, a, b) ==
    IF sign(F, a) = sign(F, b) THEN total_order_magnitude(F, a, b)
    ELSE IF sign(F, a) = 1 THEN -1 ELSE 1

total_order(F, a, b) ==
    IF sign(F, a) = sign(F, b)
    THEN IF sign(F, a) = 1 THEN -total_order_magnitude(F, a, b)
                           ELSE total_order_magnitude(F, a, b)
    ELSE IF sign(F, a) = 1 THEN -1 ELSE 1

Unordered == 2
Ordering(F, a, b) ==
    IF is_nan(F, a) \/ is_nan(F, b) THEN Unordered
    ELSE IF is_zero(F, a) /\ is_zero(F, b) THEN 0 ELSE total_order(F, a, b)

compare_quiet(F, a, b) == Result(Ordering(F, a, b), {})
compare_signaling(F, a, b) ==
    Result(Ordering(F, a, b), If(is_nan(F, a) \/ is_nan(F, b), "NV"))

min_max(F, a, b) ==
    LET both(x, f) == [min |-> x, max |-> x, f |-> f] IN
    CASE is_signaling(F, a) \/ is_signaling(F, b) -> both(quiet_nan(F), {"NV"})
      [] is_nan(F, a) /\ is_nan(F, b) -> both(quiet_nan(F), {})
      [] is_nan(F, a) /\ ~is_nan(F, b) -> both(b, {})
      [] ~is_nan(F, a) /\ is_nan(F, b) -> both(a, {})
      [] OTHER -> IF total_order(F, a, b) = -1 THEN [min |-> a, max |-> b, f |-> {}]
                                               ELSE [min |-> b, max |-> a, f |-> {}]

min(F, a, b) == Result(min_max(F, a, b).min, min_max(F, a, b).f)
max(F, a, b) == Result(min_max(F, a, b).max, min_max(F, a, b).f)

-----------------------------------------------------------------------------
(* Shifting and rounding.                                                  *)

right_shift(x, n, width) ==
    LET k == IF n >= width THEN width ELSE n
    IN Or1(x \div 2^k, x % 2^k # 0)

\* Two more bits than the significand: [inexact, v].
round_significand(s, x, rm) ==
    LET up == CASE rm = "TiesToEven" -> ((x \div 4) % 2) + 1
                [] rm = "TowardZero" -> 0
                [] rm = "TowardNegative" -> 3 * s
                [] rm = "TowardPositive" -> 3 * (1 - s)
                [] rm = "TiesToAway" -> 2
    IN [inexact |-> x % 4 # 0,
        v |-> (IF x % 4 # 0 THEN x + up ELSE x) \div 4]

round_overflow(F, s, rm) ==
    Result(IF \/ s = 1 /\ rm = "TowardPositive"
              \/ s = 0 /\ rm = "TowardNegative"
              \/ rm = "TowardZero"
           THEN infinity(F, s) - 1 ELSE infinity(F, s),
           {"OF", "NX"})

\* Mutant: a number is tiny whenever its encoding was before rounding.
underflow_early(F, s, x, rm) == TRUE

\* At the border to the normal numbers: whether rounding without a bound on
\* the exponent gives something smaller.
underflow(F, s, x, rm) == round_significand(s, x, rm).v # 2^(F.m + 1)

round(F, s, exponent, x, rm) ==
    LET sub == exponent < MinExp(F)
        r == round_significand(
               s, IF sub THEN right_shift(x, MinExp(F) - exponent, Width(F)) ELSE x,
               rm)
        carry == r.inexact /\ r.v = 2^(F.m + 1)
        e == IF carry THEN exponent + 1 ELSE exponent
        v == IF carry THEN r.v \div 2 ELSE r.v
        nx == If(r.inexact, "NX")
    IN CASE exponent > MaxExp(F) \/ e > MaxExp(F) ->
              Result(round_overflow(F, s, rm).v, {"OF", "NX"})
         [] e < MinExp(F) /\ v = 2^F.m ->
              Result(Make(F, s, 1, 0), nx \cup If(underflow(F, s, x, rm), "UF"))
         [] e < MinExp(F) /\ v # 2^F.m ->
              Result(Make(F, s, 0, v), nx \cup If(r.inexact, "UF"))
         [] OTHER -> Result(Make(F, s, e + Bias(F), v), nx)

\* x, of any width, has its point above bit F.m + 2.
normalize_and_round(F, s, exponent, x, width, rm) ==
    LET diff == log2_floor(x) - 2 - F.m
    IN round(F, s, exponent + diff,
             IF diff <= 0 THEN Shl(x, -diff, Width(F))
                          ELSE right_shift(x, diff, width) % 2^Width(F), rm)

propagate_nan(F, a, b) ==
    Result(quiet_nan(F), If(is_signaling(F, a) \/ is_signaling(F, b), "NV"))

Invalid(F) == Result(quiet_nan(F), {"NV"})

cancellation_zero(F, rm) ==
    Result(zero(F, IF rm = "TowardNegative" THEN 1 ELSE 0), {})

\* [e, x]: the exponent and the significand with two bits for rounding.
get_significand(F, x) ==
    LET e == biased_exponent(F, x)
        t == trailing_significand(F, x)
    IN IF e = 0 THEN [e |-> MinExp(F), x |-> t * 4]
                ELSE [e |-> e - Bias(F), x |-> (t + 2^F.m) * 4]

get_normalized_significand(F, x) ==
    LET n == get_significand(F, x)
        diff == F.m + 2 - log2_floor(n.x)
    IN [e |-> n.e - diff, x |-> Shl(n.x, diff, Width(F))]

-----------------------------------------------------------------------------
(* Arithmetic.                                                             *)

add_magnitude(F, a, b, rm) ==
    LET x == get_significand(F, a)
        y == get_significand(F, b)
        sum == x.x + IF x.e = y.e THEN y.x ELSE right_shift(y.x, x.e - y.e, Width(F))
        carry == sum >= 2^(F.m + 3)
    IN CASE is_infinite(F, a) -> Result(a, {})
         [] biased_exponent(F, a) = 0 ->
              Result(abs(F, trailing_significand(F, a) + trailing_significand(F, b))
                     + sign(F, a) * 2^(F.e + F.m), {})
         [] OTHER -> round(F, sign(F, a), IF carry THEN x.e + 1 ELSE x.e,
                           IF carry THEN right_shift(sum, 1, Width(F)) ELSE sum, rm)

subtract_magnitude(F, a, b, rm) ==
    LET x == get_significand(F, a)
        y == get_significand(F, b)
        diff == Shl(x.x, 1, Width(F))
                - right_shift(Shl(y.x, 1, Width(F)), x.e - y.e, Width(F))
    IN CASE is_infinite(F, a) -> IF is_infinite(F, b) THEN Invalid(F) ELSE Result(a, {})
         [] ~is_infinite(F, a) /\ x.e = y.e ->
              IF x.x = y.x THEN cancellation_zero(F, rm)
              ELSE normalize_and_round(F, sign(F, a), x.e, x.x - y.x, Width(F), rm)
         [] OTHER -> normalize_and_round(F, sign(F, a), x.e - 1, diff, Width(F), rm)

add(F, a0, b0, rm) ==
    LET less == total_order_magnitude(F, a0, b0) = -1
        a == IF less THEN b0 ELSE a0
        b == IF less THEN a0 ELSE b0
    IN CASE is_nan(F, a) -> propagate_nan(F, a, b)
         [] ~is_nan(F, a) /\ sign(F, a) = sign(F, b) -> add_magnitude(F, a, b, rm)
         [] OTHER -> subtract_magnitude(F, a, negate(F, b), rm)

sub(F, a, b, rm) == add(F, a, negate(F, b), rm)

\* The product of two finite numbers other than zero: [e, x].
Product(F, a, b) ==
    LET x == get_normalized_significand(F, a)
        y == get_normalized_significand(F, b)
    IN [e |-> x.e + y.e - F.m, x |-> (x.x \div 4) * y.x]

multiply(F, a0, b0, rm) ==
    LET less == total_order_magnitude(F, a0, b0) = -1
        a == IF less THEN b0 ELSE a0
        b == IF less THEN a0 ELSE b0
        s == Xor(sign(F, a), sign(F, b))
    IN IF is_nan(F, a) THEN propagate_nan(F, a, b)
       ELSE IF is_infinite(F, a)
       THEN IF is_zero(F, b) THEN Invalid(F) ELSE Result(infinity(F, s), {})
       ELSE IF is_zero(F, b) THEN Result(zero(F, s), {})
       ELSE LET p == Product(F, a, b)
            IN normalize_and_round(F, s, p.e, p.x, 2 * Width(F), rm)

\* The loop of divide: bit by bit, keeping the remainder over the bit.
RECURSIVE Digits(_, _, _, _, _)
Digits(F, quotient, bit, rem, y) ==
    IF bit = 1 THEN Or1(quotient, rem # 0)
    ELSE LET fits == rem >= y
         IN Digits(F, IF fits THEN quotient + bit ELSE quotient, bit \div 2,
                   Shl(IF fits THEN rem - y ELSE rem, 1, Width(F)), y)

divide(F, a, b, rm) ==
    LET s == Xor(sign(F, a), sign(F, b)) IN
    IF is_nan(F, a) \/ is_nan(F, b) THEN propagate_nan(F, a, b)
    ELSE IF is_infinite(F, a)
    THEN IF is_infinite(F, b) THEN Invalid(F) ELSE Result(infinity(F, s), {})
    ELSE IF is_infinite(F, b) THEN Result(zero(F, s), {})
    ELSE IF is_zero(F, a)
    THEN IF is_zero(F, b) THEN Invalid(F) ELSE Result(zero(F, s), {})
    ELSE IF is_zero(F, b) THEN Result(infinity(F, s), {"DZ"})
    ELSE LET x == get_normalized_significand(F, a)
             y == get_normalized_significand(F, b)
             lt == x.x < y.x
             n == IF lt THEN Shl(x.x, 1, Width(F)) ELSE x.x
         IN round(F, s, IF lt THEN x.e - y.e - 1 ELSE x.e - y.e,
                  Digits(F, 2^(F.m + 2), 2^(F.m + 1), Shl(n - y.x, 1, Width(F)), y.x),
                  rm)

\* The loop of square_root; rem is (significand - root^2) / bit / 2.
RECURSIVE Root(_, _, _, _)
Root(F, root, half_bit, rem) ==
    IF half_bit = 0 THEN Or1(root, rem # 0)
    ELSE LET fits == rem >= root + half_bit
         IN Root(F, IF fits THEN root + 2 * half_bit ELSE root, half_bit \div 2,
                 Shl(IF fits THEN rem - (root + half_bit) ELSE rem, 1, Width(F)))

square_root(F, a, rm) ==
    IF is_nan(F, a) THEN Result(quiet_nan(F), If(is_signaling(F, a), "DZ"))
    ELSE IF is_zero(F, a) THEN Result(a, {})
    ELSE IF sign(F, a) = 1 THEN Invalid(F)
    ELSE IF is_infinite(F, a) THEN Result(a, {})
    ELSE LET n == get_normalized_significand(F, a)
             odd == n.e % 2 # 0
             x == IF odd THEN Shl(n.x, 1, Width(F)) ELSE n.x
         IN round(F, 0, (IF odd THEN n.e - 1 ELSE n.e) \div 2,
                  Root(F, 2^(F.m + 2), 2^F.m, x - 2^(F.m + 2)), rm)

\* Mutant: what is shifted out of the smaller term is forgotten.
align_truncated(x, n, width) == x \div 2^n

align(x, n, width) == right_shift(x, n, width)

\* a * b + c for finite numbers other than zero.
FusedSum(F, s, p, c, rm) ==
    LET n == get_normalized_significand(F, c)
        W == 2 * Width(F)
        ec == n.e - F.m
        xc == Shl(n.x, F.m, W)
        c1 == IF ec < p.e THEN align(xc, p.e - ec, W) ELSE xc
        p1 == IF ec > p.e THEN align(p.x, ec - p.e, W) ELSE p.x
        e == IF ec > p.e THEN ec ELSE p.e
    IN CASE sign(F, c) = s -> normalize_and_round(F, s, e, p1 + c1, W, rm)
         [] sign(F, c) # s /\ p1 = c1 -> cancellation_zero(F, rm)
         [] sign(F, c) # s /\ p1 < c1 ->
              normalize_and_round(F, 1 - s, e, c1 - p1, W, rm)
         [] OTHER -> normalize_and_round(F, s, e, p1 - c1, W, rm)

fused_multiply_add(F, a0, b0, c, rm) ==
    LET less == total_order_magnitude(F, a0, b0) = -1
        a == IF less THEN b0 ELSE a0
        b == IF less THEN a0 ELSE b0
        s == Xor(sign(F, a), sign(F, b))
    IN IF is_nan(F, a)
       THEN Result(quiet_nan(F), propagate_nan(F, a, b).f
                                 \cup propagate_nan(F, quiet_nan(F), c).f)
       ELSE IF is_infinite(F, a)
       THEN IF is_zero(F, b) THEN Invalid(F)
            ELSE IF is_nan(F, c) THEN propagate_nan(F, c, c)
            ELSE IF is_infinite(F, c) /\ sign(F, c) # s THEN Invalid(F)
            ELSE Result(infinity(F, s), {})
       ELSE IF is_nan(F, c) THEN propagate_nan(F, c, c)
       ELSE IF is_infinite(F, c) THEN Result(c, {})
       ELSE IF is_zero(F, b)
       THEN IF is_zero(F, c) THEN cancellation_zero(F, rm) ELSE Result(c, {})
       ELSE LET p == Product(F, a, b)
            IN IF is_zero(F, c)
               THEN normalize_and_round(F, s, p.e, p.x, 2 * Width(F), rm)
               ELSE FusedSum(F, s, p, c, rm)

-----------------------------------------------------------------------------
(* Conversions.  Integers of width w are their two's complement.           *)

convert_from_int_with_sign(F, s, x, w, rm) ==
    IF x = 0 THEN Result(zero(F, 0), {})
    ELSE normalize_and_round(F, s, F.m + 2, x, w, rm)

convert_from_uint(F, x, w, rm) == convert_from_int_with_sign(F, 0, x, w, rm)

convert_from_sint(F, x, w, rm) ==
    IF x >= 2^(w - 1)
    THEN convert_from_int_with_sign(F, 1, (2^w - x) % 2^w, w, rm)
    ELSE convert_from_int_with_sign(F, 0, x, w, rm)

\* [s, v, f]; pmax and nmax bound the magnitude.
convert_to_int(F, a, w, pmax, nmax, rm) ==
    LET s == sign(F, a)
        bound == IF s = 1 THEN nmax ELSE pmax
        Over == [s |-> s, v |-> bound, f |-> {"NV"}]
    IN IF is_nan(F, a) THEN [s |-> 0, v |-> pmax, f |-> {"NV"}]
       ELSE IF is_infinite(F, a) THEN Over
       ELSE IF is_zero(F, a) THEN [s |-> 0, v |-> 0, f |-> {}]
       ELSE LET n == get_normalized_significand(F, a)
                ee == n.e - F.m
                r == round_significand(s, right_shift(n.x, -ee, Width(F)), rm)
                remaining == w - F.m + 1
                v == Shl(n.x \div 4, ee, w)
            IN IF ee < 0
               THEN IF r.v = 0 THEN [s |-> 0, v |-> 0, f |-> {"NX"}]
                    ELSE IF r.v > bound THEN Over
                    ELSE [s |-> s, v |-> r.v, f |-> If(r.inexact, "NX")]
               ELSE IF remaining < 0 \/ ee > remaining \/ v > bound THEN Over
               ELSE [s |-> s, v |-> v, f |-> {}]

convert_to_uint(F, a, w, rm) ==
    LET r == convert_to_int(F, a, w, 2^w - 1, 0, rm) IN Result(r.v, r.f)

convert_to_sint(F, a, w, rm) ==
    LET r == convert_to_int(F, a, w, 2^(w - 1) - 1, 2^(w - 1), rm)
    IN Result(IF r.s = 1 THEN (2^w - r.v) % 2^w ELSE r.v, r.f)

\* Mutant: the exponent is not corrected for the other width.
rebias_not(F, G, e) == e

rebias(F, G, e) == e - F.m + G.m

convert_format(F, G, a, rm) ==
    IF is_nan(F, a) THEN Result(quiet_nan(G), If(is_signaling(F, a), "NV"))
    ELSE IF is_infinite(F, a) THEN Result(infinity(G, sign(F, a)), {})
    ELSE IF is_zero(F, a) THEN Result(zero(G, sign(F, a)), {})
    ELSE LET n == get_normalized_significand(F, a)
         IN normalize_and_round(G, sign(F, a), rebias(F, G, n.e), n.x, Width(F), rm)

=============================================================================
