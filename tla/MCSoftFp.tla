------------------------------ MODULE MCSoftFp ------------------------------
(***************************************************************************)
(* SoftFp for TLC: every operation on every operand of small formats, in   *)
(* every rounding mode, against FpRef.                                     *)
(***************************************************************************)
EXTENDS FpRef

CONSTANTS Exp, Sig,    \* the format of the arithmetic
          Exp2, Sig2,  \* a wider one
          Ints         \* widths of integers

VARIABLES op, F, a, b, c, w, rm, result

vars == <<op, F, a, b, c, w, rm, result>>

Narrow == [e |-> Exp, m |-> Sig]
Wide == [e |-> Exp2, m |-> Sig2]
Other(f) == IF f = Narrow THEN Wide ELSE Narrow
Fp(f) == 0..(2^Width(f) - 1)

\* As 32 and 64 bits are to the significands of 23 and 52 bits: an integer is
\* either well wider or well narrower.
IntsFor(f) == {x \in Ints : x > f.m + 1 \/ x < f.m - 1}

None == [v |-> -1, f |-> {}]

Init ==
    /\ op \in {"add", "sub", "mul", "div", "fma", "sqrt", "from_uint", "from_sint",
               "to_uint", "to_sint", "format", "eq", "lt", "min", "max", "class"}
    /\ F \in IF op \in {"add", "sub", "mul", "div", "fma", "eq", "lt", "min", "max", "class"}
             THEN {Narrow} ELSE {Narrow, Wide}
    /\ IF op \in {"from_uint", "from_sint"}
       THEN \E x \in Ints : w = x /\ a \in 0..(2^w - 1)
       ELSE a \in Fp(F) /\ w \in IF op \in {"to_uint", "to_sint"} THEN IntsFor(F) ELSE {0}
    /\ b \in IF op \in {"add", "sub", "mul", "div", "fma", "eq", "lt", "min", "max", "class"}
             THEN Fp(F) ELSE {0}
    /\ op = "fma" => b <= a   \* of either order of the factors, which "mul" has both of
    /\ c = 0 /\ rm = "TiesToEven" /\ result = None

Binary ==
    /\ result = None
    /\ rm' \in Modes
    /\ \/ op = "add" /\ result' = add(F, a, b, rm')
       \/ op = "sub" /\ result' = sub(F, a, b, rm')
       \/ op = "mul" /\ result' = multiply(F, a, b, rm')
       \/ op = "div" /\ result' = divide(F, a, b, rm')
    /\ UNCHANGED <<op, F, a, b, c, w>>

Fused ==
    /\ result = None /\ op = "fma"
    /\ rm' \in Modes /\ c' \in Fp(F)
    /\ result' = fused_multiply_add(F, a, b, c', rm')
    /\ UNCHANGED <<op, F, a, b, w>>

Unary ==
    /\ result = None
    /\ rm' \in Modes
    /\ \/ op = "sqrt" /\ result' = square_root(F, a, rm')
       \/ op = "from_uint" /\ result' = convert_from_uint(F, a, w, rm')
       \/ op = "from_sint" /\ result' = convert_from_sint(F, a, w, rm')
       \/ op = "to_uint" /\ result' = convert_to_uint(F, a, w, rm')
       \/ op = "to_sint" /\ result' = convert_to_sint(F, a, w, rm')
       \/ op = "format" /\ result' = convert_format(F, Other(F), a, rm')
    /\ UNCHANGED <<op, F, a, b, c, w>>

Comparison ==
    /\ result = None
    /\ \/ op = "eq" /\ result' = compare_quiet(F, a, b)
       \/ op = "lt" /\ result' = compare_signaling(F, a, b)
       \/ op = "min" /\ result' = min(F, a, b)
       \/ op = "max" /\ result' = max(F, a, b)
       \/ op = "class" /\ result' = Result(classify(F, a), {})
    /\ UNCHANGED <<op, F, a, b, c, w, rm>>

Next == Binary \/ Fused \/ Unary \/ Comparison

Spec == Init /\ [][Next]_vars

-----------------------------------------------------------------------------
Reference ==
    CASE op = "add" -> RefAdd(F, a, b, rm)
      [] op = "sub" -> RefAdd(F, a, negate(F, b), rm)
      [] op = "mul" -> RefMul(F, a, b, rm)
      [] op = "div" -> RefDiv(F, a, b, rm)
      [] op = "fma" -> RefFma(F, a, b, c, rm)
      [] op = "sqrt" -> RefSqrt(F, a, rm)
      [] op = "from_uint" -> RefFromInt(F, a, rm)
      [] op = "from_sint" ->
           RefFromInt(F, IF a >= 2^(w - 1) THEN a - 2^w ELSE a, rm)
      [] op = "to_uint" -> RefToInt(F, a, w, 0, 2^w - 1, rm)
      [] op = "to_sint" -> RefToInt(F, a, w, -(2^(w - 1)), 2^(w - 1) - 1, rm)
      [] op = "format" -> RefFormat(F, Other(F), a, rm)

\* Operands for which the code is known to differ, see the README: the flag of
\* the root of a signaling NaN, and the sign of a zero product plus a zero.
Unusual == \/ op = "sqrt" /\ is_signaling(F, a)
           \/ op = "fma" /\ is_zero(F, c) /\ (is_zero(F, a) \/ is_zero(F, b))

\* Addition, subtraction, multiplication, division, square root and fused
\* multiply-add return the exact result rounded once, and raise exactly the
\* flags of that rounding, for all operands and in all rounding modes.
ArithmeticRight ==
    /\ result # None /\ ~Unusual
    /\ op \in {"add", "sub", "mul", "div", "fma", "sqrt"}
    => result = Reference

\* Converting an integer to a float, a float to an integer or a float to the
\* other format returns the exact value rounded once, or saturates, and raises
\* exactly the flags of that. Stated except for the operands from 2^w to
\* 2^(w + 2), which convert_to_int's check lets through: see IntegersSaturate.
ConversionsRight ==
    /\ result # None
    /\ op \in {"from_uint", "from_sint", "to_uint", "to_sint", "format"}
    /\ op \in {"to_uint", "to_sint"} => biased_exponent(F, a) - Bias(F) \notin {w, w + 1}
    => result = Reference

\* A float too large for the integer becomes the largest one and raises the
\* invalid flag: convert_to_int refuses to shift when "the target type may not
\* have enough bits for that".
IntegersSaturate ==
    result # None /\ op \in {"to_uint", "to_sint"} => result = Reference

\* compare_quiet and compare_signaling order two numbers by their values, and
\* only the latter signals a NaN; the classes of numbers are in the same order;
\* min and max return the operand that no other
\* one is below or above, and a number rather than a quiet NaN.
OrderRight ==
    result # None =>
      /\ op = "eq" => result = Result(RefOrder(F, a, b), {})
      /\ op = "lt" => result = Result(RefOrder(F, a, b),
                                     If(SomeNaN(F, {a, b}), "NV"))
      /\ op = "class" =>
           IF is_nan(F, a) THEN result.v = IF is_signaling(F, a) THEN 8 ELSE 9
           ELSE RefOrder(F, a, b) = -1 => result.v <= classify(F, b)
      /\ op \in {"min", "max"} =>
           LET numbers == {x \in {a, b} : ~is_nan(F, x)}
               signals == \E x \in {a, b} : is_signaling(F, x)
           IN /\ result.f = If(signals, "NV")
              /\ IF signals \/ numbers = {} THEN result.v = quiet_nan(F)
                 ELSE /\ result.v \in numbers
                      /\ \A x \in numbers :
                           RefOrder(F, x, result.v) # IF op = "min" THEN -1 ELSE 1

=============================================================================
