------------------------------- MODULE Words -------------------------------
(***************************************************************************)
(* Machine words, as naturals below a power of two, and the conversions    *)
(* the emulator and the host CPU apply to them.  The widths of the code,   *)
(* 64, 32, 16 and 8 bits, are scaled down to W64, W32, W16 and W8.  What   *)
(* the scaling keeps: they are different, a W32 is half a W64, and a W8    *)
(* can hold every shift count of a W64.                                    *)
(***************************************************************************)
EXTENDS Integers, Bitwise

CONSTANTS W64, W32, W16, W8

ASSUME WidthAssumption ==
    /\ {W64, W32, W16, W8} \subseteq Nat \ {0}
    /\ W64 = 2 * W32
    /\ 2^W8 % W64 = 0

Unsigned(v, w) == v % 2^w

Signed(v, w) == LET u == v % 2^w IN IF u >= 2^(w - 1) THEN u - 2^w ELSE u

\* "as i32 as u64" and its likes: a value read at width w, as a register.
Sext(v, w) == Unsigned(Signed(v, w), W64)

\* The size in bytes of a word of the code that w stands for.
Bytes(w) == CASE w = W64 -> 8 [] w = W32 -> 4 [] w = W16 -> 2 [] w = W8 -> 1

Bool(b) == IF b THEN 1 ELSE 0

Abs(v) == IF v < 0 THEN -v ELSE v

\* Division that rounds towards zero, and its remainder.
Quot(a, b) == IF (a < 0) = (b < 0) THEN Abs(a) \div Abs(b)
                                   ELSE -(Abs(a) \div Abs(b))
Rmdr(a, b) == a - b * Quot(a, b)
=============================================================================
