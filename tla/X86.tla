-------------------------------- MODULE X86 --------------------------------
(***************************************************************************)
(* The host CPU, as far as the code that src/src/emu/dbt.rs emits uses it, *)
(* and the emulator's handler for its divide faults (signal.rs).           *)
(*                                                                         *)
(* An instruction is a tuple <<mnemonic, operand...>>; an operand is one of*)
(* <<"r", name, w>> (register), <<"x", n, w>> (the guest register n in the *)
(* Context), <<"f", field>> (another field of the Context), <<"m", w>>     *)
(* (guest memory at RSI) and <<"i", v>> (immediate).  The CPU is a record  *)
(* [r, x, f, mem, fl]: the host registers, the guest registers, the fields *)
(* of the Context, the guest memory, and the flags of the last compare.    *)
(***************************************************************************)
EXTENDS Words, Sequences

R(n, w) == <<"r", n, w>>
X(n, w) == <<"x", n, w>>
F(f)    == <<"f", f>>
M(w)    == <<"m", w>>
I(v)    == <<"i", v>>

RAX == R("A", W64)
EAX == R("A", W32)
AL == R("A", W8)
RCX == R("C", W64)
ECX == R("C", W32)
CL == R("C", W8)
RDX == R("D", W64)
EDX == R("D", W32)
RSI == R("S", W64)
RBX == R("B", W64)

Width(o) == CASE o[1] \in {"r", "x"} -> o[3] [] o[1] = "m" -> o[2] [] o[1] = "f" -> W64

Get(c, o) == CASE o[1] = "r" -> Unsigned(c.r[o[2]], o[3])
               [] o[1] = "x" -> Unsigned(c.x[o[2]], o[3])
               [] o[1] = "f" -> c.f[o[2]]
               [] o[1] = "m" -> Unsigned(c.mem[c.r["S"]], o[2])
               [] o[1] = "i" -> o[2]

\* A 32-bit register write clears the upper half, an 8-bit one keeps the rest.
Put(c, o, v) ==
    LET low(old, w) == (old - Unsigned(old, w)) + Unsigned(v, w)
    IN  CASE o[1] = "r" -> [c EXCEPT !.r[o[2]] = IF o[3] = W8 THEN low(@, W8)
                                                              ELSE Unsigned(v, o[3])]
          [] o[1] = "x" -> [c EXCEPT !.x[o[2]] = low(@, o[3])]
          [] o[1] = "f" -> [c EXCEPT !.f[o[2]] = Unsigned(v, W64)]
          [] o[1] = "m" -> [c EXCEPT !.mem[c.r["S"]] = low(@, o[2])]

Compare(c, a, b, w) ==
    [c EXCEPT !.fl = [e |-> Unsigned(a, w) = Unsigned(b, w),
                      b |-> Unsigned(a, w) < Unsigned(b, w),
                      l |-> Signed(a, w) < Signed(b, w)]]

Cond(fl, cc) ==
    CASE cc = "Equal"      -> fl.e          [] cc = "NotEqual"     -> ~fl.e
      [] cc = "Below"      -> fl.b          [] cc = "AboveEqual"   -> ~fl.b
      [] cc = "BelowEqual" -> fl.b \/ fl.e  [] cc = "Above"        -> ~(fl.b \/ fl.e)
      [] cc = "Less"       -> fl.l          [] cc = "GreaterEqual" -> ~fl.l
      [] cc = "LessEqual"  -> fl.l \/ fl.e  [] cc = "Greater"      -> ~(fl.l \/ fl.e)

AluOps == {"add", "sub", "xor", "and", "or", "shl", "shr", "sar", "imul2"}

Alu(op, a, b, w) ==
    LET n == b % w  ub == Unsigned(b, w)
    IN  CASE op = "add"   -> a + b
          [] op = "sub"   -> a - b
          [] op = "xor"   -> a ^^ ub
          [] op = "and"   -> a & ub
          [] op = "or"    -> a | ub
          [] op = "shl"   -> a * 2^n
          [] op = "shr"   -> a \div 2^n
          [] op = "sar"   -> Signed(a, w) \div 2^n
          [] op = "imul2" -> Signed(a, w) * Signed(b, w)

AluStep(c, op, d, v) == LET r == Alu(op, Get(c, d), v, Width(d))
                        IN  Compare(Put(c, d, r), r, 0, Width(d))

\* The one-operand multiplications leave a double word in RDX and RAX.
MulStep(c, p, w) == Put(Put(c, R("A", w), p), R("D", w), p \div 2^w)

(***************************************************************************)
(* SIGFPE.  The handler gives the quotient and the remainder that RISC-V   *)
(* asks for and resumes after the division.                                *)
(***************************************************************************)
handle_fpe(c, o) ==
    LET w == Width(o)  dividend == Unsigned(c.r["A"], w)
    IN  IF Get(c, o) = 0
        THEN [c EXCEPT !.r["A"] = Unsigned(-1, w), !.r["D"] = dividend]
        ELSE [c EXCEPT !.r["A"] = dividend, !.r["D"] = 0]

DivStep(c, o, signed) ==
    LET w == Width(o)
        hi == Unsigned(c.r["D"], w)
        n == (IF signed THEN Signed(hi, w) ELSE hi) * 2^w + Unsigned(c.r["A"], w)
        d == IF signed THEN Signed(Get(c, o), w) ELSE Get(c, o)
        q == Quot(n, d)
        fits == IF signed THEN q \in -(2^(w - 1))..(2^(w - 1) - 1) ELSE q \in 0..(2^w - 1)
    IN  IF d = 0 \/ ~fits THEN handle_fpe(c, o)
        ELSE Put(Put(c, R("A", w), q), R("D", w), Rmdr(n, d))

\* One instruction that does not jump.
Exec(c, i) ==
    LET op == i[1]
    IN  CASE op = "mov"    -> Put(c, i[2], Get(c, i[3]))
          [] op = "movsx"  -> Put(c, i[2], Signed(Get(c, i[3]), Width(i[3])))
          [] op = "movzx"  -> Put(c, i[2], Get(c, i[3]))
          [] op = "lea"    -> Put(c, i[2], Get(c, i[3]) + i[4])
          [] op \in AluOps -> AluStep(c, op, i[2], Get(c, i[3]))
          [] op = "not"    -> Put(c, i[2], -1 - Get(c, i[2]))
          [] op = "neg"    -> Put(c, i[2], -Get(c, i[2]))
          [] op = "cmp"    -> Compare(c, Get(c, i[2]), Get(c, i[3]), Width(i[2]))
          [] op = "setcc"  -> Put(c, i[2], Bool(Cond(c.fl, i[3])))
          [] op = "cmovcc" -> IF Cond(c.fl, i[4]) THEN Put(c, i[2], Get(c, i[3])) ELSE c
          [] op = "cdqe"   -> Put(c, RAX, Signed(c.r["A"], W32))
          [] op = "cqo"    -> Put(c, RDX, IF Signed(c.r["A"], W64) < 0 THEN -1 ELSE 0)
          [] op = "cdq"    -> Put(c, EDX, IF Signed(c.r["A"], W32) < 0 THEN -1 ELSE 0)
          [] op = "mul"    -> MulStep(c, c.r["A"] * Get(c, i[2]), W64)
          [] op = "imul1"  -> MulStep(c, Signed(c.r["A"], W64) * Signed(Get(c, i[2]), W64),
                                      W64)
          [] op = "div"    -> DivStep(c, i[2], FALSE)
          [] op = "idiv"   -> DivStep(c, i[2], TRUE)
          [] op = "xchg"   -> Put(Put(c, i[3], Get(c, i[2])), i[2], Get(c, i[3]))
          [] op = "xadd"   -> Put(Put(c, i[2], Get(c, i[2]) + Get(c, i[3])), i[3], Get(c, i[2]))
          [] op = "cmpxchg" ->
                 LET w == Width(i[2])  old == Get(c, i[2])  acc == R("A", w)
                     d == Compare(c, Get(c, acc), old, w)
                 IN  IF old = Get(c, acc) THEN Put(d, i[2], Get(c, i[3])) ELSE Put(d, acc, old)

\* Where the slow path for misaligned addresses starts, beyond the code.
Slow(code) == Len(code) + 2

\* The index of the next instruction.  A "jcc" holds its distance; "ret"
\* leaves the code, whatever follows it; "align" stands for the test of RSI
\* and the jump to the slow path.
NextIp(c, code, n) ==
    CASE code[n][1] = "jcc" -> IF Cond(c.fl, code[n][2]) THEN n + code[n][3] ELSE n + 1
      [] code[n][1] = "ret" -> Len(code) + 1
      [] code[n][1] = "align" -> IF c.r["S"] % code[n][2] # 0 THEN Slow(code) ELSE n + 1
      [] OTHER              -> n + 1

ExecAt(c, code, n) == IF code[n][1] \in {"jcc", "ret", "align"} THEN c ELSE Exec(c, code[n])

\* Run code from its n-th instruction to its end.
RECURSIVE Run(_, _, _)
Run(c, code, n) == IF n > Len(code) THEN c
                   ELSE Run(ExecAt(c, code, n), code, NextIp(c, code, n))
=============================================================================
