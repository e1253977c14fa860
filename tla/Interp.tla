------------------------------- MODULE Interp -------------------------------
(***************************************************************************)
(* What one RISC-V instruction does, as the interpreter's step computes it *)
(* (src/src/emu/interp.rs): the function `step' for the integer, multiply, *)
(* atomic and control-flow instructions.                                   *)
(*                                                                         *)
(* An instruction is a record [op, rd, rs1, rs2, imm].  The state it works *)
(* on is a record [x, pc, lr, mem, cause, tval]: the registers, the pc     *)
(* already moved past the instruction, the reservation [addr, value] of    *)
(* LR, memory, and the trap that the instruction raises (cause 0: none).   *)
(***************************************************************************)
EXTENDS Words

write_reg(x, rd, v) == IF rd = 0 THEN x ELSE [x EXCEPT ![rd] = Unsigned(v, W64)]

OpImm(op, a, imm) ==
    CASE op = "Addi"  -> a + imm
      [] op = "Slli"  -> a * 2^imm
      [] op = "Slti"  -> Bool(Signed(a, W64) < imm)
      [] op = "Sltiu" -> Bool(a < Unsigned(imm, W64))
      [] op = "Xori"  -> a ^^ Unsigned(imm, W64)
      [] op = "Srli"  -> a \div 2^imm
      [] op = "Srai"  -> Signed(a, W64) \div 2^imm
      [] op = "Ori"   -> a | Unsigned(imm, W64)
      [] op = "Andi"  -> a & Unsigned(imm, W64)

OpImm32(op, a, imm) ==
    CASE op = "Addiw" -> Sext(a + imm, W32)
      [] op = "Slliw" -> Sext(a * 2^imm, W32)
      [] op = "Srliw" -> Sext(Unsigned(a, W32) \div 2^imm, W32)
      [] op = "Sraiw" -> Signed(a, W32) \div 2^imm

OpReg(op, a, b) ==
    CASE op = "Add"  -> a + b
      [] op = "Sub"  -> a - b
      [] op = "Sll"  -> a * 2^(b % W64)
      [] op = "Slt"  -> Bool(Signed(a, W64) < Signed(b, W64))
      [] op = "Sltu" -> Bool(a < b)
      [] op = "Xor"  -> a ^^ b
      [] op = "Srl"  -> a \div 2^(b % W64)
      [] op = "Sra"  -> Signed(a, W64) \div 2^(b % W64)
      [] op = "Or"   -> a | b
      [] op = "And"  -> a & b

OpReg32(op, a, b) ==
    CASE op = "Addw" -> Sext(a + b, W32)
      [] op = "Subw" -> Sext(a - b, W32)
      [] op = "Sllw" -> Sext(a * 2^(b % W32), W32)
      [] op = "Srlw" -> Sext(Unsigned(a, W32) \div 2^(b % W32), W32)
      [] op = "Sraw" -> Signed(a, W32) \div 2^(b % W32)

\* Mulhsu is computed on unsigned words and then compensated.
MulDiv(op, a, b) ==
    LET sa == Signed(a, W64)  sb == Signed(b, W64)
    IN  CASE op = "Mul"    -> a * b
          [] op = "Mulh"   -> (sa * sb) \div 2^W64
          [] op = "Mulhsu" -> (a * b) \div 2^W64 - (IF sa < 0 THEN b ELSE 0)
          [] op = "Mulhu"  -> (a * b) \div 2^W64
          [] op = "Div"    -> IF b = 0 THEN -1 ELSE Quot(sa, sb)
          [] op = "Divu"   -> IF b = 0 THEN -1 ELSE a \div b
          [] op = "Rem"    -> IF b = 0 THEN a ELSE Rmdr(sa, sb)
          [] op = "Remu"   -> IF b = 0 THEN a ELSE a % b

MulDiv32(op, a, b) ==
    LET sa == Signed(a, W32)    sb == Signed(b, W32)
        ua == Unsigned(a, W32)  ub == Unsigned(b, W32)
    IN  Sext(CASE op = "Mulw"  -> sa * sb
               [] op = "Divw"  -> IF sb = 0 THEN -1 ELSE Quot(sa, sb)
               [] op = "Divuw" -> IF ub = 0 THEN -1 ELSE ua \div ub
               [] op = "Remw"  -> IF sb = 0 THEN sa ELSE Rmdr(sa, sb)
               [] op = "Remuw" -> IF ub = 0 THEN ua ELSE ua % ub, W32)

ImmOps == {"Addi", "Slli", "Slti", "Sltiu", "Xori", "Srli", "Srai", "Ori", "Andi"}
Imm32Ops == {"Addiw", "Slliw", "Srliw", "Sraiw"}
RegOps == {"Add", "Sub", "Sll", "Slt", "Sltu", "Xor", "Srl", "Sra", "Or", "And"}
Reg32Ops == {"Addw", "Subw", "Sllw", "Srlw", "Sraw"}
MulDivOps == {"Mul", "Mulh", "Mulhsu", "Mulhu", "Div", "Divu", "Rem", "Remu"}
MulDiv32Ops == {"Mulw", "Divw", "Divuw", "Remw", "Remuw"}
ComputeOps == ImmOps \cup Imm32Ops \cup RegOps \cup Reg32Ops
                \cup MulDivOps \cup MulDiv32Ops

Compute(i, x) ==
    LET a == x[i.rs1]  b == x[i.rs2]
    IN  CASE i.op \in ImmOps      -> OpImm(i.op, a, i.imm)
          [] i.op \in Imm32Ops    -> OpImm32(i.op, a, i.imm)
          [] i.op \in RegOps      -> OpReg(i.op, a, b)
          [] i.op \in Reg32Ops    -> OpReg32(i.op, a, b)
          [] i.op \in MulDivOps   -> MulDiv(i.op, a, b)
          [] i.op \in MulDiv32Ops -> MulDiv32(i.op, a, b)
          [] i.op = "Lui"         -> i.imm

(* Branches and jumps: the pc before the instruction is four behind. *)

pc_pre(pc) == pc - 4

BranchOps == {"Beq", "Bne", "Blt", "Bge", "Bltu", "Bgeu"}
JumpOps == {"Jal", "Jalr", "Auipc"}

Taken(op, a, b) ==
    CASE op = "Beq"  -> a = b
      [] op = "Bne"  -> a # b
      [] op = "Blt"  -> Signed(a, W64) < Signed(b, W64)
      [] op = "Bge"  -> Signed(a, W64) >= Signed(b, W64)
      [] op = "Bltu" -> a < b
      [] op = "Bgeu" -> a >= b

StepBranch(i, s) ==
    IF Taken(i.op, s.x[i.rs1], s.x[i.rs2])
    THEN [s EXCEPT !.pc = Unsigned(pc_pre(s.pc) + i.imm, W64)] ELSE s

\* Jalr computes its target before it writes the link register.
StepJump(i, s) ==
    CASE i.op = "Jal"   -> [s EXCEPT !.x = write_reg(s.x, i.rd, s.pc),
                                     !.pc = Unsigned(pc_pre(s.pc) + i.imm, W64)]
      [] i.op = "Jalr"  -> LET t == Unsigned(s.x[i.rs1] + i.imm, W64)
                           IN  [s EXCEPT !.x = write_reg(s.x, i.rd, s.pc), !.pc = t - (t % 2)]
      [] i.op = "Auipc" -> [s EXCEPT !.x = write_reg(s.x, i.rd, pc_pre(s.pc) + i.imm)]

(* Loads, stores and atomics: an access to the word at an aligned address. *)

Loads == [Lb |-> W8, Lh |-> W16, Lw |-> W32, Ld |-> W64,
          Lbu |-> W8, Lhu |-> W16, Lwu |-> W32]
Stores == [Sb |-> W8, Sh |-> W16, Sw |-> W32, Sd |-> W64]
LoadsUnsigned == {"Lbu", "Lhu", "Lwu"}

vaddr(i, x) == Unsigned(x[i.rs1] + i.imm, W64)

\* Overwrite the low w bits of a memory word.
Merge(old, v, w) == old - Unsigned(old, w) + Unsigned(v, w)

LoadValue(op, v) ==
    IF op \in LoadsUnsigned THEN Unsigned(v, Loads[op]) ELSE Sext(v, Loads[op])

trap(s, cause, tval) == [s EXCEPT !.cause = cause, !.tval = tval]

Misaligned(a, w) == a % Bytes(w) # 0

StepLoad(i, s) ==
    LET a == vaddr(i, s.x)
    IN  IF Misaligned(a, Loads[i.op]) THEN trap(s, 4, a)
        ELSE [s EXCEPT !.x = write_reg(s.x, i.rd, LoadValue(i.op, s.mem[a]))]

StepStore(i, s) ==
    LET a == vaddr(i, s.x)
    IN  IF Misaligned(a, Stores[i.op]) THEN trap(s, 5, a)
        ELSE [s EXCEPT !.mem[a] = Merge(@, s.x[i.rs2], Stores[i.op])]

AmoFuns == {"swap", "add", "and", "or", "xor", "min", "max", "minu", "maxu"}

\* What an AMO stores, from what it found in memory and its operand.
Amo(f, w, cur, src) ==
    LET uc == Unsigned(cur, w)  us == Unsigned(src, w)
        sc == Signed(cur, w)    ss == Signed(src, w)
    IN  CASE f = "swap" -> us
          [] f = "add"  -> uc + us
          [] f = "and"  -> uc & us
          [] f = "or"   -> uc | us
          [] f = "xor"  -> uc ^^ us
          [] f = "min"  -> IF sc <= ss THEN uc ELSE us
          [] f = "max"  -> IF sc >= ss THEN uc ELSE us
          [] f = "minu" -> IF uc <= us THEN uc ELSE us
          [] f = "maxu" -> IF uc >= us THEN uc ELSE us

\* An atomic instruction also has a function f and a width w.  Each of them
\* begins with the test of its address, which StepAtomic makes for all.
StepAmo(i, s) ==
    LET a == s.x[i.rs1]
    IN  [s EXCEPT !.mem[a] = Merge(@, Amo(i.f, i.w, @, s.x[i.rs2]), i.w),
                  !.x = write_reg(s.x, i.rd, Sext(s.mem[a], i.w))]

StepLr(i, s) ==
    LET v == Sext(s.mem[s.x[i.rs1]], i.w)
    IN  [s EXCEPT !.x = write_reg(s.x, i.rd, v),
                  !.lr = [addr |-> s.x[i.rs1], value |-> v]]

StepSc(i, s) ==
    LET a == s.x[i.rs1]
        ok == a = s.lr.addr /\ Unsigned(s.mem[a], i.w) = Unsigned(s.lr.value, i.w)
    IN  [s EXCEPT !.mem[a] = IF ok THEN Merge(@, s.x[i.rs2], i.w) ELSE @,
                  !.x = write_reg(s.x, i.rd, Bool(~ok))]

StepAtomic(i, s) ==
    IF Misaligned(s.x[i.rs1], i.w) THEN trap(s, 5, s.x[i.rs1])
    ELSE CASE i.op = "Amo" -> StepAmo(i, s)
           [] i.op = "Lr"  -> StepLr(i, s)
           [] i.op = "Sc"  -> StepSc(i, s)

step(i, s) ==
    CASE i.op \in ComputeOps \cup {"Lui"} ->
             [s EXCEPT !.x = write_reg(s.x, i.rd, Compute(i, s.x))]
      [] i.op \in BranchOps      -> StepBranch(i, s)
      [] i.op \in JumpOps        -> StepJump(i, s)
      [] i.op \in DOMAIN Loads   -> StepLoad(i, s)
      [] i.op \in DOMAIN Stores  -> StepStore(i, s)
      [] i.op \in {"Amo", "Lr", "Sc"} -> StepAtomic(i, s)
=============================================================================
