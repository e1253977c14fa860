----------------------------- MODULE Translate -----------------------------
(***************************************************************************)
(* Runs the code that the translator emits for one instruction (Dbt) on    *)
(* the host CPU (X86), against what the interpreter does for it (Interp).  *)
(*                                                                         *)
(* Registers and flags are the hart's own, so code that stays in them runs *)
(* in one step.  Code that touches guest memory runs one host instruction  *)
(* at a time, and between two of them another hart may write the same word.*)
(***************************************************************************)
EXTENDS Interp, Dbt, TLC

CONSTANTS Values,       \* what guest registers hold
          Cells,        \* what a memory word holds, and what the other hart writes
          MaxWrites     \* how many times the other hart writes

VARIABLES input,        \* the instruction, the registers, the offset in the block
          cpu, ip,      \* the host, and the instruction it is to run
          seen,         \* memory before and after the last access of this hart
          writes        \* number of writes of the other hart

vars == <<input, cpu, ip, seen, writes>>

Regs == 0..3
Imms == {-(2^(W32 - 1)), -3, -1, 0, 1, 2, 2^(W32 - 1) - 1}
Junk == 165
BlockPc == 64
Addrs == {8, 9, 10, 12, 16}

Registers(a, b) == [n \in Regs |-> CASE n = 0 -> 0 [] n = 1 -> a [] n = 2 -> b [] n = 3 -> Junk]

Instr(op, rd, rs1, rs2, imm) == [op |-> op, rd |-> rd, rs1 |-> rs1, rs2 |-> rs2, imm |-> imm]

Case(i, a, b, cur, m, lr) ==
    [i |-> i, x |-> Registers(a, b), cur |-> cur, m |-> m, lr |-> lr]

(***************************************************************************)
(* The inputs.  The registers of an instruction range over all the ways in *)
(* which two sources and a destination can coincide with each other and    *)
(* with x0.                                                                *)
(***************************************************************************)
RegInput ==
    \E op \in RegOps \cup Reg32Ops \cup MulDivOps \cup MulDiv32Ops,
       rd \in Regs, rs1 \in {0, 1}, rs2 \in {0, 1, 2}, a \in Values, b \in Values :
        input = Case(Instr(op, rd, rs1, rs2, 0), a, b, 0, 0, 0)

ImmInput ==
    \E op \in ImmOps \cup Imm32Ops \cup {"Lui"}, rd \in {0, 1, 3}, rs1 \in {0, 1}, a \in Values :
    \E imm \in CASE op \in {"Slli", "Srli", "Srai"}    -> 0..(W64 - 1)
                 [] op \in {"Slliw", "Srliw", "Sraiw"} -> 0..(W32 - 1)
                 [] OTHER                              -> Imms :
        input = Case(Instr(op, rd, rs1, 2, imm), a, Junk, 0, 0, 0)

BranchInput ==
    \E op \in BranchOps, rs1 \in {0, 1}, rs2 \in {0, 1, 2}, imm \in {-8, 12},
       a \in Values, b \in Values, cur \in {0, 4} :
        input = Case(Instr(op, 0, rs1, rs2, imm), a, b, cur, 0, 0)

JumpInput ==
    \E op \in JumpOps, rd \in {0, 1, 3}, rs1 \in {0, 1}, imm \in Imms, a \in Values, cur \in {0, 4} :
        input = Case(Instr(op, rd, rs1, 2, imm), a, Junk, cur, 0, 0)

MemInput ==
    /\ \/ \E op \in DOMAIN Loads, rd \in {0, 1, 3}, imm \in {0, 8}, a \in Addrs, m \in Cells :
             input = Case(Instr(op, rd, 1, 2, imm), a, Junk, 0, m, 0)
       \/ \E op \in DOMAIN Stores, rs2 \in {0, 1, 2}, imm \in {0, 8}, a \in Addrs,
             b \in Cells, m \in Cells :
             input = Case(Instr(op, 0, 1, rs2, imm), a, b, 0, m, 0)
    /\ vaddr(input.i, input.x) \in Addrs

\* A misaligned W64 may be at the address that an LR of a W32 has reserved.
AtomicInput ==
    \E op \in {"Amo", "Lr", "Sc"}, w \in {W32, W64}, rd \in {0, 2, 3}, rs2 \in {0, 2},
       b \in Cells, m \in Cells :
    \E f \in IF op = "Amo" THEN AmoFuns ELSE {"none"}, lr \in IF op = "Sc" THEN {8, 12} ELSE {8},
       a \in {8, IF w = W64 THEN 12 ELSE 10} :
        input = Case([f |-> f, w |-> w] @@ Instr(op, rd, 1, rs2, 0), a, b, 0, m, lr)

\* The reservation holds the value that its word had when LR read it: the
\* word's present value, for the inputs that do not have another hart change it.
InitialLr(n) == [addr |-> n.lr, value |-> n.m]

Init ==
    /\ RegInput \/ ImmInput \/ BranchInput \/ JumpInput \/ MemInput \/ AtomicInput
    /\ cpu = [r |-> [n \in {"A", "B", "C", "D", "S"} |-> Junk], x |-> input.x,
              f |-> [pc |-> BlockPc, lr_addr |-> input.lr, lr_value |-> input.m],
              mem |-> [a \in Addrs |-> input.m], fl |-> [e |-> FALSE, b |-> FALSE, l |-> FALSE]]
    /\ ip = 1
    /\ seen = [before |-> cpu.mem, after |-> cpu.mem]
    /\ writes = 0

code == emit_op(input.i, input.cur)

InMemory == input.i.op \in DOMAIN Loads \cup DOMAIN Stores \cup {"Amo", "Lr", "Sc"}

Done == ip > Len(code)

RunLocal ==
    /\ ~InMemory /\ ~Done
    /\ cpu' = Run(cpu, code, 1)
    /\ ip' = Len(code) + 1
    /\ UNCHANGED <<input, seen, writes>>

TouchesMemory(i) == i[1] \notin {"jcc", "setcc", "align"} /\ \E n \in {2, 3} \cap DOMAIN i : i[n][1] = "m"

ExecOne ==
    /\ InMemory /\ ~Done
    /\ cpu' = ExecAt(cpu, code, ip)
    /\ ip' = NextIp(cpu, code, ip)
    /\ seen' = IF TouchesMemory(code[ip]) THEN [before |-> cpu.mem, after |-> cpu'.mem] ELSE seen
    /\ UNCHANGED <<input, writes>>

OtherHart ==
    /\ InMemory /\ ~Done
    /\ writes < MaxWrites
    /\ \E v \in Cells : cpu' = [cpu EXCEPT !.mem[vaddr(input.i, input.x)] = v]
    /\ writes' = writes + 1
    /\ UNCHANGED <<input, ip, seen>>

Next == RunLocal \/ ExecOne \/ OtherHart

Spec == Init /\ [][Next]_vars

-----------------------------------------------------------------------------
\* What the interpreter makes of the same instruction, on the memory that
\* this hart's last access found.
Expected == step(input.i, [x |-> input.x, pc |-> BlockPc + input.cur + 4,
                           lr |-> InitialLr(input), mem |-> seen.before,
                           cause |-> 0, tval |-> 0])

(***************************************************************************)
(* The emitted arithmetic leaves in every guest register what the          *)
(* interpreter leaves, whichever registers coincide or are x0, with host   *)
(* registers that start with anything in them, and through the divide      *)
(* faults that signal.rs repairs.                                          *)
(***************************************************************************)
ComputesAsInterp ==
    ~InMemory /\ Done => cpu.x = Expected.x

(***************************************************************************)
(* A branch or jump that is the last instruction of a block leaves the pc  *)
(* (and the link register) where the interpreter does, although the        *)
(* Context only held the pc of the start of the block.                     *)
(***************************************************************************)
JumpsAsInterp ==
    input.i.op \in BranchOps \cup {"Jal", "Jalr"} /\ Done => cpu.f.pc = Expected.pc

(***************************************************************************)
(* Loads, stores, AMOs, LR and SC take effect at one instant: with the     *)
(* memory that their last access found, registers, reservation and memory  *)
(* are what the interpreter's atomic operation gives, even if another hart *)
(* wrote the word in between.  Where the interpreter traps, because the    *)
(* address is misaligned, the emitted code has changed nothing when it     *)
(* leaves for the slow path, with the same address; but an SC to another   *)
(* address than the reserved one fails first.                              *)
(***************************************************************************)
AtomicAsInterp ==
    InMemory /\ Done =>
        /\ seen.after = Expected.mem
        /\ [addr |-> cpu.f.lr_addr, value |-> cpu.f.lr_value] = Expected.lr
        /\ \/ /\ ip # Slow(code) /\ Expected.cause = 0
              /\ cpu.x = Expected.x
           \/ /\ ip = Slow(code) /\ Expected.cause # 0
              /\ cpu.x = input.x /\ cpu.r["S"] = Expected.tval
           \/ /\ ip # Slow(code) /\ Expected.cause # 0
              /\ input.i.op = "Sc" /\ input.lr # Expected.tval
              /\ cpu.x = write_reg(input.x, input.i.rd, 1)
=============================================================================
