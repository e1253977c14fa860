------------------------------- MODULE Codec --------------------------------
(***************************************************************************)
(* The decoders and the encoder for TLC: guest instructions of both        *)
(* lengths through the RISC-V decoder (RiscvDecode), host instructions     *)
(* through the x86 encoder and back through the x86 decoder (X86Codec).    *)
(***************************************************************************)
EXTENDS Integers, Sequences

R == INSTANCE RiscvDecode
X == INSTANCE X86Codec

VARIABLES kind,  \* "word", "half" or the name of a host instruction
          code   \* the instruction, in a sequence that is empty before one is chosen

codecVars == <<kind, code>>

-----------------------------------------------------------------------------
(* Guest instructions.  Every opcode and every funct3, with each funct7    *)
(* that some opcode knows and some that none does.                         *)

Funct7s == {0, 1, 2, 3, 4, 8, 9, 12, 16, 20, 21, 24, 28, 32, 33, 44, 45, 48, 64,
            80, 81, 96, 97, 104, 112, 113, 120, 127}
Rs2s == {0, 1, 2, 5, 31}

\* Put bits 24 to 20 and 19 to 15 astride the halves.
Word32(opcode, d, f3, s, t, f7) ==
    [lo |-> 4 * opcode + 3 + 128 * d + 4096 * f3 + 32768 * (s % 2),
     hi |-> s \div 2 + 16 * t + 512 * f7]

GuestWord ==
    /\ kind = "word" /\ code = <<>>
    /\ \E opcode \in 0..31, f3 \in 0..7, f7 \in Funct7s, t \in Rs2s, s \in {0, 19},
          d \in {0, 13} : code' = <<Word32(opcode, d, f3, s, t, f7)>>
    /\ UNCHANGED kind

GuestHalf ==
    /\ kind = "half" /\ code = <<>>
    /\ \E q \in 0..2, rest \in 0..(2^14 - 1) : code' = <<q + 4 * rest>>
    /\ UNCHANGED kind

-----------------------------------------------------------------------------
(* Host instructions.                                                      *)

Numbers == {0, 1, 4, 5, 6, 8, 12, 13}
Registers(size) ==
    CASE size = X!Byte -> {X!REG_GPB + n : n \in Numbers} \cup {X!REG_GPB2 + n : n \in {4, 6}}
      [] size = X!Word -> {X!REG_GPW + n : n \in Numbers}
      [] size = X!Dword -> {X!REG_GPD + n : n \in Numbers}
      [] size = X!Qword -> {X!REG_GPQ + n : n \in Numbers}
Sizes == {X!Byte, X!Word, X!Dword, X!Qword}

\* Constants on both sides of each width, signed and unsigned.
Constants ==
    {X!Extend(s) : s \in {<<0>>, <<1>>, <<127>>, <<128>>, <<255>>, <<128, 0>>, <<255, 0>>,
       <<0, 128>>, <<0, 128, 0>>, <<255, 255, 0>>, <<0, 0, 0, 128>>, <<255, 255, 255, 127>>,
       <<0, 0, 0, 128, 0>>, <<255, 255, 255, 255, 0>>, <<0, 0, 0, 0, 1>>,
       <<255, 255, 255, 127, 255>>}}
Displacements == {X!Extend(s) : s \in {<<0>>, <<5>>, <<128>>, <<128, 0>>, <<1, 2, 3, 132>>}}

Bases == {X!None} \cup Registers(X!Qword)
Indices == {X!REG_GPQ + n : n \in {0, 4, 5, 8, 12, 13}}
Memories(size) ==
    {X!Mem(b, X!None, 0, d, size) : b \in Bases \cup {X!RIP}, d \in Displacements}
    \cup {X!Mem(b, x, s, d, size) : b \in Bases, x \in Indices, s \in {0, 3},
                                    d \in Displacements}
SomeMemories(size) ==
    {X!Mem(b, X!None, 0, d, size) : b \in Registers(X!Qword), d \in Displacements}

Regs(size) == {X!Reg(r) : r \in Registers(size)}
Locations(size) == Regs(size) \cup SomeMemories(size)
Imms == {X!Imm(v) : v \in Constants}

Moves == {"Mov", "Movsx", "Movzx"}
AluOps == {X!Alu[i] : i \in 1..8}
HostKinds == AluOps \cup Moves \cup DOMAIN X!Shifts \cup DOMAIN X!Unary
    \cup {"Cmovcc", "Imul2", "Cmpxchg", "Xadd", "Xchg", "Lea", "Test", "Push", "Pop",
          "Call", "Jmp", "Jcc", "Setcc", "Ret", "Movabs", "Plain"}

TwoOperands(size) ==
    CASE kind = "Mov" ->
           (Regs(size) \cup Memories(size)) \X Regs(size)
           \cup Regs(size) \X Memories(size) \cup Locations(size) \X Imms
      [] kind \in {"Movsx", "Movzx"} ->
           UNION {Regs(wide) \X (Regs(size) \cup Memories(size)) :
                    wide \in {s \in Sizes : s > size}}
      [] kind \in AluOps ->
           Locations(size) \X (Regs(size) \cup Imms) \cup Regs(size) \X SomeMemories(size)
      [] kind = "Test" -> Locations(size) \X (Regs(size) \cup Imms)
      [] kind \in DOMAIN X!Shifts -> Locations(size) \X (Imms \cup {X!Reg(X!CL)})
      [] kind \in {"Cmovcc", "Imul2"} -> Regs(size) \X Locations(size)
      [] kind \in {"Cmpxchg", "Xadd"} -> Locations(size) \X Regs(size)
      [] kind = "Xchg" -> Locations(size) \X Regs(size) \cup Regs(size) \X Locations(size)
      [] kind = "Lea" -> Regs(size) \X Memories(X!Qword)
      [] kind = "Movabs" -> (Regs(size) \X Imms) \cup (Imms \X Regs(size))
      [] OTHER -> {}

OneOperand(size) ==
    CASE kind \in DOMAIN X!Unary \cup {"Pop", "Setcc"} -> Locations(size)
      [] kind \in {"Push", "Call", "Jmp"} -> Locations(size) \cup Imms
      [] kind = "Jcc" -> {i \in Imms : X!FitsI(i.v, 4)}
      [] kind = "Ret" -> {i \in Imms : X!FitsU(i.v, 2)}
      [] OTHER -> {}

HostBinary ==
    /\ kind \in HostKinds /\ code = <<>>
    /\ \E size \in Sizes : \E o \in TwoOperands(size) :
         code' = <<X!Ins(kind, o[1], o[2], IF kind = "Cmovcc" THEN 5 ELSE 0)>>
    /\ UNCHANGED kind

HostUnary ==
    /\ kind \in HostKinds /\ code = <<>>
    /\ \E size \in Sizes : \E o \in OneOperand(size) :
       \E cc \in IF kind \in {"Jcc", "Setcc"} THEN 0..15 ELSE {0} :
         code' = <<X!Ins(kind, o, X!Absent, cc)>>
    /\ UNCHANGED kind

HostPlain ==
    /\ kind = "Plain" /\ code = <<>>
    /\ \E name \in DOMAIN X!Plain : code' = <<X!Op0(name)>>
    /\ UNCHANGED kind

CodecInit == kind \in HostKinds \cup {"word", "half"} /\ code = <<>>

CodecNext == GuestWord \/ GuestHalf \/ HostBinary \/ HostUnary \/ HostPlain

CodecSpec == CodecInit /\ [][CodecNext]_codecVars

-----------------------------------------------------------------------------
ins == code[1]

Decoded == IF kind = "half" THEN R!decode_compressed(ins) ELSE R!decode(ins)

FlipHalf(c, k) == IF (c \div 2^k) % 2 = 1 THEN c - 2^k ELSE c + 2^k
Flip(k) ==
    CASE kind = "half" -> FlipHalf(ins, k)
      [] kind = "word" /\ k < 16 -> [ins EXCEPT !.lo = FlipHalf(@, k)]
      [] OTHER -> [ins EXCEPT !.hi = FlipHalf(@, k - 16)]

\* What the decoder ignores: the operands of FENCE, of FENCE.I and of C.EBREAK,
\* funct3 of JALR, and which HINT writes x0.
Ignored(op) ==
    CASE op.op \in {"Fence", "FenceI"} -> 7..31 \ {12, 13, 14}
      [] op.op = "Jalr" /\ kind = "word" -> {12, 13, 14}
      [] op.op = "Ebreak" /\ kind = "half" -> 2..6
      [] op.op = "Addi" /\ kind = "half" /\ op.args.rd = 0 -> {14}
      [] OTHER -> {}

(***************************************************************************)
(* The decoder overlooks no bit of an instruction it accepts: if any one   *)
(* bit is changed, it decodes another operation or other operands, or      *)
(* none.  So two opcodes, a reserved field and an operand are never taken  *)
(* for each other.                                                         *)
(***************************************************************************)
EveryBitCounts ==
    kind \in {"word", "half"} /\ code # <<>> =>
      LET op == Decoded
          top == IF kind = "half" THEN 15 ELSE 31
      IN op = R!Illegal
         \/ \A k \in 2..top \ Ignored(op) :
              op # IF kind = "half" THEN R!decode_compressed(Flip(k)) ELSE R!decode(Flip(k))

\* The value of an immediate from the weights that the RISC-V manual gives the
\* bits of an instruction from the highest, -1 for a bit of no weight.
BitOf(k) ==
    CASE kind = "half" -> (ins \div 2^k) % 2
      [] kind = "word" /\ k < 16 -> (ins.lo \div 2^k) % 2
      [] OTHER -> (ins.hi \div 2^(k - 16)) % 2

RECURSIVE Weigh(_, _, _)
Weigh(weights, top, i) ==
    IF i > Len(weights) THEN 0
    ELSE Weigh(weights, top, i + 1)
         + IF weights[i] < 0 THEN 0 ELSE BitOf(top + 1 - i) * 2^weights[i]

\* An immediate whose highest bit has the weight sign is extended by it.
Immediate(weights, top, sign) ==
    LET v == Weigh(weights, top, 1)
    IN IF sign >= 0 /\ v >= 2^sign THEN v - 2^(sign + 1) ELSE v

No(n) == [i \in 1..n |-> -1]
Down(hi, lo) == [i \in 1..(hi - lo + 1) |-> hi + 1 - i]

WordImmediate(op) ==
    LET shift == op.op \in {"Slli", "Srli", "Srai", "Slliw", "Srliw", "Sraiw"}
        store == op.op \in {"Sb", "Sh", "Sw", "Sd", "Fsw", "Fsd"}
        branch == op.op \in {"Beq", "Bne", "Blt", "Bge", "Bltu", "Bgeu"}
    IN CASE shift -> Immediate(No(6) \o Down(5, 0), 31, -1)
         [] store -> Immediate(Down(11, 5) \o No(13) \o Down(4, 0), 31, 11)
         [] branch -> Immediate(<<12>> \o Down(10, 5) \o No(13) \o Down(4, 1) \o <<11>>, 31, 12)
         \* in units of 2^12, within the range of TLC's integers
         [] op.op \in {"Lui", "Auipc"} -> 2^12 * Immediate(Down(19, 0), 31, 19)
         [] op.op = "Jal" -> Immediate(<<20>> \o Down(10, 1) \o <<11>> \o Down(19, 12), 31, 20)
         [] OTHER -> Immediate(Down(11, 0), 31, 11)

\* Bits 12 to 2 of a compressed instruction.
HalfImmediate ==
    LET f3 == ins \div 2^13
        d == (ins \div 2^7) % 32
        C(weights, sign) == Immediate(weights, 12, sign)
    IN CASE ins % 4 = 0 /\ f3 = 0 -> C(<<5, 4, 9, 8, 7, 6, 2, 3, -1, -1, -1>>, -1)
         [] ins % 4 = 0 /\ f3 \in {2, 6} -> C(<<5, 4, 3, -1, -1, -1, 2, 6, -1, -1, -1>>, -1)
         [] ins % 4 = 0 /\ f3 \in {1, 3, 5, 7} -> C(<<5, 4, 3, -1, -1, -1, 7, 6, -1, -1, -1>>, -1)
         [] ins % 4 = 1 /\ f3 = 3 /\ d = 2 -> C(<<9, -1, -1, -1, -1, -1, 4, 6, 8, 7, 5>>, 9)
         [] ins % 4 = 1 /\ f3 = 3 /\ d # 2 -> C(<<17, -1, -1, -1, -1, -1>> \o Down(16, 12), 17)
         [] ins % 4 = 1 /\ f3 \in 0..2 -> C(<<5>> \o No(5) \o Down(4, 0), 5)
         [] ins % 4 = 1 /\ f3 = 4 ->
              C(<<5>> \o No(5) \o Down(4, 0), IF (ins \div 2^10) % 4 = 2 THEN 5 ELSE -1)
         [] ins % 4 = 1 /\ f3 = 5 -> C(<<11, 4, 9, 8, 10, 6, 7, 3, 2, 1, 5>>, 11)
         [] ins % 4 = 1 /\ f3 \in {6, 7} -> C(<<8, 4, 3, -1, -1, -1, 7, 6, 2, 1, 5>>, 8)
         [] ins % 4 = 2 /\ f3 = 0 -> C(<<5>> \o No(5) \o Down(4, 0), -1)
         [] ins % 4 = 2 /\ f3 \in {1, 3} -> C(<<5>> \o No(5) \o <<4, 3, 8, 7, 6>>, -1)
         [] ins % 4 = 2 /\ f3 = 2 -> C(<<5>> \o No(5) \o <<4, 3, 2, 7, 6>>, -1)
         [] ins % 4 = 2 /\ f3 = 4 -> 0
         [] ins % 4 = 2 /\ f3 \in {5, 7} -> C(<<5, 4, 3, 8, 7, 6>> \o No(5), -1)
         [] ins % 4 = 2 /\ f3 = 6 -> C(<<5, 4, 3, 2, 7, 6>> \o No(5), -1)

(***************************************************************************)
(* The masks and shifts of decode.rs put every bit of an immediate in its  *)
(* place and extend the signed ones, for all formats of both lengths.  The *)
(* shift instructions with bit 31 set, which the decoder should refuse and *)
(* does not, are left out.                                                 *)
(***************************************************************************)
ImmediatesRight ==
    kind \in {"word", "half"} /\ code # <<>> =>
      LET op == Decoded
          negative == kind = "word" /\ ins.hi >= 2^15 /\ ins.lo % 128 \in {\h13, \h1B}
                      /\ R!funct3(ins) \in {1, 5}
      IN "imm" \in DOMAIN op.args /\ ~negative =>
           op.args.imm = IF kind = "half" THEN HalfImmediate ELSE WordImmediate(op)

-----------------------------------------------------------------------------
\* The instruction that the encoding of i stands for: mov of a 32-bit constant
\* writes the low half of the register, constants have the width of the
\* operation, lea's memory has no width, xchg has its register first.
Canonical(i) ==
    LET size == X!size_of(i.dst)
        Narrow(v) == X!Imm(X!Extend(X!Low(v, 2^X!cap_to_dword(size))))
    IN CASE i.op = "Mov" /\ i.src.k = "imm" ->
              LET s == X!mov_size(i.dst, i.src.v)
              IN X!Op2("Mov", X!resize(i.dst, s), X!Imm(X!Extend(X!Low(i.src.v, 2^s))))
         [] i.op \in AluOps \cup {"Test"} /\ i.src.k = "imm" -> [i EXCEPT !.src = Narrow(@.v)]
         [] i.op = "Lea" -> [i EXCEPT !.src.size = size]
         [] i.op = "Xchg" -> IF i.dst.k = "reg" THEN i ELSE X!Op2("Xchg", i.src, i.dst)
         [] OTHER -> i

Operands(i) == {i.dst, i.src}

\* Operands that the translator never emits and the decoder misreads: memory at
\* rip (its size), rsp as an index (none), ah to bh of movsx and movzx (spl to
\* dil), the short xchg (nop), push of a word in memory (its size).
Misread(i) ==
    \/ \E o \in Operands(i) : o.k = "mem" /\ (o.base = X!RIP \/ o.index = X!RSP)
    \/ i.op \in {"Movsx", "Movzx"} /\ i.src.k = "reg" /\ X!IsHigh(i.src.reg)
    \/ i.op = "Xchg" /\ \A o \in Operands(i) : o.k = "reg"
    \/ i.op = "Push" /\ i.dst.k = "mem" /\ i.dst.size = X!Word

\* What can fault in emitted ins: an access to guest memory, a division.
Replayed(i) ==
    \/ i.op \in Moves /\ \E o \in Operands(i) : o.k = "mem"
    \/ i.op \in {"Div", "Idiv"}

(***************************************************************************)
(* The decoder reads back what the encoder wrote: from the bytes of any    *)
(* instruction it returns that instruction and consumes exactly its bytes, *)
(* or gives up, and it never gives up on those that the handlers of        *)
(* SIGSEGV and SIGFPE (signal.rs) replay before they resume after them.    *)
(***************************************************************************)
RoundTrip ==
    kind \in HostKinds /\ code # <<>> /\ ~Misread(ins) /\ X!Encodable(ins) =>
      LET bytes == X!encode(ins)
          back == X!decode(bytes)
      IN IF back.i = X!Unimplemented THEN ~Replayed(ins)
         ELSE back.i = Canonical(ins) /\ back.next = Len(bytes) + 1
=============================================================================
