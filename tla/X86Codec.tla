------------------------------ MODULE X86Codec ------------------------------
(***************************************************************************)
(* The x86-64 instruction encoder and decoder (src/lib/x86/src/encode.rs,  *)
(* decode.rs, op.rs).  The translator encodes what it emits; the handlers  *)
(* of SIGSEGV and SIGFPE decode the instruction that faulted, replay it    *)
(* and skip as many bytes as were read.                                    *)
(*                                                                         *)
(* A byte is a number.  An immediate is its eight bytes, the lowest first, *)
(* and so is a displacement, extended from 32 bits.  A failed assertion is *)
(* the byte Panic in what is encoded; an instruction the decoder gives up  *)
(* on is Unimplemented.                                                    *)
(***************************************************************************)
EXTENDS Integers, Sequences

Byte == 0
Word == 1
Dword == 2
Qword == 3
cap_to_dword(size) == IF size = Qword THEN Dword ELSE size

\* A register is its number: the kind in the high digit, the index in the low.
REG_GPB == 16
REG_GPW == 32
REG_GPD == 48
REG_GPQ == 64
REG_GPB2 == 80   \* spl, bpl, sil and dil
RIP == 96
CL == REG_GPB + 1
RSP == REG_GPQ + 4
R12 == REG_GPQ + 12
IsHigh(reg) == reg \in (REG_GPB + 4)..(REG_GPB + 7)   \* ah, ch, dh and bh
None == 0

Kind(reg) == reg - (reg % 16)
Bit(n, k) == (n \div 2^k) % 2

reg_size(reg) ==
    CASE Kind(reg) \in {REG_GPB, REG_GPB2} -> Byte
      [] Kind(reg) = REG_GPW -> Word
      [] Kind(reg) = REG_GPD -> Dword
      [] Kind(reg) = REG_GPQ -> Qword

\* Operands: a register, memory at base + index * 2^shift + disp, a constant.
Reg(reg) == [k |-> "reg", reg |-> reg]
Mem(base, index, shift, disp, size) ==
    [k |-> "mem", base |-> base, index |-> index, shift |-> shift,
     disp |-> disp, size |-> size]
Imm(v) == [k |-> "imm", v |-> v]
Absent == [k |-> "absent"]
size_of(loc) == IF loc.k = "reg" THEN reg_size(loc.reg) ELSE loc.size

Ins(name, dst, src, cc) == [op |-> name, dst |-> dst, src |-> src, cc |-> cc]
Op0(name) == Ins(name, Absent, Absent, 0)
Op1(name, opr) == Ins(name, opr, Absent, 0)
Op2(name, dst, src) == Ins(name, dst, src, 0)
Unimplemented == Op0("Unimplemented")

\* Sign extension to eight bytes, and the tests i8::try_from, u8::try_from, ...
Extend(s) == s \o [i \in 1..(8 - Len(s)) |-> IF s[Len(s)] >= 128 THEN 255 ELSE 0]
Low(v, n) == SubSeq(v, 1, n)
FitsI(v, n) == v = Extend(Low(v, n))
FitsU(v, n) == \A i \in (n + 1)..8 : v[i] = 0
Zero == Extend(<<0>>)
One == Extend(<<1>>)

-----------------------------------------------------------------------------
(* The encoder.                                                            *)

Panic == 256
Assert(c, bytes) == IF c THEN bytes ELSE <<Panic>>

check_imm_size(size, v, bytes) ==
    Assert(CASE size = Qword -> FitsI(v, 4)
             [] OTHER -> FitsI(v, 2^size) \/ FitsU(v, 2^size), bytes)

emit_imm(size, v) == Low(v, 2^size)
prefix16(size) == IF size = Word THEN <<\h66>> ELSE <<>>
prefix(size) == IF size = Qword THEN <<\h48>> ELSE prefix16(size)
opcode_bytes(code) == IF code >= 256 THEN <<code \div 256, code % 256>> ELSE <<code>>
\* Most instructions have the next opcode for operands wider than a byte.
Wide(size, code) == IF size = Byte THEN code ELSE code + 1

\* w is 8 if REX.W is needed.
emit_rex(loc, reg, w) ==
    LET isreg == loc.k = "reg"
        force == Kind(reg) = REG_GPB2 \/ (isreg /\ Kind(loc.reg) = REG_GPB2)
        rex == w + 4 * Bit(reg, 3)
               + IF isreg THEN Bit(loc.reg, 3)
                 ELSE Bit(loc.base, 3) + 2 * Bit(loc.index, 3)
    IN IF rex = 0 /\ ~force THEN <<>>
       ELSE Assert(~IsHigh(reg) /\ ~(isreg /\ IsHigh(loc.reg)), <<\h40 + rex>>)

\* No displacement; rbp and r13 have no such encoding.
bare(disp, base) == disp = Zero /\ base % 8 # 5

emit_modrm(loc, reg) ==
    LET r == 8 * (reg % 8) IN
    IF loc.k = "reg" THEN <<\hC0 + r + (loc.reg % 8)>>
    ELSE LET d4 == Low(loc.disp, 4)
             sib(base) == <<64 * loc.shift + 8 * (loc.index % 8) + base>>
             at(rm, rest) ==
               CASE bare(loc.disp, loc.base) -> <<r + rm>> \o rest
                 [] ~bare(loc.disp, loc.base) /\ FitsI(loc.disp, 1) ->
                      <<\h40 + r + rm>> \o rest \o Low(loc.disp, 1)
                 [] OTHER -> <<\h80 + r + rm>> \o rest \o d4
         IN Assert(loc.index # None => Kind(loc.index) = REG_GPQ
                                       /\ loc.index % 16 # 5,
            CASE loc.base = None /\ loc.index = None -> <<r + 4, \h25>> \o d4
              [] loc.base = None /\ loc.index # None -> <<r + 4>> \o sib(5) \o d4
              [] loc.base = RIP /\ loc.index = None -> <<r + 5>> \o d4
              [] loc.base \in {RSP, R12} /\ loc.index = None -> at(4, <<\h24>>)
              [] OTHER -> Assert(Kind(loc.base) = REG_GPQ,
                                 IF loc.index = None THEN at(loc.base % 8, <<>>)
                                 ELSE at(4, sib(loc.base % 8))))

emit_r_rm(size, loc, reg, code) ==
    prefix16(size) \o emit_rex(loc, reg, IF size = Qword THEN 8 ELSE 0)
    \o opcode_bytes(code) \o emit_modrm(loc, reg)

emit_plusr(size, reg, code) ==
    LET rex == (IF size = Qword THEN 8 ELSE 0) + Bit(reg, 3)
    IN prefix16(size)
       \o (IF rex = 0 /\ Kind(reg) # REG_GPB2 THEN <<>>
           ELSE Assert(~IsHigh(reg), <<\h40 + rex>>))
       \o <<code + (reg % 8)>>

emit_rm(dst, code, id) == emit_r_rm(size_of(dst), dst, id, Wide(size_of(dst), code))

\* INST r/m, r is preferred to INST r, r/m, whose opcode is two higher.
emit_both(dst, src, code) ==
    LET size == size_of(dst) IN
    Assert(size_of(src) = size,
           IF src.k = "reg" THEN emit_r_rm(size, dst, src.reg, Wide(size, code))
           ELSE emit_r_rm(size, src, dst.reg, Wide(size, code) + 2))

IsAcc(loc) == loc.k = "reg" /\ loc.reg % 16 = 0

emit_alu(dst, src, id) ==
    LET size == size_of(dst) IN
    IF src.k # "imm" THEN emit_both(dst, src, 8 * id)
    ELSE check_imm_size(size, src.v,
           IF size # Byte /\ FitsI(src.v, 1)
           THEN emit_r_rm(size, dst, id, \h83) \o Low(src.v, 1)
           ELSE (IF IsAcc(dst) THEN prefix(size) \o <<8 * id + Wide(size, 4)>>
                 ELSE emit_r_rm(size, dst, id, Wide(size, \h80)))
                \o emit_imm(cap_to_dword(size), src.v))

emit_shift(dst, src, id) ==
    LET with(code) == emit_r_rm(size_of(dst), dst, id, Wide(size_of(dst), code)) IN
    CASE src = Reg(CL) -> with(\hD2)
      [] src = Imm(One) -> with(\hD0)
      [] OTHER -> with(\hC0) \o Assert(FitsU(src.v, 1), Low(src.v, 1))

\* emit_call and emit_jmp: through a register or memory.
indirect(target, id) ==
    Assert(size_of(target) = Qword,
           emit_rex(target, id, 0) \o <<\hFF>> \o emit_modrm(target, id))

emit_call(target) ==
    IF target.k # "imm" THEN indirect(target, 2)
    ELSE Assert(FitsI(target.v, 4), <<\hE8>> \o Low(target.v, 4))

emit_jcc(target, cc) ==
    IF FitsI(target.v, 1) THEN <<\h70 + cc>> \o Low(target.v, 1)
    ELSE <<\h0F, \h80 + cc>> \o Low(target.v, 4)

emit_jmp(target) ==
    CASE target.k # "imm" -> indirect(target, 4)
      [] target.k = "imm" /\ FitsI(target.v, 1) -> <<\hEB>> \o Low(target.v, 1)
      [] OTHER -> Assert(FitsI(target.v, 4), <<\hE9>> \o Low(target.v, 4))

emit_lea(dst, src) ==
    LET size == reg_size(dst.reg)
    IN Assert(size # Byte, emit_r_rm(size, src, dst.reg, \h8D))

\* A 64-bit register takes a 32-bit constant by its 32-bit part.
mov_size(dst, v) ==
    IF dst.k = "reg" /\ size_of(dst) = Qword /\ FitsU(v, 4) THEN Dword
    ELSE size_of(dst)

emit_mov(dst, src) ==
    IF src.k # "imm" THEN emit_both(dst, src, \h88)
    ELSE LET size == mov_size(dst, src.v)
         IN IF dst.k = "reg" /\ (size # Qword \/ ~FitsI(src.v, 4))
            THEN emit_plusr(size, dst.reg, IF size = Byte THEN \hB0 ELSE \hB8)
                 \o emit_imm(size, src.v)
            ELSE check_imm_size(size, src.v,
                   emit_r_rm(size, dst, 0, Wide(size, \hC6))
                   \o emit_imm(cap_to_dword(size), src.v))

emit_movabs(dst, src) ==
    LET load == dst.k = "reg"
        reg == IF load THEN dst.reg ELSE src.reg
        v == IF load THEN src.v ELSE dst.v
    IN Assert(reg % 16 = 0,
              prefix(reg_size(reg)) \o <<Wide(reg_size(reg), IF load THEN \hA0 ELSE \hA2)>>
              \o emit_imm(reg_size(reg), v))

emit_movsx(dst, src) ==
    LET size == size_of(src) IN
    Assert(reg_size(dst.reg) > size,
           emit_r_rm(reg_size(dst.reg), src, dst.reg,
                     CASE size = Byte -> \hFBE [] size = Word -> \hFBF [] OTHER -> \h63))

emit_movzx(dst, src) ==
    LET size == size_of(src) IN
    Assert(reg_size(dst.reg) > size /\ size # Dword,
           emit_r_rm(reg_size(dst.reg), src, dst.reg, Wide(size, \hFB6)))

\* emit_push and emit_pop of a location; REX.W is not needed.
stack_op(loc, plusr, code) ==
    LET size == IF size_of(loc) = Qword THEN Dword ELSE size_of(loc)
    IN Assert(size_of(loc) \in {Word, Qword},
              IF loc.k = "reg" THEN emit_plusr(size, loc.reg, plusr)
              ELSE emit_r_rm(size, loc, 0, code))

emit_pop(dst) == stack_op(dst, \h58, \h8F)

emit_push(src) ==
    CASE src.k # "imm" -> stack_op(src, \h50, \hFF)
      [] src.k = "imm" /\ FitsI(src.v, 1) -> <<\h6A>> \o Low(src.v, 1)
      [] OTHER -> Assert(FitsI(src.v, 4), <<\h68>> \o Low(src.v, 4))

emit_ret(pop) == IF pop.v = Zero THEN <<\hC3>> ELSE <<\hC2>> \o Low(pop.v, 2)

emit_setcc(dst, cc) ==
    Assert(size_of(dst) = Byte, emit_r_rm(Byte, dst, 0, \hF90 + cc))

emit_test(dst, src) ==
    LET size == size_of(dst) IN
    IF src.k = "reg"
    THEN Assert(reg_size(src.reg) = size,
                emit_r_rm(size, dst, src.reg, Wide(size, \h84)))
    ELSE check_imm_size(size, src.v,
           (IF IsAcc(dst) THEN prefix(size) \o <<Wide(size, \hA8)>>
            ELSE emit_r_rm(size, dst, 0, Wide(size, \hF6)))
           \o emit_imm(cap_to_dword(size), src.v))

\* The register is made the source; the accumulator has a short form.
emit_xchg(loc0, loc1) ==
    LET dst == IF loc0.k = "reg" THEN loc1 ELSE loc0
        src == IF loc0.k = "reg" THEN loc0 ELSE loc1
        size == size_of(dst)
        short == size # Byte /\ dst.k = "reg"
    IN Assert(size_of(src) = size,
         CASE short /\ IsAcc(src) -> emit_plusr(size, dst.reg, \h90)
           [] short /\ ~IsAcc(src) /\ IsAcc(dst) -> emit_plusr(size, src.reg, \h90)
           [] OTHER -> emit_r_rm(size, dst, src.reg, Wide(size, \h86)))

\* Cmpxchg and Xadd; Cmovcc and Imul2, not of bytes.
rm_reg(dst, src, code) ==
    Assert(size_of(dst) = size_of(src), emit_rm(dst, code, src.reg))
reg_rm(dst, src, code) ==
    Assert(size_of(dst) = size_of(src) /\ size_of(dst) # Byte,
           emit_r_rm(size_of(dst), src, dst.reg, code))

Alu == <<"Add", "Or", "Adc", "Sbb", "And", "Sub", "Xor", "Cmp">>
AluId(name) == (CHOOSE i \in 1..8 : Alu[i] = name) - 1
Unary == [Not |-> 2, Neg |-> 3, Mul |-> 4, Imul1 |-> 5, Div |-> 6, Idiv |-> 7]
Shifts == [Shl |-> 4, Shr |-> 5, Sar |-> 7]
Plain == [Illegal |-> <<\h0F, \h0B>>, Cdqe |-> <<\h48, \h98>>, Cdq |-> <<\h99>>,
          Cqo |-> <<\h48, \h99>>, Hlt |-> <<\hF4>>, Lock |-> <<\hF0>>,
          Mfence |-> <<\h0F, \hAE, \hF0>>, Nop |-> <<\h90>>]

encode(i) ==
    CASE \E k \in 1..8 : Alu[k] = i.op -> emit_alu(i.dst, i.src, AluId(i.op))
      [] i.op \in DOMAIN Shifts -> emit_shift(i.dst, i.src, Shifts[i.op])
      [] i.op \in DOMAIN Unary -> emit_rm(i.dst, \hF6, Unary[i.op])
      [] i.op \in DOMAIN Plain -> Plain[i.op]
      [] i.op = "Call" -> emit_call(i.dst)
      [] i.op = "Cmovcc" -> reg_rm(i.dst, i.src, \hF40 + i.cc)
      [] i.op = "Cmpxchg" -> rm_reg(i.dst, i.src, \hFB0)
      [] i.op = "Imul2" -> reg_rm(i.dst, i.src, \hFAF)
      [] i.op = "Jcc" -> emit_jcc(i.dst, i.cc)
      [] i.op = "Jmp" -> emit_jmp(i.dst)
      [] i.op = "Lea" -> emit_lea(i.dst, i.src)
      [] i.op = "Mov" -> emit_mov(i.dst, i.src)
      [] i.op = "Movabs" -> emit_movabs(i.dst, i.src)
      [] i.op = "Movsx" -> emit_movsx(i.dst, i.src)
      [] i.op = "Movzx" -> emit_movzx(i.dst, i.src)
      [] i.op = "Pop" -> emit_pop(i.dst)
      [] i.op = "Push" -> emit_push(i.dst)
      [] i.op = "Ret" -> emit_ret(i.dst)
      [] i.op = "Setcc" -> emit_setcc(i.dst, i.cc)
      [] i.op = "Test" -> emit_test(i.dst, i.src)
      [] i.op = "Xadd" -> rm_reg(i.dst, i.src, \hFC0)
      [] i.op = "Xchg" -> emit_xchg(i.dst, i.src)

Encodable(i) == \A k \in 1..Len(encode(i)) : encode(i)[k] # Panic

-----------------------------------------------------------------------------
(* The decoder.  Reading starts at position p of b; next is where it ends. *)

immediate(b, p, size) == Extend(SubSeq(b, p, p + 2^size - 1))

register_of_size(n, size, rex) ==
    (n % 16) + CASE size = Byte -> IF rex # 0 /\ n % 16 \in 4..7 THEN REG_GPB2
                                                                 ELSE REG_GPB
                 [] size = Word -> REG_GPW
                 [] size = Dword -> REG_GPD
                 [] size = Qword -> REG_GPQ

\* Register::resize, Location::resize.
resize(loc, size) ==
    IF loc.k = "reg" THEN Reg(register_of_size(loc.reg, size, \h40))
    ELSE [loc EXCEPT !.size = size]

\* Mutant: the displacement of a byte is not extended by its sign.
disp8_unsigned(b, p) == Low(immediate(b, p, Byte), 1) \o Low(Zero, 7)

disp8(b, p) == immediate(b, p, Byte)

\* [loc, reg, next]; REX.R, REX.X and REX.B extend the three registers.
modrm(b, p, rex, size) ==
    LET mod == b[p] \div 64
        rm == b[p] % 8
        B == 8 * Bit(rex, 0)
        reg == register_of_size(((b[p] \div 8) % 8) + 8 * Bit(rex, 2), size, rex)
        Base(n) == register_of_size(n, Qword, 0)
        \* without a base the displacement has 32 bits
        disp(m, loc, at) ==
          CASE m = 0 -> [loc |-> loc, reg |-> reg, next |-> at]
            [] m = 1 -> [loc |-> [loc EXCEPT !.disp = disp8(b, at)],
                         reg |-> reg, next |-> at + 1]
            [] m = 2 -> [loc |-> [loc EXCEPT !.disp = immediate(b, at, Dword)],
                         reg |-> reg, next |-> at + 4]
    IN CASE mod = 3 -> [loc |-> Reg(register_of_size(rm + B, size, rex)),
                        reg |-> reg, next |-> p + 1]
         [] mod = 0 /\ rm = 5 ->
              disp(2, Mem(RIP, None, 0, Zero, Qword), p + 1)
         [] mod # 3 /\ rm # 4 /\ ~(mod = 0 /\ rm = 5) ->
              disp(mod, Mem(Base(rm + B), None, 0, Zero, size), p + 1)
         [] mod # 3 /\ rm = 4 ->
              LET sib == b[p + 1]
                  n == ((sib \div 8) % 8) + 8 * Bit(rex, 1)
                  index == IF n = 4 THEN None ELSE Base(n)
                  shift == IF n = 4 THEN 0 ELSE sib \div 64
              IN IF mod = 0 /\ sib % 8 = 5
                 THEN disp(2, Mem(None, index, shift, Zero, size), p + 2)
                 ELSE disp(mod, Mem(Base((sib % 8) + B), index, shift, Zero, size), p + 2)

\* [rex, opsize, code, next]: prefixes and the escape byte.
RECURSIVE prefixes(_, _, _, _)
prefixes(b, p, rex, opsize) ==
    CASE b[p] \div 16 = 4 ->
           prefixes(b, p + 1, b[p], IF Bit(b[p], 3) = 1 THEN Qword ELSE opsize)
      [] b[p] = \h66 -> prefixes(b, p + 1, rex, Word)
      [] b[p] = \h0F -> [rex |-> rex, opsize |-> opsize,
                         code |-> \h0F00 + b[p + 1], next |-> p + 2]
      [] OTHER -> [rex |-> rex, opsize |-> opsize, code |-> b[p], next |-> p + 1]

AluCodes(k) == {8 * i + k : i \in 0..7}
ByteSized == AluCodes(0) \cup AluCodes(2) \cup AluCodes(4)
             \cup {\h80, \h84, \h86, \h88, \h8A, \hC0, \hC6, \hD0, \hD2, \hF6,
                   \h0FB0, \h0FC0}

decode_alu(dst, src, id) == Op2(Alu[(id % 8) + 1], dst, src)
NameOf(table, id) ==
    IF \E n \in DOMAIN table : table[n] = id
    THEN CHOOSE n \in DOMAIN table : table[n] = id ELSE "Unimplemented"
decode_shift(dst, src, id) ==
    LET name == NameOf(Shifts, id % 8)
    IN IF name = "Unimplemented" THEN Unimplemented ELSE Op2(name, dst, src)

\* op: [i, next], the instruction and the position after it.
decode(b) ==
    LET h == prefixes(b, 1, 0, Dword)
        bytewise == h.code \in ByteSized \cup {\hB0}
        size == IF bytewise THEN Byte ELSE h.opsize
        code == CASE h.code \in ByteSized -> h.code + 1
                  [] h.code = \hB0 -> \hB8
                  [] OTHER -> h.code
        p == h.next
        m == modrm(b, p, h.rex, IF code = \hFF THEN Qword
                                ELSE IF code \in \h0F90..\h0F9F THEN Byte ELSE size)
        short == register_of_size((code % 8) + 8 * Bit(h.rex, 0),
                                  IF code < \h60 /\ size = Dword THEN Qword ELSE size,
                                  h.rex)
        Done(i, next) == [i |-> i, next |-> next]
        RmReg(name) == Done(Op2(name, m.loc, Reg(m.reg)), m.next)
        RegRm(name) == Done(Op2(name, Reg(m.reg), m.loc), m.next)
        Sized(name, s) == Done(Op2(name, Reg(m.reg), resize(m.loc, s)), m.next)
        cap == cap_to_dword(size)
    IN CASE code = \h0F0B -> Done(Op0("Illegal"), p)
         [] code \in \h0F40..\h0F4F ->
              Done(Ins("Cmovcc", Reg(m.reg), m.loc, code % 16), m.next)
         [] code \in \h0F80..\h0F8F ->
              Done(Ins("Jcc", Imm(immediate(b, p, Dword)), Absent, code % 16), p + 4)
         [] code \in \h0F90..\h0F9F -> Done(Ins("Setcc", m.loc, Absent, code % 16), m.next)
         [] code = \h0FAE -> Done(Op0("Mfence"), p + 1)
         [] code = \h0FAF -> RegRm("Imul2")
         [] code = \h0FB1 -> RmReg("Cmpxchg")
         [] code = \h0FB6 -> Sized("Movzx", Byte)
         [] code = \h0FB7 -> Sized("Movzx", Word)
         [] code = \h0FBE -> Sized("Movsx", Byte)
         [] code = \h0FBF -> Sized("Movsx", Word)
         [] code = \h63 -> Sized("Movsx", Dword)
         [] code = \h0FC1 -> RmReg("Xadd")
         [] code \in AluCodes(1) ->
              Done(decode_alu(m.loc, Reg(m.reg), code \div 8), m.next)
         [] code \in AluCodes(3) ->
              Done(decode_alu(Reg(m.reg), m.loc, code \div 8), m.next)
         [] code \in AluCodes(5) ->
              Done(decode_alu(Reg(register_of_size(0, size, h.rex)),
                              Imm(immediate(b, p, cap)), code \div 8), p + 2^cap)
         [] code \in \h50..\h57 -> Done(Op1("Push", Reg(short)), p)
         [] code \in \h58..\h5F -> Done(Op1("Pop", Reg(short)), p)
         [] code \in \h70..\h7F ->
              Done(Ins("Jcc", Imm(immediate(b, p, Byte)), Absent, code % 16), p + 1)
         [] code = \h81 -> Done(decode_alu(m.loc, Imm(immediate(b, m.next, cap)), m.reg),
                                m.next + 2^cap)
         [] code = \h83 -> Done(decode_alu(m.loc, Imm(immediate(b, m.next, Byte)), m.reg),
                                m.next + 1)
         [] code = \h85 -> RmReg("Test")
         [] code = \h87 -> RegRm("Xchg")
         [] code = \h89 -> RmReg("Mov")
         [] code = \h8B -> RegRm("Mov")
         [] code = \h8D -> IF m.loc.k = "mem" THEN RegRm("Lea")
                           ELSE Done(Op0("Illegal"), m.next)
         [] code = \h90 -> Done(Op0("Nop"), p)
         [] code = \h98 /\ size = Qword -> Done(Op0("Cdqe"), p)
         [] code = \h99 /\ size = Dword -> Done(Op0("Cdq"), p)
         [] code = \h99 /\ size = Qword -> Done(Op0("Cqo"), p)
         [] code \in \hB8..\hBF ->
              Done(Op2("Mov", Reg(short), Imm(immediate(b, p, size))), p + 2^size)
         [] code = \hC1 -> Done(decode_shift(m.loc, Imm(<<b[m.next]>> \o Low(Zero, 7)),
                                             m.reg), m.next + 1)
         [] code = \hC2 -> Done(Op1("Ret", Imm(SubSeq(b, p, p + 1) \o Low(Zero, 6))), p + 2)
         [] code = \hC3 -> Done(Op1("Ret", Imm(Zero)), p)
         [] code = \hC7 /\ m.reg % 8 = 0 ->
              Done(Op2("Mov", m.loc, Imm(immediate(b, m.next, cap))), m.next + 2^cap)
         [] code = \hD1 -> Done(decode_shift(m.loc, Imm(One), m.reg), m.next)
         [] code = \hD3 -> Done(decode_shift(m.loc, Reg(CL), m.reg), m.next)
         [] code = \hE8 -> Done(Op1("Call", Imm(immediate(b, p, Dword))), p + 4)
         [] code = \hE9 -> Done(Op1("Jmp", Imm(immediate(b, p, Dword))), p + 4)
         [] code = \hEB -> Done(Op1("Jmp", Imm(immediate(b, p, Byte))), p + 1)
         [] code = \hF0 -> Done(Op0("Lock"), p)
         [] code = \hF4 -> Done(Op0("Hlt"), p)
         [] code = \hF7 /\ m.reg % 8 = 0 ->
              Done(Op2("Test", m.loc, Imm(immediate(b, m.next, cap))), m.next + 2^cap)
         [] code = \hF7 /\ m.reg % 8 \in 2..7 ->
              Done(Op1(NameOf(Unary, m.reg % 8), m.loc), m.next)
         [] code = \hFF /\ m.reg % 8 \in {0, 2, 4} ->
              Done(Op1(CASE m.reg % 8 = 0 -> "Push" [] m.reg % 8 = 2 -> "Call"
                         [] OTHER -> "Jmp", m.loc), m.next)
         [] OTHER -> Done(Unimplemented, p)
=============================================================================
