---------------------------- MODULE RiscvDecode -----------------------------
(***************************************************************************)
(* The RISC-V instruction decoder (src/lib/riscv/src/decode.rs).  A        *)
(* compressed instruction is a number below 2^16; any other is its two     *)
(* halves, [lo, hi].  A decoded instruction is an Op with its operands;    *)
(* the width of an operation that exists in two, W or D for memory and 0   *)
(* or 1 (single, double) for floats, is an operand.                        *)
(***************************************************************************)
EXTENDS Integers, Sequences

\* Op by its name in a table, "-" where the table has none.
Illegal == [op |-> "Illegal", args |-> <<>>]
Op(name, operands) == IF name = "-" THEN Illegal ELSE [op |-> name, args |-> operands]
Plain(name) == Op(name, <<>>)

Bits(x, hi, lo) == (x \div 2^lo) % 2^(hi - lo + 1)
\* Bits hi to lo of an instruction of 32 bits.
Field(w, hi, lo) ==
    IF lo >= 16 THEN Bits(w.hi, hi - 16, lo - 16)
    ELSE IF hi < 16 THEN Bits(w.lo, hi, lo)
    ELSE Bits(w.lo, 15, lo) + 2^(16 - lo) * Bits(w.hi, hi - 16, 0)

-----------------------------------------------------------------------------
(* Fields of 32-bit instructions.                                          *)

rd(w) == Field(w, 11, 7)
rs1(w) == Field(w, 19, 15)
rs2(w) == Field(w, 24, 20)
rs3(w) == Field(w, 31, 27)
funct3(w) == Field(w, 14, 12)
funct7(w) == Field(w, 31, 25)
csr(w) == Field(w, 31, 20)
Sign(w) == Field(w, 31, 31)
i_imm(w) == Field(w, 30, 20) - 2^11 * Sign(w)
s_imm(w) == 2^5 * Field(w, 30, 25) + Field(w, 11, 7) - 2^11 * Sign(w)
b_imm(w) == 2^11 * Field(w, 7, 7) + 2^5 * Field(w, 30, 25) + 2 * Field(w, 11, 8)
            - 2^12 * Sign(w)
u_imm(w) == 2^12 * (Field(w, 30, 12) - 2^19 * Sign(w))
j_imm(w) == 2^12 * Field(w, 19, 12) + 2^11 * Field(w, 20, 20) + 2 * Field(w, 30, 21)
            - 2^20 * Sign(w)

-----------------------------------------------------------------------------
(* Fields of compressed instructions.                                      *)

c_funct3(c) == Bits(c, 15, 13)
c_rd(c) == Bits(c, 11, 7)
c_rs2(c) == Bits(c, 6, 2)
c_rds(c) == Bits(c, 4, 2) + 8
c_rs1s(c) == Bits(c, 9, 7) + 8
C12(c) == Bits(c, 12, 12)
ci_imm(c) == Bits(c, 6, 2) - 2^5 * C12(c)
ci_lwsp_imm(c) == 2^6 * Bits(c, 3, 2) + 2^5 * C12(c) + 2^2 * Bits(c, 6, 4)
ci_ldsp_imm(c) == 2^6 * Bits(c, 4, 2) + 2^5 * C12(c) + 2^3 * Bits(c, 6, 5)
ci_addi16sp_imm(c) ==
    2^7 * Bits(c, 4, 3) + 2^6 * Bits(c, 5, 5) + 2^5 * Bits(c, 2, 2)
    + 2^4 * Bits(c, 6, 6) - 2^9 * C12(c)
css_swsp_imm(c) == 2^6 * Bits(c, 8, 7) + 2^2 * Bits(c, 12, 9)
css_sdsp_imm(c) == 2^6 * Bits(c, 9, 7) + 2^3 * Bits(c, 12, 10)
ciw_imm(c) == 2^6 * Bits(c, 10, 7) + 2^4 * Bits(c, 12, 11) + 2^3 * Bits(c, 5, 5)
              + 2^2 * Bits(c, 6, 6)
cl_lw_imm(c) == 2^6 * Bits(c, 5, 5) + 2^3 * Bits(c, 12, 10) + 2^2 * Bits(c, 6, 6)
cl_ld_imm(c) == 2^6 * Bits(c, 6, 5) + 2^3 * Bits(c, 12, 10)
cb_imm(c) == 2^6 * Bits(c, 6, 5) + 2^5 * Bits(c, 2, 2) + 2^3 * Bits(c, 11, 10)
             + 2 * Bits(c, 4, 3) - 2^8 * C12(c)

\* Mutant: two bits of the offset are taken for each other.
cj_imm_swapped(c) ==
    2^10 * Bits(c, 7, 7) + 2^8 * Bits(c, 10, 9) + 2^7 * Bits(c, 6, 6)
    + 2^6 * Bits(c, 8, 8) + 2^5 * Bits(c, 2, 2) + 2^4 * Bits(c, 11, 11)
    + 2 * Bits(c, 5, 3) - 2^11 * C12(c)

cj_imm(c) ==
    2^10 * Bits(c, 8, 8) + 2^8 * Bits(c, 10, 9) + 2^7 * Bits(c, 6, 6)
    + 2^6 * Bits(c, 7, 7) + 2^5 * Bits(c, 2, 2) + 2^4 * Bits(c, 11, 11)
    + 2 * Bits(c, 5, 3) - 2^11 * C12(c)

-----------------------------------------------------------------------------
(* decode_compressed, by the two low bits.                                 *)

RI(d, s, imm) == [rd |-> d, rs1 |-> s, imm |-> imm]
RR(d, s, t) == [rd |-> d, rs1 |-> s, rs2 |-> t]
FI(d, s, imm) == [frd |-> d, rs1 |-> s, imm |-> imm]
SI(s, t, imm) == [rs1 |-> s, rs2 |-> t, imm |-> imm]
FSI(s, t, imm) == [rs1 |-> s, frs2 |-> t, imm |-> imm]

Quadrant0(c) ==
    LET d == c_rds(c)
        s == c_rs1s(c) IN
    CASE c_funct3(c) = 0 -> Op(IF ciw_imm(c) = 0 THEN "-" ELSE "Addi", RI(d, 2, ciw_imm(c)))
      [] c_funct3(c) = 1 -> Op("Fld", FI(d, s, cl_ld_imm(c)))
      [] c_funct3(c) = 2 -> Op("Lw", RI(d, s, cl_lw_imm(c)))
      [] c_funct3(c) = 3 -> Op("Ld", RI(d, s, cl_ld_imm(c)))
      [] c_funct3(c) = 4 -> Illegal
      [] c_funct3(c) = 5 -> Op("Fsd", FSI(s, d, cl_ld_imm(c)))
      [] c_funct3(c) = 6 -> Op("Sw", SI(s, d, cl_lw_imm(c)))
      [] c_funct3(c) = 7 -> Op("Sd", SI(s, d, cl_ld_imm(c)))

\* Arithmetic on the registers x8 to x15.
CAlu(c) ==
    LET s == c_rs1s(c)
        names == <<"Sub", "Xor", "Or", "And", "Subw", "Addw", "-", "-">> IN
    CASE Bits(c, 11, 10) = 0 -> Op("Srli", RI(s, s, ci_imm(c) % 64))
      [] Bits(c, 11, 10) = 1 -> Op("Srai", RI(s, s, ci_imm(c) % 64))
      [] Bits(c, 11, 10) = 2 -> Op("Andi", RI(s, s, ci_imm(c)))
      [] Bits(c, 11, 10) = 3 ->
           Op(names[4 * C12(c) + Bits(c, 6, 5) + 1], RR(s, s, c_rds(c)))

Quadrant1(c) ==
    LET d == c_rd(c) IN
    CASE c_funct3(c) = 0 -> Op("Addi", RI(d, d, ci_imm(c)))
      [] c_funct3(c) = 1 -> Op(IF d = 0 THEN "-" ELSE "Addiw", RI(d, d, ci_imm(c)))
      [] c_funct3(c) = 2 -> Op("Addi", RI(d, 0, ci_imm(c)))
      [] c_funct3(c) = 3 ->
           IF d = 2 THEN Op(IF ci_addi16sp_imm(c) = 0 THEN "-" ELSE "Addi",
                            RI(2, 2, ci_addi16sp_imm(c)))
           ELSE Op("Lui", [rd |-> d, imm |-> 2^12 * ci_imm(c)])
      [] c_funct3(c) = 4 -> CAlu(c)
      [] c_funct3(c) = 5 -> Op("Jal", [rd |-> 0, imm |-> cj_imm(c)])
      [] c_funct3(c) = 6 -> Op("Beq", SI(c_rs1s(c), 0, cb_imm(c)))
      [] c_funct3(c) = 7 -> Op("Bne", SI(c_rs1s(c), 0, cb_imm(c)))

\* C.JR, C.MV, C.EBREAK, C.JALR and C.ADD.
CJump(c) ==
    LET d == c_rd(c)
        t == c_rs2(c) IN
    CASE C12(c) = 0 /\ t = 0 -> Op(IF d = 0 THEN "-" ELSE "Jalr", RI(0, d, 0))
      [] C12(c) = 0 /\ t # 0 -> Op("Add", RR(d, 0, t))
      [] C12(c) = 1 /\ d = 0 -> Plain("Ebreak")
      [] C12(c) = 1 /\ d # 0 /\ t = 0 -> Op("Jalr", RI(1, d, 0))
      [] C12(c) = 1 /\ d # 0 /\ t # 0 -> Op("Add", RR(d, d, t))

Quadrant2(c) ==
    LET d == c_rd(c)
        t == c_rs2(c) IN
    CASE c_funct3(c) = 0 -> Op("Slli", RI(d, d, ci_imm(c) % 64))
      [] c_funct3(c) = 1 -> Op("Fld", FI(d, 2, ci_ldsp_imm(c)))
      [] c_funct3(c) = 2 -> Op(IF d = 0 THEN "-" ELSE "Lw", RI(d, 2, ci_lwsp_imm(c)))
      [] c_funct3(c) = 3 -> Op(IF d = 0 THEN "-" ELSE "Ld", RI(d, 2, ci_ldsp_imm(c)))
      [] c_funct3(c) = 4 -> CJump(c)
      [] c_funct3(c) = 5 -> Op("Fsd", FSI(2, t, css_sdsp_imm(c)))
      [] c_funct3(c) = 6 -> Op("Sw", SI(2, t, css_swsp_imm(c)))
      [] c_funct3(c) = 7 -> Op("Sd", SI(2, t, css_sdsp_imm(c)))

decode_compressed(c) ==
    CASE c % 4 = 0 -> Quadrant0(c)
      [] c % 4 = 1 -> Quadrant1(c)
      [] c % 4 = 2 -> Quadrant2(c)

-----------------------------------------------------------------------------
(* decode, by the opcode.                                                  *)

At(names, k) == names[k + 1]
\* rm!: the rounding modes 5 and 6 are reserved.
Rounded(w, name, operands) ==
    Op(IF funct3(w) \in {5, 6} THEN "-" ELSE name, [rm |-> funct3(w), of |-> operands])

\* Shift amounts of OP-IMM and OP-IMM-32, below limit; bit 10 tells sra from srl.
Shift(w, limit, left, logical, arithmetic) ==
    LET imm == i_imm(w)
        arith == Bits(imm, 10, 10) = 1
        amount == imm - 2^10 * Bits(imm, 10, 10)
        operands(x) == RI(rd(w), rs1(w), x)
    IN IF funct3(w) = 1 THEN Op(IF imm >= limit THEN "-" ELSE left, operands(imm))
       ELSE IF amount >= limit THEN Illegal
       ELSE Op(IF arith THEN arithmetic ELSE logical, operands(amount))

OpImm(w) ==
    IF funct3(w) \in {1, 5} THEN Shift(w, 64, "Slli", "Srli", "Srai")
    ELSE Op(At(<<"Addi", "-", "Slti", "Sltiu", "Xori", "-", "Ori", "Andi">>, funct3(w)),
            RI(rd(w), rs1(w), i_imm(w)))

OpImm32(w) ==
    CASE funct3(w) \in {1, 5} -> Shift(w, 32, "Slliw", "Srliw", "Sraiw")
      [] funct3(w) = 0 -> Op("Addiw", RI(rd(w), rs1(w), i_imm(w)))
      [] OTHER -> Illegal

\* The operations of the A extension by the upper five bits of funct7.
AmoName(func) ==
    CASE func = 0 -> "Amoadd" [] func = 1 -> "Amoswap" [] func = 2 -> "Lr" [] func = 3 -> "Sc"
      [] func = 4 -> "Amoxor" [] func = 8 -> "Amoor" [] func = 12 -> "Amoand"
      [] func = 16 -> "Amomin" [] func = 20 -> "Amomax" [] func = 24 -> "Amominu"
      [] func = 28 -> "Amomaxu" [] OTHER -> "-"

lr_illegal(w) == rs2(w) # 0

Atomic(w) ==
    LET func == Field(w, 31, 27)
        operands == [rd |-> rd(w), rs1 |-> rs1(w), aqrl |-> Field(w, 26, 25),
                     fmt |-> IF funct3(w) = 2 THEN "W" ELSE "D"]
    IN Op(IF funct3(w) \notin {2, 3} \/ (func = 2 /\ lr_illegal(w)) THEN "-" ELSE AmoName(func),
          IF func = 2 THEN operands ELSE [rs2 |-> rs2(w), of |-> operands])

Reserved == <<"-", "-", "-", "-", "-", "-", "-", "-">>

OpNames(f7) ==
    CASE f7 = 1 -> <<"Mul", "Mulh", "Mulhsu", "Mulhu", "Div", "Divu", "Rem", "Remu">>
      [] f7 = 0 -> <<"Add", "Sll", "Slt", "Sltu", "Xor", "Srl", "Or", "And">>
      [] f7 = 32 -> <<"Sub", "-", "-", "-", "-", "Sra", "-", "-">>
      [] OTHER -> Reserved

Op32Names(f7) ==
    CASE f7 = 1 -> <<"Mulw", "-", "-", "-", "Divw", "Divuw", "Remw", "Remuw">>
      [] f7 = 0 -> <<"Addw", "Sllw", "-", "-", "-", "Srlw", "-", "-">>
      [] f7 = 32 -> <<"Subw", "-", "-", "-", "-", "Sraw", "-", "-">>
      [] OTHER -> Reserved

\* MADD, MSUB, NMSUB and NMADD.
Fused(w, name) ==
    Rounded(w, IF Field(w, 26, 25) \notin {0, 1} THEN "-" ELSE name,
            [frd |-> rd(w), frs1 |-> rs1(w), frs2 |-> rs2(w), frs3 |-> rs3(w),
             fmt |-> Field(w, 25, 25)])

\* OP-FP: funct7 without its lowest bit, which is the format.
OpFp(w) ==
    LET f == Bits(funct7(w), 6, 1)
        fmt == Bits(funct7(w), 0, 0)
        f3 == funct3(w)
        t == rs2(w)
        three == [frd |-> rd(w), frs1 |-> rs1(w), frs2 |-> t, fmt |-> fmt]
        test == [rd |-> rd(w), frs1 |-> rs1(w), frs2 |-> t, fmt |-> fmt]
        two == [frd |-> rd(w), frs1 |-> rs1(w), fmt |-> fmt]
        toInt == [rd |-> rd(w), frs1 |-> rs1(w), fmt |-> fmt]
        fromInt == [frd |-> rd(w), rs1 |-> rs1(w), fmt |-> fmt]
        names(s) == IF f3 < Len(s) THEN At(s, f3) ELSE "-"
        int(s) == IF t < 4 THEN At(s, t) ELSE "-"
    IN CASE f = 0 -> Rounded(w, "Fadd", three)
         [] f = 2 -> Rounded(w, "Fsub", three)
         [] f = 4 -> Rounded(w, "Fmul", three)
         [] f = 6 -> Rounded(w, "Fdiv", three)
         [] f = 22 -> Rounded(w, IF t = 0 THEN "Fsqrt" ELSE "-", two)
         [] f = 8 -> Op(names(<<"Fsgnj", "Fsgnjn", "Fsgnjx">>), three)
         [] f = 10 -> Op(names(<<"Fmin", "Fmax">>), three)
         [] f = 16 -> Rounded(w, IF t = 1 - fmt THEN "Fcvt" ELSE "-", two)
         [] f = 48 -> Rounded(w, int(<<"FcvtW", "FcvtWu", "FcvtL", "FcvtLu">>), toInt)
         [] f = 56 -> Op(IF t = 0 THEN names(<<"FmvX", "Fclass">>) ELSE "-", toInt)
         [] f = 40 -> Op(names(<<"Fle", "Flt", "Feq">>), test)
         [] f = 52 -> Rounded(w, int(<<"FcvtFW", "FcvtFWu", "FcvtFL", "FcvtFLu">>), fromInt)
         [] f = 60 -> Op(IF t = 0 /\ f3 = 0 THEN "FmvF" ELSE "-", fromInt)
         [] OTHER -> Illegal

\* Csr::readonly: the two high bits of the address are set.
readonly(a) == Bits(a, 11, 10) = 3

System(w) ==
    LET f3 == funct3(w)
        writes == ~(Bits(f3, 1, 1) = 1 /\ rs1(w) = 0)
        names == <<"-", "Csrrw", "Csrrs", "Csrrc", "-", "Csrrwi", "Csrrsi", "Csrrci">>
        exact(imm) == csr(w) = imm /\ rd(w) = 0 /\ rs1(w) = 0
    IN CASE f3 = 0 /\ exact(0) -> Plain("Ecall")
         [] f3 = 0 /\ exact(\h001) -> Plain("Ebreak")
         [] f3 = 0 /\ exact(\h302) -> Plain("Mret")
         [] f3 = 0 /\ exact(\h102) -> Plain("Sret")
         [] f3 = 0 /\ exact(\h105) -> Plain("Wfi")
         [] f3 = 0 /\ rd(w) = 0 /\ funct7(w) = 9 ->
              Op("SfenceVma", [rs1 |-> rs1(w), rs2 |-> rs2(w)])
         [] f3 \notin {0, 4} /\ ~(readonly(csr(w)) /\ writes) ->
              Op(At(names, f3), [rd |-> rd(w), rs1 |-> rs1(w), csr |-> csr(w)])
         [] OTHER -> Illegal

decode(w) ==
    LET f3 == funct3(w)
        code == Field(w, 6, 0)
        d == rd(w)
        s == rs1(w)
        t == rs2(w)
    IN CASE code = \h03 ->
              Op(At(<<"Lb", "Lh", "Lw", "Ld", "Lbu", "Lhu", "Lwu", "-">>, f3),
                 RI(d, s, i_imm(w)))
         [] code = \h07 -> Op(At(<<"-", "-", "Flw", "Fld", "-", "-", "-", "-">>, f3),
                              FI(d, s, i_imm(w)))
         [] code = \h13 -> OpImm(w)
         [] code = \h0F -> Op(At(<<"Fence", "FenceI", "-", "-", "-", "-", "-", "-">>, f3), <<>>)
         [] code = \h1B -> OpImm32(w)
         [] code = \h23 -> Op(At(<<"Sb", "Sh", "Sw", "Sd", "-", "-", "-", "-">>, f3),
                              SI(s, t, s_imm(w)))
         [] code = \h27 -> Op(At(<<"-", "-", "Fsw", "Fsd", "-", "-", "-", "-">>, f3),
                              FSI(s, t, s_imm(w)))
         [] code = \h2F -> Atomic(w)
         [] code = \h33 -> Op(At(OpNames(funct7(w)), f3), RR(d, s, t))
         [] code = \h37 -> Op("Lui", [rd |-> d, imm |-> u_imm(w)])
         [] code = \h3B -> Op(At(Op32Names(funct7(w)), f3), RR(d, s, t))
         [] code = \h43 -> Fused(w, "Fmadd")
         [] code = \h47 -> Fused(w, "Fmsub")
         [] code = \h4B -> Fused(w, "Fnmsub")
         [] code = \h4F -> Fused(w, "Fnmadd")
         [] code = \h17 -> Op("Auipc", [rd |-> d, imm |-> u_imm(w)])
         [] code = \h53 -> OpFp(w)
         [] code = \h63 ->
              Op(At(<<"Beq", "Bne", "-", "-", "Blt", "Bge", "Bltu", "Bgeu">>, f3),
                 SI(s, t, b_imm(w)))
         [] code = \h67 -> Op("Jalr", RI(d, s, i_imm(w)))
         [] code = \h6F -> Op("Jal", [rd |-> d, imm |-> j_imm(w)])
         [] code = \h73 -> System(w)
         [] OTHER -> Illegal
=============================================================================
