-------------------------------- MODULE Dbt --------------------------------
(***************************************************************************)
(* The code that the translator emits for one RISC-V instruction           *)
(* (src/src/emu/dbt.rs): emit_op and the emit_* methods it calls, as       *)
(* sequences of instructions of the module X86.  Every method knows the    *)
(* numbers of its registers and its immediate, and takes short cuts when   *)
(* some of them are equal, are x0, or are zero.                            *)
(*                                                                         *)
(* Every method that computes a register begins with the same test: rd = 0 *)
(* emits nothing.  emit_op makes it once, for all of them.                 *)
(***************************************************************************)
EXTENDS X86

One(i) == <<i>>

load_reg(reg, rs) ==
    IF rs = 0 THEN One(<<"xor", R(reg[2], W32), R(reg[2], W32)>>)
              ELSE One(<<"mov", reg, X(rs, reg[3])>>)

store_reg(rd, reg) ==
    LET q == R(reg[2], W64)
        extend == IF reg = EAX THEN <<"cdqe">> ELSE <<"movsx", q, reg>>
    IN  CASE rd = 0                     -> <<>>
          [] rd # 0 /\ reg[3] = W64   -> One(<<"mov", X(rd, W64), q>>)
          [] rd # 0 /\ reg[3] = W32   -> <<extend, <<"mov", X(rd, W64), q>>>>

emit_load_imm(rd, imm) == One(<<"mov", X(rd, W64), I(imm)>>)

emit_move(rd, rs) == IF rd = rs THEN <<>>
                     ELSE IF rs = 0 THEN emit_load_imm(rd, 0)
                     ELSE <<<<"mov", RAX, X(rs, W64)>>, <<"mov", X(rd, W64), RAX>>>>

emit_move32(rd, rs) == IF rs = 0 THEN emit_load_imm(rd, 0)
                       ELSE <<<<"movsx", RAX, X(rs, W32)>>, <<"mov", X(rd, W64), RAX>>>>

\* An operation on rs1 that can be done where rd is when they are the same.
InPlace(ins, rd, rs1, src) ==
    IF rd = rs1 THEN One(<<ins, X(rd, W64), src>>)
    ELSE load_reg(RAX, rs1) \o One(<<ins, RAX, src>>) \o store_reg(rd, RAX)

InPlace1(ins, rd, rs1) ==
    IF rd = rs1 THEN One(<<ins, X(rd, W64)>>)
    ELSE load_reg(RAX, rs1) \o One(<<ins, RAX>>) \o store_reg(rd, RAX)

(* OP-IMM *)

emit_addi(rd, rs1, imm) ==
    IF rs1 = 0 THEN emit_load_imm(rd, imm)
    ELSE IF imm = 0 THEN emit_move(rd, rs1)
    ELSE InPlace("add", rd, rs1, I(imm))

emit_shift_imm(ins, rd, rs1, imm) ==
    IF rs1 = 0 THEN emit_load_imm(rd, 0)
    ELSE IF imm = 0 THEN emit_move(rd, rs1)
    ELSE IF ins = "shl" /\ imm = 1 /\ rd # rs1
         THEN load_reg(RAX, rs1) \o One(<<"add", RAX, RAX>>) \o store_reg(rd, RAX)
    ELSE InPlace(ins, rd, rs1, I(imm))

emit_slli(rd, rs1, imm) == emit_shift_imm("shl", rd, rs1, imm)
emit_srli(rd, rs1, imm) == emit_shift_imm("shr", rd, rs1, imm)
emit_srai(rd, rs1, imm) == emit_shift_imm("sar", rd, rs1, imm)

\* Compare rs1 with an immediate and leave the outcome in rd.
SetImm(rd, rs1, imm, cc) ==
    <<<<"xor", EAX, EAX>>, <<"cmp", X(rs1, W64), I(imm)>>, <<"setcc", AL, cc>>>>
        \o store_reg(rd, RAX)

emit_slti(rd, rs1, imm) ==
    (IF rs1 = 0 THEN emit_load_imm(rd, Bool(imm > 0)) ELSE <<>>)
    \o (IF imm = 0 THEN InPlace("shr", rd, rs1, I(W64 - 1))
        ELSE IF imm > 0 THEN SetImm(rd, rs1, imm - 1, "LessEqual")
        ELSE SetImm(rd, rs1, imm, "Less"))

emit_sltiu(rd, rs1, imm) ==
    (IF rs1 = 0 THEN emit_load_imm(rd, Bool(imm # 0)) ELSE <<>>)
    \o (IF imm = 0 THEN emit_load_imm(rd, 0) ELSE <<>>)
    \o (IF imm > 0
        THEN SetImm(rd, rs1, imm - 1, IF imm = 1 THEN "Equal" ELSE "BelowEqual")
        ELSE SetImm(rd, rs1, imm, IF imm = -1 THEN "NotEqual" ELSE "Below"))

emit_xori(rd, rs1, imm) ==
    IF rs1 = 0 THEN emit_load_imm(rd, imm)
    ELSE IF imm = 0 THEN emit_move(rd, rs1)
    ELSE IF imm = -1 THEN InPlace1("not", rd, rs1)
    ELSE InPlace("xor", rd, rs1, I(imm))

emit_ori(rd, rs1, imm) ==
    IF rs1 = 0 THEN emit_load_imm(rd, imm)
    ELSE IF imm = 0 THEN emit_move(rd, rs1)
    ELSE IF imm = -1 THEN emit_load_imm(rd, -1)
    ELSE InPlace("or", rd, rs1, I(imm))

emit_andi(rd, rs1, imm) ==
    IF rs1 = 0 \/ imm = 0 THEN emit_load_imm(rd, 0)
    ELSE IF imm = -1 THEN emit_move(rd, rs1)
    ELSE InPlace("and", rd, rs1, I(imm))

(* OP-IMM-32 *)

Through(reg, rd, rs1, body) == load_reg(reg, rs1) \o body \o store_reg(rd, reg)

emit_addiw(rd, rs1, imm) ==
    IF rs1 = 0 THEN emit_load_imm(rd, imm)
    ELSE IF imm = 0 THEN emit_move32(rd, rs1)
    ELSE Through(EAX, rd, rs1, One(<<"add", EAX, I(imm)>>))

emit_shift_imm_w(ins, rd, rs1, imm) ==
    IF rs1 = 0 THEN emit_load_imm(rd, 0)
    ELSE IF imm = 0 THEN emit_move32(rd, rs1)
    ELSE Through(EAX, rd, rs1, One(IF ins = "shl" /\ imm = 1 THEN <<"add", EAX, EAX>>
                                   ELSE <<ins, EAX, I(imm)>>))

emit_slliw(rd, rs1, imm) == emit_shift_imm_w("shl", rd, rs1, imm)
emit_srliw(rd, rs1, imm) == emit_shift_imm_w("shr", rd, rs1, imm)
emit_sraiw(rd, rs1, imm) == emit_shift_imm_w("sar", rd, rs1, imm)

(* OP *)

\* An operation that commutes: done in place whichever operand rd is.
Commute(ins, rd, rs1, rs2) ==
    IF rd = rs1 THEN load_reg(RAX, rs2) \o One(<<ins, X(rd, W64), RAX>>)
    ELSE IF rd = rs2 THEN load_reg(RAX, rs1) \o One(<<ins, X(rd, W64), RAX>>)
    ELSE Through(RAX, rd, rs1, One(<<ins, RAX, X(rs2, W64)>>))

emit_add(rd, rs1, rs2) ==
    IF rs1 = 0 THEN emit_move(rd, rs2)
    ELSE IF rs2 = 0 THEN emit_move(rd, rs1)
    ELSE IF rd = rs1 /\ rd = rs2 THEN One(<<"shl", X(rd, W64), I(1)>>)
    ELSE IF rd # rs1 /\ rs1 = rs2 THEN Through(RAX, rd, rs1, One(<<"add", RAX, RAX>>))
    ELSE Commute("add", rd, rs1, rs2)

\* Subtraction done in place for the wrong operand.
sub_in_place(rd, rs1, rs2) ==
    IF rs2 = 0 THEN emit_move(rd, rs1) ELSE Commute("sub", rd, rs1, rs2)

emit_sub(rd, rs1, rs2) ==
    IF rs2 = 0 THEN emit_move(rd, rs1)
    ELSE IF rs1 = rs2 THEN emit_load_imm(rd, 0)
    ELSE IF rd = rs1 THEN load_reg(RAX, rs2) \o One(<<"sub", X(rd, W64), RAX>>)
    ELSE IF rs1 = 0 THEN InPlace1("neg", rd, rs2)
    ELSE Through(RAX, rd, rs1, One(<<"sub", RAX, X(rs2, W64)>>))

emit_shift(ins, rd, rs1, rs2) ==
    LET count == <<"mov", CL, X(rs2, W8)>>
    IN  IF rs1 = 0 THEN emit_load_imm(rd, 0)
        ELSE IF rs2 = 0 THEN emit_move(rd, rs1)
        ELSE IF rd = rs1 THEN <<count, <<ins, X(rd, W64), CL>>>>
        ELSE Through(RAX, rd, rs1, <<count, <<ins, RAX, CL>>>>)

emit_sll(rd, rs1, rs2) == emit_shift("shl", rd, rs1, rs2)
emit_srl(rd, rs1, rs2) == emit_shift("shr", rd, rs1, rs2)
emit_sra(rd, rs1, rs2) == emit_shift("sar", rd, rs1, rs2)

SetReg(rd, rs1, rs2, cc) ==
    Through(RAX, rd, rs1,
            <<<<"cmp", RAX, X(rs2, W64)>>, <<"setcc", AL, cc>>, <<"movzx", EAX, AL>>>>)

emit_slt(rd, rs1, rs2) ==
    IF rs1 = rs2 THEN emit_load_imm(rd, 0)
    ELSE IF rs1 = 0 THEN SetImm(rd, rs2, 0, "Greater")
    ELSE IF rs2 = 0 THEN InPlace("shr", rd, rs1, I(W64 - 1))
    ELSE SetReg(rd, rs1, rs2, "Less")

emit_sltu(rd, rs1, rs2) ==
    IF rs2 = 0 \/ rs1 = rs2 THEN emit_load_imm(rd, 0)
    ELSE IF rs1 = 0 THEN SetImm(rd, rs2, 0, "NotEqual")
    ELSE SetReg(rd, rs1, rs2, "Below")

emit_xor(rd, rs1, rs2) ==
    IF rs1 = 0 THEN emit_move(rd, rs2)
    ELSE IF rs2 = 0 THEN emit_move(rd, rs1)
    ELSE IF rs1 = rs2 THEN emit_load_imm(rd, 0)
    ELSE Commute("xor", rd, rs1, rs2)

emit_or(rd, rs1, rs2) ==
    IF rs1 = 0 THEN emit_move(rd, rs2)
    ELSE IF rs2 = 0 \/ rs1 = rs2 THEN emit_move(rd, rs1)
    ELSE Commute("or", rd, rs1, rs2)

emit_and(rd, rs1, rs2) ==
    IF rs1 = 0 \/ rs2 = 0 THEN emit_load_imm(rd, 0)
    ELSE IF rs1 = rs2 THEN emit_move(rd, rs1)
    ELSE Commute("and", rd, rs1, rs2)

(* OP-32 *)

emit_addw(rd, rs1, rs2) ==
    IF rs1 = 0 THEN emit_move32(rd, rs2)
    ELSE IF rs2 = 0 THEN emit_move32(rd, rs1)
    ELSE Through(EAX, rd, rs1, One(<<"add", EAX, IF rs1 = rs2 THEN EAX ELSE X(rs2, W32)>>))

emit_subw(rd, rs1, rs2) ==
    IF rs2 = 0 THEN emit_move32(rd, rs1)
    ELSE IF rs1 = rs2 THEN emit_load_imm(rd, 0)
    ELSE IF rs1 = 0 THEN Through(EAX, rd, rs2, One(<<"neg", EAX>>))
    ELSE Through(EAX, rd, rs1, One(<<"sub", EAX, X(rs2, W32)>>))

emit_shift_w(ins, rd, rs1, rs2) ==
    IF rs1 = 0 THEN emit_load_imm(rd, 0)
    ELSE IF rs2 = 0 THEN emit_move32(rd, rs1)
    ELSE Through(EAX, rd, rs1, <<<<"mov", CL, X(rs2, W8)>>, <<ins, EAX, CL>>>>)

emit_sllw(rd, rs1, rs2) == emit_shift_w("shl", rd, rs1, rs2)
emit_srlw(rd, rs1, rs2) == emit_shift_w("shr", rd, rs1, rs2)
emit_sraw(rd, rs1, rs2) == emit_shift_w("sar", rd, rs1, rs2)

(* M-extension *)

emit_mul(rd, rs1, rs2) ==
    IF rs1 = 0 \/ rs2 = 0 THEN emit_load_imm(rd, 0)
    ELSE Through(RAX, rd, rs1, One(<<"imul2", RAX, IF rs1 = rs2 THEN RAX ELSE X(rs2, W64)>>))

emit_mulh(rd, rs1, rs2, unsigned) ==
    LET loc == IF rs1 = rs2 THEN RAX ELSE X(rs2, W64)
    IN  IF rs1 = 0 \/ rs2 = 0 THEN emit_load_imm(rd, 0)
        ELSE load_reg(RAX, rs1) \o <<<<IF unsigned THEN "mul" ELSE "imul1", loc>>,
                                     <<"mov", X(rd, W64), RDX>>>>

\* Multiply as unsigned; if rs1 is negative, take rs2 from the upper half.
emit_mulhsu(rd, rs1, rs2) ==
    IF rs1 = 0 \/ rs2 = 0 THEN emit_load_imm(rd, 0)
    ELSE <<<<"mov", RCX, X(rs1, W64)>>, <<"mov", RSI, X(rs2, W64)>>, <<"mov", RAX, RCX>>,
           <<"mul", RSI>>, <<"sar", RCX, I(W64 - 1)>>, <<"and", RCX, RSI>>,
           <<"sub", RDX, RCX>>, <<"mov", X(rd, W64), RDX>>>>

emit_mulw(rd, rs1, rs2) ==
    IF rs1 = 0 \/ rs2 = 0 THEN emit_load_imm(rd, 0)
    ELSE Through(EAX, rd, rs1, One(<<"imul2", EAX, IF rs1 = rs2 THEN EAX ELSE X(rs2, W32)>>))

emit_div(rd, rs1, rs2, unsigned, rem) ==
    IF rs2 = 0 THEN IF rem THEN emit_move(rd, rs1) ELSE emit_load_imm(rd, -1)
    ELSE load_reg(RAX, rs1)
         \o (IF unsigned THEN <<<<"xor", EDX, EDX>>, <<"div", X(rs2, W64)>>>>
                         ELSE <<<<"cqo">>, <<"idiv", X(rs2, W64)>>>>)
         \o (IF rem THEN One(<<"mov", X(rd, W64), RDX>>) ELSE store_reg(rd, RAX))

emit_divw(rd, rs1, rs2, unsigned, rem) ==
    IF rs2 = 0 THEN IF rem THEN emit_move32(rd, rs1) ELSE emit_load_imm(rd, -1)
    ELSE load_reg(EAX, rs1)
         \o (IF unsigned THEN <<<<"xor", EDX, EDX>>, <<"div", X(rs2, W32)>>>>
                         ELSE <<<<"cdq">>, <<"idiv", X(rs2, W32)>>>>)
         \o (IF rem THEN One(<<"movsx", RAX, EDX>>) \o store_reg(rd, RAX)
                    ELSE store_reg(rd, EAX))

(***************************************************************************)
(* Control flow.  The Context holds the pc of the start of the block; the  *)
(* instruction is cur bytes into it, four bytes long and the last one.     *)
(* "ret" stands for leaving the block, by a chain or a direct jump.        *)
(***************************************************************************)
swap(cc) == CASE cc = "Less" -> "Greater"  [] cc = "GreaterEqual" -> "LessEqual"
              [] cc = "Below" -> "Above"   [] cc = "AboveEqual" -> "BelowEqual"
              [] OTHER -> cc

not(cc) == CASE cc = "Equal" -> "NotEqual"          [] cc = "NotEqual" -> "Equal"
             [] cc = "Less" -> "GreaterEqual"       [] cc = "GreaterEqual" -> "Less"
             [] cc = "Below" -> "AboveEqual"        [] cc = "AboveEqual" -> "Below"
             [] cc = "Greater" -> "LessEqual"       [] cc = "LessEqual" -> "Greater"
             [] cc = "Above" -> "BelowEqual"        [] cc = "BelowEqual" -> "Above"

branch_cc == [Beq |-> "Equal", Bne |-> "NotEqual", Blt |-> "Less", Bge |-> "GreaterEqual",
              Bltu |-> "Below", Bgeu |-> "AboveEqual"]

\* The compare of a branch, with the condition on which it is taken.
branch_no_swap(rs1, rs2, cc) ==
    IF rs1 = 0 /\ rs2 # 0 THEN [code |-> One(<<"cmp", X(rs2, W64), I(0)>>), cc |-> cc]
    ELSE [code |-> <<<<"mov", RDX, X(rs1, W64)>>, <<"cmp", RDX, X(rs2, W64)>>>>, cc |-> cc]

branch_compare(rs1, rs2, cc) ==
    IF rs2 = 0 THEN [code |-> One(<<"cmp", X(rs1, W64), I(0)>>), cc |-> cc]
    ELSE IF rs1 = 0 THEN [code |-> One(<<"cmp", X(rs2, W64), I(0)>>), cc |-> swap(cc)]
    ELSE [code |-> <<<<"mov", RDX, X(rs1, W64)>>, <<"cmp", RDX, X(rs2, W64)>>>>, cc |-> cc]

\* The taken path leaves; the other one is finished by `end'.
emit_branch(i, cur) ==
    LET c == branch_compare(i.rs1, i.rs2, branch_cc[i.op])
    IN  c.code \o <<<<"jcc", not(c.cc), 3>>, <<"add", F("pc"), I(cur + i.imm)>>, <<"ret">>,
                    <<"add", F("pc"), I(cur + 4)>>>>

emit_jalr(i, cur) ==
    load_reg(RAX, i.rs1)
    \o (IF i.imm # 0 THEN One(<<"add", RAX, I(i.imm)>>) ELSE <<>>)
    \o One(<<"and", RAX, I(-2)>>)
    \o (IF i.rd # 0 THEN <<<<"mov", RDX, F("pc")>>, <<"add", RDX, I(cur + 4)>>,
                           <<"mov", X(i.rd, W64), RDX>>>> ELSE <<>>)
    \o <<<<"mov", F("pc"), RAX>>, <<"ret">>>>

emit_jal(i, cur) ==
    LET offset == cur + 4  from_end == i.imm - 4
    IN  (IF i.rd # 0
         THEN <<<<"mov", RAX, F("pc")>>, <<"lea", RDX, RAX, offset>>>> \o store_reg(i.rd, RDX)
              \o <<<<"add", RAX, I(from_end + offset)>>, <<"mov", F("pc"), RAX>>>>
         ELSE One(<<"add", F("pc"), I(from_end + offset)>>))
        \o One(<<"ret">>)

emit_auipc(i, cur) ==
    <<<<"mov", RAX, F("pc")>>, <<"add", RAX, I(i.imm + cur)>>>> \o store_reg(i.rd, RAX)

(***************************************************************************)
(* Memory.  dcache_access sends a misaligned address to helper_misalign,   *)
(* which is the module Misalign's subject, and leaves in RSI where the     *)
(* data is; how it gets there is the module L0's subject, and RSI holds    *)
(* the address here.                                                       *)
(***************************************************************************)
dcache_access(w) == IF w = W8 THEN <<>> ELSE One(<<"align", Bytes(w)>>)

emit_load(rs1, imm, w) == One(<<"mov", RSI, X(rs1, W64)>>)
                            \o (IF imm # 0 THEN One(<<"add", RSI, I(imm)>>) ELSE <<>>)
                            \o dcache_access(w)

LoadWidth == [Lb |-> W8, Lh |-> W16, Lw |-> W32, Ld |-> W64,
              Lbu |-> W8, Lhu |-> W16, Lwu |-> W32]

emit_load_op(i) ==
    emit_load(i.rs1, i.imm, LoadWidth[i.op])
    \o One(CASE i.op = "Lb"  -> <<"movsx", RAX, M(W8)>>
             [] i.op = "Lh"  -> <<"movsx", RAX, M(W16)>>
             [] i.op = "Lw"  -> <<"movsx", RAX, M(W32)>>
             [] i.op = "Ld"  -> <<"mov", RAX, M(W64)>>
             [] i.op = "Lbu" -> <<"movzx", RAX, M(W8)>>
             [] i.op = "Lhu" -> <<"movzx", RAX, M(W16)>>
             [] i.op = "Lwu" -> <<"mov", EAX, M(W32)>>)
    \o store_reg(i.rd, RAX)

emit_store(i, w) ==
    emit_load(i.rs1, i.imm, w)
    \o <<<<"mov", R("D", w), X(i.rs2, w)>>, <<"mov", M(w), R("D", w)>>>>

\* amo_op_w and amo_op_d: one locked instruction on memory.
amo_op(i, body) == load_reg(RSI, i.rs1) \o dcache_access(i.w) \o load_reg(R("A", i.w), i.rs2)
                     \o One(body) \o store_reg(i.rd, R("A", i.w))

\* cmpxchg_w and cmpxchg_d: compute on a copy, and try again if memory changed.
cmpxchg_once(i, body) ==
    LET a == R("A", i.w)  c == R("C", i.w)
    IN  load_reg(RSI, i.rs1) \o dcache_access(i.w) \o load_reg(R("D", i.w), i.rs2)
        \o <<<<"mov", a, M(i.w)>>, <<"mov", c, a>>>> \o body
        \o <<<<"mov", M(i.w), c>>>> \o store_reg(i.rd, a)

cmpxchg(i, body) ==
    LET a == R("A", i.w)  c == R("C", i.w)
    IN  load_reg(RSI, i.rs1) \o dcache_access(i.w) \o load_reg(R("D", i.w), i.rs2)
        \o <<<<"mov", a, M(i.w)>>, <<"mov", c, a>>>> \o body
        \o <<<<"cmpxchg", M(i.w), c>>, <<"jcc", "NotEqual", -(Len(body) + 2)>>>>
        \o store_reg(i.rd, a)

amo_cc == [min |-> "Less", max |-> "Greater", minu |-> "Below", maxu |-> "Above"]

emit_amo(i) ==
    LET c == R("C", i.w)  d == R("D", i.w)  a == R("A", i.w)
    IN  CASE i.f = "swap" -> amo_op(i, <<"xchg", a, M(i.w)>>)
          [] i.f = "add" /\ i.rd # 0 -> amo_op(i, <<"xadd", M(i.w), a>>)
          [] i.f \in {"add", "and", "or", "xor"} /\ i.rd = 0 -> amo_op(i, <<i.f, M(i.w), a>>)
          [] i.f \in {"and", "or", "xor"} /\ i.rd # 0 -> cmpxchg(i, One(<<i.f, c, d>>))
          [] i.f \in DOMAIN amo_cc ->
                 cmpxchg(i, <<<<"cmp", d, c>>, <<"cmovcc", c, d, amo_cc[i.f]>>>>)

emit_lr(i) ==
    load_reg(RSI, i.rs1) \o One(<<"mov", RBX, RSI>>) \o dcache_access(i.w)
    \o One(IF i.w = W32 THEN <<"movsx", RAX, M(W32)>> ELSE <<"mov", RAX, M(W64)>>)
    \o store_reg(i.rd, RAX)
    \o <<<<"mov", F("lr_addr"), RBX>>, <<"mov", F("lr_value"), RAX>>>>

\* The reserved address is compared before the alignment is tested, the value
\* the reservation holds by the exchange itself.
emit_sc(i) ==
    LET body == dcache_access(i.w) \o One(<<"mov", R("A", i.w), F("lr_value")>>) \o load_reg(R("D", i.w), i.rs2)
                  \o One(<<"cmpxchg", M(i.w), R("D", i.w)>>)
    IN  load_reg(RSI, i.rs1)
        \o <<<<"cmp", F("lr_addr"), RSI>>, <<"jcc", "NotEqual", Len(body) + 1>>>> \o body
        \o <<<<"setcc", CL, "NotEqual">>, <<"movsx", ECX, CL>>>> \o store_reg(i.rd, RCX)

emit_compute(i) ==
    LET op == i.op  rd == i.rd  rs1 == i.rs1  rs2 == i.rs2  imm == i.imm
    IN  CASE op = "Addi"  -> emit_addi(rd, rs1, imm)
          [] op = "Slli"  -> emit_slli(rd, rs1, imm)
          [] op = "Srli"  -> emit_srli(rd, rs1, imm)
          [] op = "Srai"  -> emit_srai(rd, rs1, imm)
          [] op = "Slti"  -> emit_slti(rd, rs1, imm)
          [] op = "Sltiu" -> emit_sltiu(rd, rs1, imm)
          [] op = "Xori"  -> emit_xori(rd, rs1, imm)
          [] op = "Ori"   -> emit_ori(rd, rs1, imm)
          [] op = "Andi"  -> emit_andi(rd, rs1, imm)
          [] op = "Addiw" -> emit_addiw(rd, rs1, imm)
          [] op = "Slliw" -> emit_slliw(rd, rs1, imm)
          [] op = "Srliw" -> emit_srliw(rd, rs1, imm)
          [] op = "Sraiw" -> emit_sraiw(rd, rs1, imm)
          [] op = "Add"   -> emit_add(rd, rs1, rs2)
          [] op = "Sub"   -> emit_sub(rd, rs1, rs2)
          [] op = "Sll"   -> emit_sll(rd, rs1, rs2)
          [] op = "Srl"   -> emit_srl(rd, rs1, rs2)
          [] op = "Sra"   -> emit_sra(rd, rs1, rs2)
          [] op = "Slt"   -> emit_slt(rd, rs1, rs2)
          [] op = "Sltu"  -> emit_sltu(rd, rs1, rs2)
          [] op = "Xor"   -> emit_xor(rd, rs1, rs2)
          [] op = "Or"    -> emit_or(rd, rs1, rs2)
          [] op = "And"   -> emit_and(rd, rs1, rs2)
          [] op = "Lui"   -> emit_load_imm(rd, imm)
          [] op = "Addw"  -> emit_addw(rd, rs1, rs2)
          [] op = "Subw"  -> emit_subw(rd, rs1, rs2)
          [] op = "Sllw"  -> emit_sllw(rd, rs1, rs2)
          [] op = "Srlw"  -> emit_srlw(rd, rs1, rs2)
          [] op = "Sraw"  -> emit_sraw(rd, rs1, rs2)
          [] op = "Mul"   -> emit_mul(rd, rs1, rs2)
          [] op \in {"Mulh", "Mulhu"} -> emit_mulh(rd, rs1, rs2, op = "Mulhu")
          [] op = "Mulhsu" -> emit_mulhsu(rd, rs1, rs2)
          [] op = "Mulw"  -> emit_mulw(rd, rs1, rs2)
          [] op \in {"Div", "Divu", "Rem", "Remu"} ->
                 emit_div(rd, rs1, rs2, op \in {"Divu", "Remu"}, op \in {"Rem", "Remu"})
          [] op \in {"Divw", "Divuw", "Remw", "Remuw"} ->
                 emit_divw(rd, rs1, rs2, op \in {"Divuw", "Remuw"}, op \in {"Remw", "Remuw"})

StoreWidth == [Sb |-> W8, Sh |-> W16, Sw |-> W32, Sd |-> W64]

emit_op(i, cur) ==
    CASE i.op \in DOMAIN branch_cc -> emit_branch(i, cur)
      [] i.op = "Jal"   -> emit_jal(i, cur)
      [] i.op = "Jalr"  -> emit_jalr(i, cur)
      [] i.op = "Auipc" -> emit_auipc(i, cur)
      [] i.op \in {"Lb", "Lh", "Lw", "Ld", "Lbu", "Lhu", "Lwu"} -> emit_load_op(i)
      [] i.op \in DOMAIN StoreWidth -> emit_store(i, StoreWidth[i.op])
      [] i.op = "Amo"   -> emit_amo(i)
      [] i.op = "Lr"    -> emit_lr(i)
      [] i.op = "Sc"    -> emit_sc(i)
      [] OTHER          -> IF i.rd = 0 THEN <<>> ELSE emit_compute(i)
=============================================================================
