-------------------------------- MODULE Csr ---------------------------------
(***************************************************************************)
(* Control and status registers and the floating-point state of a hart     *)
(* (read_csr, write_csr and the CSR, F and D instructions of step in       *)
(* src/emu/interp.rs, the code emitted for them by src/emu/dbt.rs).        *)
(*                                                                         *)
(* A word is the set of the numbers of its bits that are one.  What an F   *)
(* or D instruction computes is left open: any value, any flags.           *)
(***************************************************************************)
EXTENDS Integers, TLC

CONSTANTS Words,    \* operands of CSR instructions
          Results   \* contents of the floating-point registers

\* Words have 64 bits, and a floating-point register holds something.
ASSUME WordAssumption == Words \subseteq SUBSET (0..63) /\ Results # {}

VARIABLES ctx,    \* the registers
          did,    \* what else the last instruction did: alert, flush, wake, stop
          focus,  \* the registers that instructions access in this behaviour
          by,     \* history: what made the last step, see By
          clears, \* history: the last instruction was one that clears SSIP
          saved   \* history: floating-point state when FS was last written, if not Dirty

csrVars == <<ctx, did, focus, by, clears, saved>>

-----------------------------------------------------------------------------
(* Registers and their numbers.                                            *)

Number ==
    [Fflags |-> \h001, Frm |-> \h002, Fcsr |-> \h003, Cycle |-> \hC00, Time |-> \hC01,
     Instret |-> \hC02, Sstatus |-> \h100, Sie |-> \h104, Stvec |-> \h105,
     Scounteren |-> \h106, Sscratch |-> \h140, Sepc |-> \h141, Scause |-> \h142,
     Stval |-> \h143, Sip |-> \h144, Satp |-> \h180, Mvendorid |-> \hF11,
     Mhartid |-> \hF14, Mstatus |-> \h300, Misa |-> \h301, Medeleg |-> \h302,
     Mideleg |-> \h303, Mie |-> \h304, Mtvec |-> \h305, Mcounteren |-> \h306,
     Mscratch |-> \h340, Mepc |-> \h341, Mcause |-> \h342, Mtval |-> \h343,
     Mip |-> \h344, Mcycle |-> \hB00, Mtime |-> \hB01, Minstret |-> \hB02,
     SwitchModel |-> \h800, Stats |-> \h801, Unknown |-> \h7C0]
CsrNames == DOMAIN Number

min_prv_level(csr) == (Number[csr] \div 256) % 4
readonly(csr) == (Number[csr] \div 1024) % 4 = 3

\* Registers that hold what was written, see Legalise.
Supervisor == {"Stvec", "Scounteren", "Sscratch", "Sepc", "Scause", "Stval", "Satp"}
Machine == {"Medeleg", "Mtvec", "Mcounteren", "Mscratch", "Mepc", "Mcause", "Mtval"}

FS == {13, 14}
SstatusMask == {1, 5, 8, 18, 19} \cup FS
MstatusMask == SstatusMask \cup {3, 7, 11, 12, 17, 20, 21, 22}
SLevel == {1, 5, 9}
Interrupts == {1, 3, 5, 7, 9, 11}
Exceptions == {0, 2, 3, 4, 6, 8, 9, 12, 13, 15}

ToNumber(bits) == LET bit(k) == IF k \in bits THEN 2^k ELSE 0 IN bit(0) + bit(1) + bit(2)
ToBits(n) == {k \in 0..2 : (n \div 2^k) % 2 = 1}
AtMost4(n) == IF n > 4 THEN 4 ELSE n

-----------------------------------------------------------------------------
(* An outcome: whether the instruction completes (else it raises illegal   *)
(* instruction), the registers, the value read, what else happened.        *)

Outcome(ok, c, v, events) == [ok |-> ok, c |-> c, v |-> v, did |-> events]
Fail(c) == Outcome(FALSE, c, {}, {})
Value(c, v) == Outcome(TRUE, c, v, {})
Wrote(c) == Outcome(TRUE, c, {}, {})

\* Mutant: FS is checked, not set.
test_fs(c) == IF c.mstatus \cap FS = {} THEN Fail(c) ELSE Wrote(c)

test_and_set_fs(c) ==
    IF c.mstatus \cap FS = {} THEN Fail(c)
    ELSE Wrote([c EXCEPT !.mstatus = @ \cup FS])

\* The rest of a handler, after test_and_set_fs()?.
WithFs(c, Then(_)) ==
    LET t == test_and_set_fs(c) IN IF t.ok THEN Then(t.c) ELSE t

test_counter(c, id) ==
    /\ c.prv < 3 => id \in c.reg["Mcounteren"]
    /\ c.prv < 1 => id \in c.reg["Scounteren"]

interrupt_pending(c) ==
    LET ready == c.mip \cap c.mie
    IN (IF c.prv # 3 \/ 3 \in c.mstatus THEN ready \ c.mideleg ELSE {})
       \cup (IF c.prv = 0 \/ (c.prv = 1 /\ 1 \in c.mstatus) THEN ready \cap c.mideleg ELSE {})

Alert(c) == IF interrupt_pending(c) # {} THEN {"alert"} ELSE {}

\* Mutant: the hart is woken, not alerted.
recheck_interrupt_wakes(c) == IF c.mip \cap c.mie = {} THEN {} ELSE {"wake"}

recheck_interrupt(c) ==
    IF c.mip \cap c.mie = {} THEN {}
    ELSE IF interrupt_pending(c) # {} THEN {"alert"} ELSE {"wake"}

\* SD and UXL of mstatus and sstatus.
Status(bits) == bits \cup {33} \cup IF FS \subseteq bits THEN {63} ELSE {}

\* The values of counters are not modelled.
Counter(c, id) == IF test_counter(c, id) THEN Value(c, {}) ELSE Fail(c)

read_csr(c, csr) ==
    LET fflags(t) == Value(t, t.fflags)
        frm(t) == Value(t, ToBits(t.frm))
        fcsr(t) == Value(t, t.fflags \cup {k + 5 : k \in ToBits(t.frm)})
    IN CASE csr = "Fflags" -> WithFs(c, fflags)
         [] csr = "Frm" -> WithFs(c, frm)
         [] csr = "Fcsr" -> WithFs(c, fcsr)
         [] csr = "Cycle" -> Counter(c, 0)
         [] csr = "Time" -> Counter(c, 1)
         [] csr = "Instret" -> Counter(c, 2)
         [] csr = "Sstatus" -> Value(c, Status(c.mstatus \cap SstatusMask))
         [] csr = "Mstatus" -> Value(c, Status(c.mstatus))
         [] csr = "Sie" -> Value(c, c.mie \cap c.mideleg)
         [] csr = "Sip" -> Value(c, c.mip \cap c.mideleg)
         [] csr \in Supervisor \cup Machine -> Value(c, c.reg[csr])
         [] csr = "Mideleg" -> Value(c, c.mideleg)
         [] csr = "Mie" -> Value(c, c.mie)
         [] csr = "Mip" -> Value(c, c.mip)
         [] csr \in {"Mvendorid", "Mhartid", "Mcycle", "Mtime", "Minstret"} -> Value(c, {})
         [] csr \in {"SwitchModel", "Stats", "Unknown"} -> Fail(c)

\* What a write of v leaves in a register that held old.
Legalise(csr, old, v) ==
    CASE csr \in {"Stvec", "Mtvec"} -> IF 1 \in v THEN old ELSE v
      [] csr \in {"Scounteren", "Mcounteren"} -> v \cap 0..2
      [] csr \in {"Sepc", "Mepc"} -> v \ {0}
      [] csr = "Medeleg" -> v \cap Exceptions
      [] csr = "Satp" -> CASE v \cap 60..63 = {} -> {}
                           [] v \cap 60..63 = {63} -> v
                           [] OTHER -> old
      [] OTHER -> v

Replace(old, mask, v) == (old \ mask) \cup (v \cap mask)

\* Sstatus and Mstatus; the caches are flushed if a bit of flushes changes.
write_status(c, v, mask, flushes) ==
    LET new == [c EXCEPT !.mstatus = Replace(@, mask, v)]
    IN Outcome(TRUE, new, {},
               Alert(new) \cup IF new.mstatus \cap flushes = c.mstatus \cap flushes THEN {}
                               ELSE {"flush"})

\* SharedContext::assert and deassert; assert alerts if a bit was not yet set.
assert(c, bits) == Outcome(TRUE, [c EXCEPT !.mip = @ \cup bits], {},
                           IF bits \subseteq c.mip THEN {} ELSE {"alert"})
deassert(c, bits) == Wrote([c EXCEPT !.mip = @ \ bits])

\* Mutant: SSIP is written though it is not delegated.
write_sip_always(c, v) == IF 1 \in v THEN assert(c, {1}) ELSE deassert(c, {1})

write_sip(c, v) ==
    CASE 1 \notin c.mideleg -> Wrote(c)
      [] 1 \in c.mideleg /\ 1 \in v -> assert(c, {1})
      [] 1 \in c.mideleg /\ 1 \notin v -> deassert(c, {1})

\* Mutant: all of mie is written.
write_sie_all(c, v) == [c EXCEPT !.mie = v \cap Interrupts]

write_sie(c, v) == [c EXCEPT !.mie = Replace(@, c.mideleg, v)]

\* fflags, frm and both of them in fcsr; a rounding mode that does not exist is
\* kept as the last one.
write_fp(c, csr, v) ==
    LET flags(t) == [t EXCEPT !.fflags = v \cap 0..4]
        mode(t, low) == [t EXCEPT !.frm = AtMost4(ToNumber({k - low : k \in v}))]
        write(t) == Wrote(CASE csr = "Fflags" -> flags(t)
                            [] csr = "Frm" -> mode(t, 0)
                            [] csr = "Fcsr" -> mode(flags(t), 5))
    IN WithFs(c, write)

write_mip(c, v) == assert(deassert(c, SLevel \ v).c, SLevel \cap v)

write_reg(c, csr, v) ==
    Outcome(TRUE, [c EXCEPT !.reg[csr] = Legalise(csr, @, v)], {},
            IF csr = "Satp" THEN {"flush"} ELSE {})

write_mideleg(c, v) ==
    LET new == [c EXCEPT !.mideleg = v \cap SLevel] IN Outcome(TRUE, new, {}, Alert(new))

\* The registers after a write to sie or mie.
Rechecked(new) == Outcome(TRUE, new, {}, recheck_interrupt(new))

write_csr(c, csr, v) ==
    CASE csr \in {"Fflags", "Frm", "Fcsr"} -> write_fp(c, csr, v)
      [] csr = "Sstatus" -> write_status(c, v, SstatusMask, {18, 19})
      [] csr = "Mstatus" -> write_status(c, v, MstatusMask, {11, 12, 17, 18, 19})
      [] csr = "Sie" -> Rechecked(write_sie(c, v))
      [] csr = "Mie" -> Rechecked([c EXCEPT !.mie = v \cap Interrupts])
      [] csr = "Sip" -> write_sip(c, v)
      [] csr = "Mip" -> write_mip(c, v)
      [] csr \in Supervisor \cup Machine -> write_reg(c, csr, v)
      [] csr = "Mideleg" -> write_mideleg(c, v)
      [] csr \in {"Misa", "Minstret"} -> Wrote(c)
      [] csr \in {"SwitchModel", "Stats"} -> Outcome(TRUE, c, {}, {"stop"})
      [] csr \in {"Mcycle", "Mtime", "Unknown"} -> Fail(c)

-----------------------------------------------------------------------------
(* CSR instructions: op is "rw", "rs" or "rc", rd whether there is a       *)
(* destination, src whether the source is another than x0 or 0, v its      *)
(* value.                                                                  *)

\* A write that follows a read, with ? between them.
Then(r, csr, v) == IF r.ok THEN write_csr(r.c, csr, v) ELSE r

step_csr(c, i) ==
    CASE i.op = "rw" ->
           Then(IF i.rd THEN read_csr(c, i.csr) ELSE Value(c, {}), i.csr, i.v)
      [] i.op # "rw" ->
           LET r == read_csr(c, i.csr)
           IN IF ~i.src THEN r
              ELSE Then(r, i.csr, IF i.op = "rs" THEN r.v \cup i.v ELSE r.v \ i.v)

\* emit_op: calls of read_csr or write_csr alone where one of them is enough;
\* registers after which the block ends, and all others, by way of step.
emit_csr(c, i) ==
    CASE i.csr \in {"Instret", "Satp", "SwitchModel", "Stats"} -> step_csr(c, i)
      [] i.csr \notin {"Instret", "Satp", "SwitchModel", "Stats"} ->
           CASE i.op = "rw" /\ ~i.rd -> write_csr(c, i.csr, i.v)
             [] i.op # "rw" /\ ~i.src -> read_csr(c, i.csr)
             [] OTHER -> step_csr(c, i)

\* The decoder refuses to write a read-only register; reading misa panics.
Legal(i) ==
    /\ readonly(i.csr) => i.op # "rw" /\ ~i.src
    /\ i.csr = "Misa" => i.op = "rw" /\ ~i.rd

CsrOp == {i \in [op : {"rw", "rs", "rc"}, rd : BOOLEAN, src : BOOLEAN, csr : focus, v : Words] :
            i.src \/ i.v = {}}

(***************************************************************************)
(* An instruction for a level that the hart has is "allowed".  For one of  *)
(* a higher level translate_code and icache_cross_miss emit an illegal     *)
(* instruction, unless translate_code fuses it with the branch before it:  *)
(* the second of a pair goes to compile_cond_op as it was decoded, and     *)
(* neither emit_op nor read_csr, write_csr or step looks at its level.     *)
(* Such an instruction is "fused".  What is not an instruction of the hart *)
(* is "outside".                                                           *)
(***************************************************************************)
By(level) == IF ctx.prv >= level THEN "allowed" ELSE "fused"

FpState(c) == <<c.f, c.frm, c.fflags>>

\* Steps other than CSR instructions.
Other == [op |-> "other", csr |-> "", v |-> {}]
Sbi(nr) == [op |-> "sbi", csr |-> "", v |-> {nr}]

Apply(i, who, outcome) ==
    /\ ctx' = outcome.c
    /\ by' = who
    /\ did' = outcome.did
    /\ clears' = \/ i.csr \in {"Sip", "Mip"} /\ i.op = "rw" /\ 1 \notin i.v
                 \/ i.csr \in {"Sip", "Mip"} /\ i.op = "rc" /\ 1 \in i.v
                 \/ i = Sbi(3)
    /\ saved' = CASE FS \subseteq ctx'.mstatus -> <<>>
                  [] OTHER -> IF i.csr \in {"Sstatus", "Mstatus"} THEN FpState(ctx') ELSE saved
    /\ UNCHANGED focus

\* step is only ever called by emitted code.
EmittedCsr == \E i \in CsrOp : Legal(i) /\ Apply(i, By(min_prv_level(i.csr)), emit_csr(ctx, i))

-----------------------------------------------------------------------------
(* F and D instructions: whether they round, what they write, whether they *)
(* can raise flags.                                                        *)

Kind(accesses, rounds, to, raises) ==
    [accesses |-> accesses, rounds |-> rounds, to |-> to, raises |-> raises]
Load == Kind(TRUE, FALSE, "f", FALSE)
FpStore == Kind(TRUE, FALSE, "memory", FALSE)
Arithmetic == Kind(FALSE, TRUE, "f", TRUE)
ToInteger == Kind(FALSE, TRUE, "x", TRUE)
Exact == Kind(FALSE, FALSE, "f", TRUE)
SignOrMove == Kind(FALSE, FALSE, "f", FALSE)
Compare == Kind(FALSE, FALSE, "x", TRUE)
Inspect == Kind(FALSE, FALSE, "x", FALSE)

F_extension ==
    [Flw |-> Load, Fsw |-> FpStore, FaddS |-> Arithmetic, FsubS |-> Arithmetic,
     FmulS |-> Arithmetic, FdivS |-> Arithmetic, FsqrtS |-> Arithmetic,
     FsgnjS |-> SignOrMove, FsgnjnS |-> SignOrMove, FsgnjxS |-> SignOrMove,
     FminS |-> Exact, FmaxS |-> Exact, FcvtWS |-> ToInteger, FcvtWuS |-> ToInteger,
     FcvtLS |-> ToInteger, FcvtLuS |-> ToInteger, FmvXW |-> Inspect, FclassS |-> Inspect,
     FeqS |-> Inspect, FltS |-> Compare, FleS |-> Compare, FcvtSW |-> Arithmetic,
     FcvtSWu |-> Arithmetic, FcvtSL |-> Arithmetic, FcvtSLu |-> Arithmetic,
     FmvWX |-> SignOrMove, FmaddS |-> Arithmetic, FmsubS |-> Arithmetic,
     FnmsubS |-> Arithmetic, FnmaddS |-> Arithmetic]

D_extension ==
    [Fld |-> Load, Fsd |-> FpStore, FaddD |-> Arithmetic, FsubD |-> Arithmetic,
     FmulD |-> Arithmetic, FdivD |-> Arithmetic, FsqrtD |-> Arithmetic,
     FsgnjD |-> SignOrMove, FsgnjnD |-> SignOrMove, FsgnjxD |-> SignOrMove,
     FminD |-> Exact, FmaxD |-> Exact, FcvtSD |-> Arithmetic, FcvtDS |-> Exact,
     FcvtWD |-> ToInteger, FcvtWuD |-> ToInteger, FcvtLD |-> ToInteger,
     FcvtLuD |-> ToInteger, FmvXD |-> Inspect, FclassD |-> Inspect, FeqD |-> Inspect,
     FltD |-> Compare, FleD |-> Compare, FcvtDW |-> Arithmetic, FcvtDWu |-> Arithmetic,
     FcvtDL |-> Arithmetic, FcvtDLu |-> Arithmetic, FmvDX |-> SignOrMove,
     FmaddD |-> Arithmetic, FmsubD |-> Arithmetic, FnmsubD |-> Arithmetic,
     FnmaddD |-> Arithmetic]

Kinds == {(F_extension @@ D_extension)[n] : n \in DOMAIN (F_extension @@ D_extension)}

\* set_rm: 7 stands for frm; the instruction's mode reaches softfp by shared.rm.
set_rm(c, rm) == [c EXCEPT !.rm = IF rm = 7 THEN c.frm ELSE rm]

\* set_exception_flags
set_exception_flags(c, flags) == [c EXCEPT !.fflags = @ \cup flags]

\* The instruction after test_and_set_fs()?; an access that faults ends it.
Compute(c, k, rm, value, flags, faults) ==
    LET rounded == IF k.rounds THEN set_rm(c, rm) ELSE c
        flagged == IF k.raises THEN set_exception_flags(rounded, flags) ELSE rounded
    IN CASE faults -> Fail(c)
         [] ~faults /\ k.to = "f" -> Wrote([flagged EXCEPT !.f = value])
         [] ~faults /\ k.to # "f" -> Wrote(flagged)

FpOp ==
    /\ focus \cap {"Fflags", "Frm", "Fcsr"} # {}
    /\ \E k \in Kinds :
         \E rm \in IF k.rounds THEN {4, 7} ELSE {7},
            value \in IF k.to = "f" THEN Results ELSE {ctx.f},
            flags \in IF k.raises THEN {{}, {4}} ELSE {{}},
            faults \in IF k.accesses THEN BOOLEAN ELSE {FALSE} :
           LET compute(c) == Compute(c, k, rm, value, flags, faults)
           IN Apply(Other, By(0), WithFs(ctx, compute))

-----------------------------------------------------------------------------
(* Returns to a lower level, the part of them that concerns CSRs.          *)

Return(level, new, down) ==
    Apply(Other, By(level), Outcome(TRUE, new, {}, Alert(new) \cup IF down THEN {"flush"} ELSE {}))

\* Mret; with MPP = 2 it would panic.
CsrMret ==
    LET MPP == ToNumber({b - 11 : b \in ctx.mstatus \cap {11, 12}})
        MPIE == IF 7 \in ctx.mstatus THEN {3} ELSE {}
    IN /\ MPP # 2
       /\ Return(3, [ctx EXCEPT !.prv = MPP, !.mstatus = ((@ \ {3, 11, 12}) \cup MPIE) \cup {7}],
                 MPP # 3)

CsrSret ==
    LET SPIE == IF 5 \in ctx.mstatus THEN {1} ELSE {}
        SPP == IF 8 \in ctx.mstatus THEN 1 ELSE 0
    IN Return(1, [ctx EXCEPT !.prv = SPP, !.mstatus = ((@ \ {1, 8}) \cup SPIE) \cup {5}],
              SPP = 0)

-----------------------------------------------------------------------------
(* Calls of the supervisor binary interface: the timer and the console are *)
(* devices, modelled elsewhere.  mine: this hart is in the mask.           *)

sbi_call(c, nr, mine) ==
    CASE nr = 3 -> deassert(c, {1})
      [] nr = 4 -> IF mine THEN assert(c, {1}) ELSE Wrote(c)
      [] nr \in 5..7 -> Outcome(TRUE, c, {}, IF mine THEN {"flush"} ELSE {})
      [] nr = 8 -> Outcome(TRUE, c, {}, {"stop"})
      [] nr \notin 3..8 -> Wrote(c)

\* Ecall, unless it is one that traps or a system call of a user program.
Ecall ==
    /\ focus \cap {"Sip", "Mip", "Mideleg"} # {}
    /\ ctx.prv = 3 \/ (ctx.prv = 1 /\ ctx.boot = 1)
    /\ \E nr \in 0..9, mine \in BOOLEAN : Apply(Sbi(nr), "outside", sbi_call(ctx, nr, mine))

\* Another hart or a device asserts or deasserts an interrupt, between two
\* instructions of this hart (lockstep mode).
External ==
    /\ focus \cap {"Sip", "Mip", "Mideleg"} # {}
    /\ \E outcome \in {assert(ctx, {1}), assert(ctx, {7}), deassert(ctx, {7})} :
         Apply(Other, "outside", outcome)

\* A register alone, and the registers that interact.
FocusSets ==
    {{a} : a \in CsrNames}
    \cup {{"Sstatus", "Frm"}, {"Sstatus", "Fcsr"}, {"Mstatus", "Fflags"}}
    \cup {{a, b} : a, b \in {"Mideleg", "Mie", "Mip", "Sip"}}
    \cup {{"Mstatus", b} : b \in {"Mie", "Mip", "Sip"}}
    \cup {{a, b} : a, b \in {"Sstatus", "Sie", "Sip"}}
    \cup {{a, b} : a \in {"Mcounteren", "Scounteren"}, b \in {"Cycle", "Time", "Instret"}}

\* The three ways to start: a user program, a kernel, or a firmware.
CsrInit ==
    /\ focus \in FocusSets
    /\ \E prv \in {0, 1, 3} :
         ctx = [prv |-> prv, boot |-> prv, mstatus |-> FS, mie |-> {}, mip |-> {},
                mideleg |-> IF prv = 3 THEN {} ELSE SLevel,
                reg |-> [r \in Supervisor \cup Machine |->
                           CASE prv # 3 /\ r = "Medeleg" -> Exceptions
                             [] prv # 3 /\ r = "Mcounteren" -> {0, 1, 2}
                             [] OTHER -> {}],
                frm |-> 0, fflags |-> {}, f |-> CHOOSE v \in Results : TRUE, rm |-> 0]
    /\ did = {} /\ by = "outside" /\ clears = FALSE
    /\ saved = <<>>

CsrNext == EmittedCsr \/ FpOp \/ CsrMret \/ CsrSret \/ Ecall \/ External

CsrSpec == CsrInit /\ [][CsrNext]_csrVars

-----------------------------------------------------------------------------
(* Properties: two of the state and three of each step.                    *)

\* The registers hold only values that write_csr lets through, and frm is one
\* of the five rounding modes, which softfp indexes by.
CsrTypeOK ==
    /\ ctx.prv \in {0, 1, 3} /\ ctx.frm \in 0..4 /\ ctx.rm \in 0..4
    /\ ctx.fflags \subseteq 0..4 /\ ctx.f \in Results
    /\ ctx.mstatus \subseteq MstatusMask /\ ctx.mie \subseteq Interrupts
    /\ ctx.mip \subseteq Interrupts /\ ctx.mideleg \subseteq SLevel
    /\ did \subseteq {"alert", "flush", "wake", "stop"}
    /\ by \in {"allowed", "fused", "outside"}

\* What machine mode owns: nothing below it may change these.  Of mip, a
\* supervisor that SSIP is delegated to may change that bit.
MachineState(c) ==
    <<c.mstatus \ SstatusMask, c.mie \ c.mideleg, c.mip \ ({1} \cap c.mideleg), c.mideleg,
      [r \in Machine |-> c.reg[r]]>>

\* What supervisor mode owns besides.
SupervisorState(c) == <<c.mstatus \ FS, c.mie, c.mip, [r \in Supervisor |-> c.reg[r]]>>

SupervisorConfined ==
    /\ ctx.prv < 3 => MachineState(ctx') = MachineState(ctx)
    /\ ctx.prv < 1 => SupervisorState(ctx') = SupervisorState(ctx)

\* A CSR instruction, an F or D instruction or a return that is of a level the
\* hart has leaves alone what belongs to the levels above: in supervisor mode
\* what belongs to machine mode, also where a supervisor register is a window on
\* a machine register (sstatus, sie, sip), in user mode what belongs to either.
Confined == [][by' = "allowed" => SupervisorConfined]_csrVars

\* "We must not emit code for protected ops" (interp.rs:2225): whatever
\* instruction is executed, it is confined.
ProtectedNotEmitted == [][by' # "outside" => SupervisorConfined]_csrVars

\* Unless FS says Dirty, the floating-point registers, frm and fflags are what
\* they were when FS was last written: a kernel that saves them only if Dirty
\* loses nothing.  Instructions become Dirty by way of test_and_set_fs.
FsTracks == FS \subseteq ctx.mstatus \/ FpState(ctx) = saved

\* A software interrupt of the supervisor that is pending stays so until an
\* instruction clears it: one that writes zero to the bit, or asks to clear it.
\* An instruction that sets or clears other bits of sip or mip does not lose it.
SsipKept == 1 \in ctx.mip /\ 1 \notin ctx'.mip => clears'
SsipStays == [][SsipKept]_csrVars

\* An instruction or an assertion from outside that makes an interrupt one to be
\* taken now alerts the hart, whichever of mip, mie, mideleg, mstatus and the
\* level it changes: the code of a block looks at the alarm only.
Noticed ==
    interrupt_pending(ctx) = {} /\ interrupt_pending(ctx') # {} => "alert" \in did'
InterruptsNoticed == [][ctx' # ctx => Noticed]_csrVars

=============================================================================
