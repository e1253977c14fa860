------------------------------- MODULE Block -------------------------------
(***************************************************************************)
(* How a basic block is put together and run (translate_code in            *)
(* src/src/emu/interp.rs, the block structure of src/src/emu/dbt.rs, the   *)
(* pipeline models of src/src/sim/pipeline).  Inside a block the guest's   *)
(* pc and instret are not kept: the Context is adjusted when the block     *)
(* ends, and a trap half way carries the difference in EBX.  Cycles are    *)
(* counted while translating, and slept for before the next side effect.   *)
(*                                                                         *)
(* Addresses count half words.  An instruction is [k, len, imm, dep]: its  *)
(* kind, its length (1 compressed, 2 not), the distance it jumps and       *)
(* whether it uses the register that the one before it loads.  The kinds:  *)
(* "alu"; "mul"; "mem" (a load, a store, an atomic, or an instruction left *)
(* to riscv_step: it has a side effect and may trap); "sys" (may change    *)
(* control flow in riscv_step); "br", "jal" and "jalr".                    *)
(*                                                                         *)
(* The emitted code is a sequence of tuples.  "at", "exec" and "owe" are   *)
(* no code: they mark where an instruction begins, where it has been       *)
(* fetched and where the pipeline model charges cycles for it.             *)
(***************************************************************************)
EXTENDS Integers, Sequences

CONSTANTS LineSize, PageSize, Pages,   \* in half words; a line divides a page
          Models, Kinds

ASSUME SizeAssumption ==
    /\ LineSize \in Nat \ {0} /\ PageSize \in Nat \ {0} /\ Pages \in Nat
    /\ PageSize % LineSize = 0

ASSUME ModelAssumption == Models \subseteq {"atomic", "simple", "inorder"}

ASSUME KindAssumption == Kinds \subseteq {"alu", "mul", "mem", "sys", "br", "jal", "jalr"}

VARIABLES model,      \* pipeline model
          pc, instret,          \* of the Context
          dbt,        \* the compiler, with the code of the block
          ip,         \* where in the code the hart is (0: it is being translated)
          cur, inst,  \* the instruction being run: its address, and what it is
          nxt, begun,           \* its successor, and how many were begun
          slept, owed,          \* cycles slept for, and charged by the model
          line,       \* the cache line last fetched from
          edge        \* a jal that ends a line was followed without a fetch

vars == <<model, pc, instret, dbt, ip, cur, inst, nxt, begun, slept, owed, line, edge>>

\* Distances of branches and jumps.
Imms == (-4..4) \ {0}

Addr == 0..(Pages * PageSize - 1)
LineOf(a) == a \div LineSize
PageOf(a) == a \div PageSize
same_page(a, b) == PageOf(a) = PageOf(b)
same_cache_line(a, b) == LineOf(a) = LineOf(b)

-----------------------------------------------------------------------------
(* The compiler: [pc_start, pc_cur, pc_end, instret, cycles, stall, code].  *)

emit(c, i) == [c EXCEPT !.code = Append(@, i)]

insert_cycle_count(c, n) ==
    IF n = 0 THEN c ELSE emit([c EXCEPT !.cycles = @ + n], <<"owe", n>>)

(* Pipeline models. *)

can_fuse_cond_op == model # "inorder"

begin_block(c, a) == insert_cycle_count(c, IF model = "inorder" /\ a % 2 # 0 THEN 1 ELSE 0)

before_instruction(c, i) ==
    [insert_cycle_count(c, IF model = "inorder" /\ c.stall /\ i.dep THEN 1 ELSE 0)
        EXCEPT !.stall = FALSE]

\* A backward branch is predicted taken.
in_order_cost(i) == CASE i.k = "br"   -> IF i.imm >= 0 THEN 1 ELSE 4
                      [] i.k = "mul"  -> 11
                      [] i.k = "jalr" -> 4
                      [] i.k = "sys"  -> 5
                      [] OTHER        -> 1

after_instruction(c, i) ==
    CASE model = "atomic"  -> c
      [] model = "simple"  -> insert_cycle_count(c, 1)
      [] model = "inorder" -> [insert_cycle_count(c, in_order_cost(i))
                                  EXCEPT !.stall = i.k \in {"mem", "mul"}]

after_taken_branch(c, i) ==
    insert_cycle_count(c, CASE model = "atomic"  -> 0
                            [] model = "simple"  -> 1
                            [] model = "inorder" -> IF i.imm < 0 THEN 1 ELSE 4)

(* Emission. *)

before_side_effect(c) ==
    IF c.cycles = 0 THEN c ELSE emit([c EXCEPT !.cycles = 0], <<"sleep", c.cycles>>)

\* An access that may trap carries the EBX that would make pc and instret right.
emit_icache_access(c, off) == emit(before_side_effect(c), <<"fetch", off, c.pc_cur, c.instret>>)

emit_step_call(c) == emit(before_side_effect(c), <<"effect", c.pc_cur, c.instret>>)

emit_interrupt_check(c) == emit(before_side_effect(c), <<"check">>)

emit_chain_tail(c) == emit(c, <<"tail">>)

emit_direct_jump(c) == emit(c, <<"direct">>)

pre_adjust_instret(c) == emit(c, <<"instret", c.instret + 1>>)

pre_adjust_pc_instret(c, i) == pre_adjust_instret(emit(c, <<"pc", c.pc_cur + i.len>>))

post_adjust_pc_instret(c) == emit(emit(c, <<"pc", c.pc_cur>>), <<"instret", c.instret>>)

\* The taken path leaves the block; the translator's counters go back to what
\* they were for the path that is not taken.
emit_branch(c, i) ==
    LET off    == c.pc_end - i.len + i.imm
        target == c.pc_start + off
        t1 == emit_interrupt_check(after_taken_branch(pre_adjust_instret(
                  [c EXCEPT !.code = <<<<"pc", off>>>>]), i))
        t2 == [t1 EXCEPT !.pc_cur = 0, !.instret = 0]
        t3 == IF ~same_page(c.pc_start, target) THEN emit_chain_tail(t2)
              ELSE emit_direct_jump(
                      IF same_cache_line(c.pc_start + c.pc_end - 1, target) THEN t2
                      ELSE emit_icache_access(t2, 0))
    IN  [c EXCEPT !.code = @ \o <<<<"jcc_not", Len(t3.code)>>>> \o t3.code]

emit_jalr(c, i) ==
    emit_chain_tail(emit_interrupt_check(after_instruction(
        emit(pre_adjust_instret(c), <<"pc_reg">>), i)))

emit_jal(c, i) ==
    LET end    == c.pc_start + c.pc_end
        target == end + i.imm - i.len
        c1 == emit_interrupt_check(after_instruction(
                  emit(pre_adjust_instret(c), <<"pc", c.pc_cur + i.imm>>), i))
    IN  IF same_cache_line(end, target) THEN emit_direct_jump(c1) ELSE emit_chain_tail(c1)

emit_sys(c, i) ==
    LET c1 == emit_step_call([pre_adjust_pc_instret(c, i) EXCEPT !.pc_cur = -i.len, !.instret = -1])
        c2 == after_instruction([c1 EXCEPT !.pc_cur = c.pc_cur, !.instret = c.instret], i)
    IN  emit_chain_tail(emit_interrupt_check(c2))

emit_op(c, i) == CASE i.k \in {"alu", "mul"} -> c
                   [] i.k = "mem"  -> emit_step_call(c)
                   [] i.k = "sys"  -> emit_sys(c, i)
                   [] i.k = "br"   -> emit_branch(c, i)
                   [] i.k = "jal"  -> emit_jal(c, i)
                   [] i.k = "jalr" -> emit_jalr(c, i)

At(c, i) == emit(c, <<"at", c.pc_start + c.pc_cur, i>>)
Fetched(c) == emit(c, <<"exec">>)

compile_op(c, i) ==
    LET c0 == [At(c, i) EXCEPT !.pc_end = c.pc_cur + i.len]
        c1 == IF c.pc_cur = 0 \/ same_cache_line(c.pc_start + c.pc_cur - 1,
                                                 c.pc_start + c0.pc_end - 1)
              THEN c0 ELSE emit_icache_access(c0, c0.pc_end - 1)
        c2 == after_instruction(emit_op(before_instruction(Fetched(c1), i), i), i)
    IN  [c2 EXCEPT !.pc_cur = c0.pc_end, !.instret = c.instret + 1]

\* Mutant: the branch is retired with the block, whether or not it is taken.
cond_op_lazy(c, b, i) ==
    LET c0 == [At(c, b) EXCEPT !.pc_end = c.pc_cur + b.len + i.len]
        c1 == IF same_cache_line(c.pc_start + c.pc_cur - 1, c.pc_start + c0.pc_end - 1)
              THEN c0 ELSE emit_icache_access(c0, c0.pc_end - 1)
        c2 == before_side_effect(after_instruction(before_instruction(Fetched(c1), b), b))
        t  == At([c2 EXCEPT !.code = <<>>, !.pc_cur = @ + b.len, !.instret = @ + 1], i)
        t2 == before_side_effect(after_instruction(emit_op(before_instruction(Fetched(t), i), i), i))
    IN  [t2 EXCEPT !.code = c2.code \o <<<<"jcc", Len(t2.code)>>>> \o t2.code,
                   !.pc_cur = c0.pc_end, !.instret = c.instret + 2]

\* Mutant: the cycles of the branch are left for later.
cond_op_unpaid(c, b, i) ==
    LET c0 == [At(c, b) EXCEPT !.pc_end = c.pc_cur + b.len + i.len]
        c2 == after_instruction(before_instruction(Fetched(c0), b), b)
        t  == At(emit([c2 EXCEPT !.code = <<>>, !.pc_cur = @ + b.len], <<"instret", 1>>), i)
        t2 == before_side_effect(after_instruction(emit_op(before_instruction(Fetched(t), i), i), i))
    IN  [t2 EXCEPT !.code = c2.code \o <<<<"jcc", Len(t2.code)>>>> \o t2.code,
                   !.pc_cur = c0.pc_end, !.instret = c.instret + 1]

\* A branch over the one instruction that follows it, as a conditional one.
\* The branch is retired at once, in the Context, when it is not taken.
compile_cond_op(c, b, i) ==
    LET c0 == [At(c, b) EXCEPT !.pc_end = c.pc_cur + b.len + i.len]
        c1 == IF same_cache_line(c.pc_start + c.pc_cur - 1, c.pc_start + c0.pc_end - 1)
              THEN c0 ELSE emit_icache_access(c0, c0.pc_end - 1)
        c2 == before_side_effect(after_instruction(before_instruction(Fetched(c1), b), b))
        t  == At(emit([c2 EXCEPT !.code = <<>>, !.pc_cur = @ + b.len], <<"instret", 1>>), i)
        t2 == before_side_effect(after_instruction(emit_op(before_instruction(Fetched(t), i), i), i))
    IN  [t2 EXCEPT !.code = c2.code \o <<<<"jcc", Len(t2.code)>>>> \o t2.code,
                   !.pc_cur = c0.pc_end, !.instret = c.instret + 1]

begin(a) == begin_block([pc_start |-> a, pc_cur |-> 0, pc_end |-> 0, instret |-> 0,
                         cycles |-> 0, stall |-> FALSE, code |-> <<>>], a)

\* Mutant: the end of a page is taken for the end of any other instruction.
end_linked(c) == emit_direct_jump(emit_interrupt_check(post_adjust_pc_instret(c)))

end(c) ==
    LET e  == c.pc_start + c.pc_cur
        c1 == emit_interrupt_check(post_adjust_pc_instret(c))
    IN  IF same_cache_line(e - 1, e) THEN emit_direct_jump(c1) ELSE emit_chain_tail(c1)

\* The last instruction lies across two pages.  What icache_cross_miss emits
\* for it starts after the pc was moved past it, with a compiler of its own.
end_cross(c, i) ==
    LET c0 == pre_adjust_pc_instret(At(c, i), i)
        c1 == emit_icache_access([c0 EXCEPT !.pc_cur = -2, !.instret = -1], -1)
        e  == c.pc_start + c.pc_cur + i.len
        d0 == begin_block([c1 EXCEPT !.pc_start = e, !.pc_end = 0, !.stall = FALSE,
                                     !.cycles = 0], e - 1)
        d1 == emit_op(before_instruction(Fetched(d0), i), i)
    IN  IF i.k \in {"sys", "jal", "jalr"} THEN d1
        ELSE emit_chain_tail(emit_interrupt_check(after_instruction(d1, i)))

(* Which instructions make up a block. *)

Leaving == {"sys", "jal", "jalr"}

AtPageEnd(a) == a % PageSize = 0
Crosses(a, i) == i.len = 2 /\ AtPageEnd(a + 1)
Fuses(a, b, i) == /\ can_fuse_cond_op
                  /\ b.k = "br" /\ b.imm = b.len + i.len
                  /\ ~AtPageEnd(a + b.len) /\ ~Crosses(a + b.len, i)

-----------------------------------------------------------------------------
(* The guest's code, one block at a time: any instructions may follow.      *)

Lens(k) == IF k \in {"mul", "sys"} THEN {2} ELSE {1, 2}

\* Control stays in memory.
Insns(a) ==
    {i \in UNION {[k : {k}, len : Lens(k), imm : IF k \in {"br", "jal"} THEN Imms ELSE {0},
                   dep : IF model = "inorder" /\ k = "alu" THEN BOOLEAN ELSE {FALSE}] : k \in Kinds} :
        /\ a + i.imm \in Addr
        /\ a + i.len \in Addr \cup IF i.k \in {"jal", "jalr"} THEN {Pages * PageSize} ELSE {}}

Successors(a, i) == CASE i.k = "br"  -> {a + i.len, a + i.imm}
                      [] i.k = "jal" -> {a + i.imm}
                      [] i.k \in {"jalr", "sys"} -> Addr
                      [] OTHER -> {a + i.len}

-----------------------------------------------------------------------------
Init == /\ model \in Models
        /\ pc \in Addr
        /\ line = LineOf(pc) /\ edge = FALSE
        /\ dbt = begin(pc) /\ ip = 0
        /\ cur = 0 /\ inst = 0 /\ nxt = pc /\ begun = 0 /\ instret = 0
        /\ slept = 0 /\ owed = 0

(* translate_code, one round of its loop at a time; i is what read_insn     *)
(* finds at Here.                                                           *)

Here == dbt.pc_start + dbt.pc_cur

Compiled(c) == dbt' = c /\ ip' = 1
More(c) == dbt' = c /\ ip' = 0

Cross(i) == Crosses(Here, i) /\ Compiled(end_cross(dbt, i))

FuseCond(i) ==
    \E j \in Insns(Here + i.len) :
        LET c == compile_cond_op(dbt, i, j)
        IN  /\ ~Crosses(Here, i) /\ Fuses(Here, i, j)
            /\ IF AtPageEnd(Here + i.len + j.len) THEN Compiled(end(c)) ELSE More(c)

CompileOp(i) ==
    LET c == compile_op(dbt, i)
    IN  /\ ~Crosses(Here, i)
        /\ IF i.k \in Leaving THEN Compiled(c)
           ELSE IF i.k = "br" \/ AtPageEnd(Here + i.len) THEN Compiled(end(c))
           ELSE More(c)

Translate == /\ ip = 0
             /\ \E i \in Insns(Here) : Cross(i) \/ FuseCond(i) \/ CompileOp(i)
             /\ UNCHANGED <<model, pc, instret, cur, inst, nxt, begun, slept, owed, line, edge>>

(* The code runs. *)

code == dbt.code
Running == ip \in 1..Len(code)
Op == code[ip][1]

\* On to the block at a; the counters restart, so that they stay small.
EnterBlock(a) == /\ dbt' = begin(a) /\ ip' = 0 /\ cur' = 0 /\ inst' = 0
                 /\ instret' = 0 /\ begun' = 0 /\ slept' = 0 /\ owed' = 0

\* Between blocks, with the line of the next one fetched (find_block, or the
\* guard at the speculative entry).
Leave(a) == /\ pc' = a /\ nxt' = a /\ line' = LineOf(a) /\ edge' = FALSE
            /\ EnterBlock(a)
            /\ UNCHANGED model

Advance(n) == ip' = ip + 1 + n

Mark == /\ Running /\ Op \in {"at", "exec", "owe"}
        /\ IF Op = "at"
           THEN /\ cur' = code[ip][2] /\ inst' = code[ip][3] /\ begun' = begun + 1
                /\ nxt' \in Successors(code[ip][2], code[ip][3])
           ELSE UNCHANGED <<cur, inst, begun, nxt>>
        /\ owed' = IF Op = "owe" THEN owed + code[ip][2] ELSE owed
        /\ Advance(0)
        /\ UNCHANGED <<model, pc, instret, dbt, slept, line, edge>>

Adjust == /\ Running /\ Op \in {"pc", "pc_reg", "instret", "sleep"}
          /\ pc' = CASE Op = "pc" -> pc + code[ip][2] [] Op = "pc_reg" -> nxt [] OTHER -> pc
          /\ instret' = IF Op = "instret" THEN instret + code[ip][2] ELSE instret
          /\ slept' = IF Op = "sleep" THEN slept + code[ip][2] ELSE slept
          /\ Advance(0)
          /\ UNCHANGED <<model, dbt, cur, inst, nxt, begun, owed, line, edge>>

Taken == nxt # cur + inst.len

\* jcc_not skips the taken path of a branch, jcc the instruction fused to it.
Jump == /\ Running /\ Op \in {"jcc", "jcc_not"}
        /\ Advance(IF Taken <=> Op = "jcc" THEN code[ip][2] ELSE 0)
        /\ UNCHANGED <<model, pc, instret, dbt, cur, inst, nxt, begun, slept, owed, line, edge>>

Fetch == /\ Running /\ Op = "fetch"
         /\ line' = LineOf(pc + code[ip][2]) /\ edge' = FALSE
         /\ Advance(0)
         /\ UNCHANGED <<model, pc, instret, dbt, cur, inst, nxt, begun, slept, owed>>

\* Mret and Sret move the pc themselves.
Effect == /\ Running /\ Op = "effect"
          /\ pc' = IF inst.k = "sys" /\ Taken THEN nxt ELSE pc
          /\ Advance(0)
          /\ UNCHANGED <<model, instret, dbt, cur, inst, nxt, begun, slept, owed, line, edge>>

NoInterrupt == /\ Running /\ Op = "check" /\ Advance(0)
               /\ UNCHANGED <<model, pc, instret, dbt, cur, inst, nxt, begun, slept, owed, line, edge>>

\* helper_trap adds EBX to pc and instret, then the handler runs; so it does
\* after check_interrupt.
Trap == /\ Running /\ Op \in {"effect", "fetch", "check"}
        /\ \E a \in Addr : Leave(a)

Chain == /\ Running /\ Op = "tail" /\ Leave(pc)

\* The jump was patched with the address of the next block.
Direct == /\ Running /\ Op = "direct"
          /\ edge' = (edge \/ (inst.k = "jal" /\ (cur + inst.len) % LineSize = 0))
          /\ EnterBlock(pc)
          /\ UNCHANGED <<model, pc, nxt, line>>

Next == \/ Translate \/ Mark \/ Adjust \/ Jump \/ Fetch \/ Effect
        \/ NoInterrupt \/ Trap \/ Chain \/ Direct

Spec == Init /\ [][Next]_vars

-----------------------------------------------------------------------------
(* Wherever the block may be left, pc and instret are those of a machine    *)
(* that runs one instruction at a time: at a trap, once helper_trap has     *)
(* added EBX, they name the instruction that traps (or the target that a    *)
(* taken branch cannot fetch) and count those before it; at an interrupt    *)
(* check, a chain tail or a direct jump they name the next instruction.     *)
(* Control stays in the code of the block, and the instructions it runs are *)
(* those of that machine.                                                   *)
PreciseState ==
    /\ ip # 0 => Running
    /\ Running =>
       /\ Op = "at" => code[ip][2] = nxt
       /\ Op = "effect" => /\ pc + code[ip][2] = cur
                           /\ instret + code[ip][3] = begun - 1
       /\ Op = "fetch"  => \/ /\ pc + code[ip][3] = cur
                              /\ instret + code[ip][4] = begun - 1
                           \/ /\ pc + code[ip][3] = nxt /\ Taken
                              /\ instret + code[ip][4] = begun
       /\ Op \in {"check", "tail", "direct"} => pc = nxt /\ instret = begun

(* Every cycle the pipeline model has charged on the way taken was slept    *)
(* for before anything another hart could see, and before the block ends    *)
(* (emit_chain_tail asserts the latter of the translation).                 *)
CyclesPaid == Running /\ Op \in {"effect", "fetch", "check", "tail", "direct"} => slept = owed

(* No instruction runs from a page that was not looked up since the hart    *)
(* came from another page, so that a changed mapping is noticed; a jal that *)
(* ends its line is the exception (EntryFetched).                           *)
PageFetched ==
    Running /\ Op = "exec" => PageOf(line * LineSize) = PageOf(cur + inst.len - 1) \/ edge

(* The comment in compile_op: the line of the first instruction of a block  *)
(* has been accessed however the block was entered.                         *)
EntryFetched == Running /\ ip = 1 => line = LineOf(pc)
=============================================================================
