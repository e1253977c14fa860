---------------------------- MODULE BlockProofs ----------------------------
(***************************************************************************)
(* The promises of translated blocks, for any page size, any lines, either *)
(* model of memory, and blocks of any instructions and any length: a trap  *)
(* sees the state of the instruction it is of, every cycle is slept for,   *)
(* what runs comes from a page that was looked up, and a block stays in    *)
(* the page it begins in.                                                  *)
(*                                                                         *)
(* The invariant has a half for each half of a block's life.  While it is  *)
(* translated, the code so far has consistent views and the last one says  *)
(* what the compiler believes; while it runs, the machine agrees with the  *)
(* view of the item it is at.                                              *)
(***************************************************************************)
EXTENDS EmitProofs

-----------------------------------------------------------------------------
(* The invariant *)

\* Between blocks: nothing is pending, and what was emitted so far leads to
\* the next instruction of the page.
Translating ==
  ip = 0 => /\ nxt = pc /\ begun = instret /\ owed = slept /\ Seen(PageOf(pc))
            /\ dbt.pc_start = pc /\ PageOf(Here) = PageOf(pc)
            /\ \E v : Gen(dbt, Entry(pc), v) /\ Ready(dbt, v)

\* In a block: the code has views, and the machine is what the one of its
\* position says; the end of the code is not reached.
Executing ==
  ip # 0 => \E A, v : /\ code \in Seq(Host) /\ Flow(code, A) /\ A[Len(code) + 1].mode = "dead"
                      /\ ip \in 1 .. Len(code) /\ v = A[ip] /\ Match(v)

Inv == Types /\ Translating /\ Executing

LEMMA InsnsType ==
  ASSUME NEW a, NEW i \in Insns(a)
  PROVE  i \in Insn
<1>1. PICK k \in Kinds : i \in [k : {k}, len : Lens(k), imm : IF k \in {"br", "jal"} THEN Imms ELSE {0},
                   dep : IF model = "inorder" /\ k = "alu" THEN BOOLEAN ELSE {FALSE}]
  BY Zenon DEF Insns
<1>2. Lens(k) \subseteq {1, 2}
  BY Zenon DEF Lens
<1>3. (IF k \in {"br", "jal"} THEN Imms ELSE {0}) \subseteq Int
  BY DEF Imms
<1>4. (IF model = "inorder" /\ k = "alu" THEN BOOLEAN ELSE {FALSE}) \subseteq BOOLEAN
  BY Zenon
<1>5. {k} \subseteq {"alu", "mul", "mem", "sys", "br", "jal", "jalr"}
  BY KindAssumption, Zenon
<1> QED BY <1>1, <1>2, <1>3, <1>4, <1>5, Zenon DEF Insn

\* The block at a is entered with nothing pending.
LEMMA Entered ==
  ASSUME NEW a \in Int, EnterBlock(a), pc' = a, nxt' = a, model' \in Models, line' \in Int,
         Seen(PageOf(a))'
  PROVE  Inv'
<1>1. /\ dbt' = begin(a) /\ ip' = 0 /\ instret' = 0 /\ begun' = 0 /\ slept' = 0 /\ owed' = 0
  BY Zenon DEF EnterBlock
<1>2. dbt'.pc_start = a /\ dbt'.pc_cur = 0 /\ \E w : Gen(dbt', Entry(a), w) /\ Ready(dbt', w)
  BY <1>1, BeginFlows, Zenon
<1>3. PageOf(dbt'.pc_start + dbt'.pc_cur) = PageOf(a)
  <2>1. dbt'.pc_start + dbt'.pc_cur = a
    BY <1>2
  <2> QED BY <2>1, Zenon
<1>4. Types'
  BY <1>1 DEF Types
<1>5. Translating'
  BY <1>1, <1>2, <1>3 DEF Translating, Here, Seen
<1>6. Executing'
  BY <1>1, Zenon DEF Executing
<1> QED BY <1>4, <1>5, <1>6, Zenon DEF Inv

LEMMA Left ==
  ASSUME NEW a \in Int, Types, Leave(a)
  PROVE  Inv'
<1>1. /\ EnterBlock(a) /\ pc' = a /\ nxt' = a /\ model' \in Models /\ line' = LineOf(a)
  BY Zenon DEF Leave, Types
<1>2. LineOf(a) \in Int
  BY SizeAssumption, DivBounds DEF LineOf
<1>3. Seen(PageOf(a))'
  BY <1>1, LineInPage, Zenon DEF Seen
<1> QED BY <1>1, <1>2, <1>3, Entered

\* The machine goes on to position n of the code.
LEMMA Onward ==
  ASSUME NEW A, NEW n, NEW v, Types', code \in Seq(Host), Flow(code, A),
         A[Len(code) + 1].mode = "dead", dbt' = dbt, ip' = n, n \in 1 .. Len(code) + 1,
         Sub(v, A[n]), Match(v)'
  PROVE  Inv'
<1> DEFINE w == A[n]
<1>1. Fits(v, pc, nxt, cur, inst, begun - instret, owed - slept)' /\ Seen(v.page)'
  BY Zenon DEF Match
<1>2. Fits(w, pc', nxt', cur', inst', begun' - instret', owed' - slept') /\ w.page = v.page
  BY <1>1, FitsSub
<1>3. Match(w)'
  <2> HIDE DEF w
  <2> QED BY <1>1, <1>2, Zenon DEF Match, Seen
<1>4. n # Len(code) + 1
  BY <1>2, Zenon DEF Fits
<1>5. Len(code) \in Nat
  BY CodeFacts
<1>6. n \in 1 .. Len(code) /\ n # 0
  BY <1>4, <1>5
<1> HIDE DEF w
<1>7. code' = code
  BY DEF code
<1>8. Executing'
  BY <1>3, <1>6, <1>7 DEF Executing, w
<1>9. Translating'
  BY <1>6, Zenon DEF Translating
<1> QED BY <1>8, <1>9, Zenon DEF Inv

\* The last round of the loop in translate_code.
LEMMA Finished ==
  ASSUME Inv, ip = 0, NEW c, NEW w, Gen(c, Entry(pc), w), w.mode = "dead", Compiled(c),
         UNCHANGED <<model, pc, instret, cur, inst, nxt, begun, slept, owed, line, edge>>
  PROVE  Inv'
<1>1. /\ nxt = pc /\ begun = instret /\ owed = slept /\ Seen(PageOf(pc)) /\ Types
  BY Zenon DEF Inv, Translating
<1>2. PICK A : Flow(c.code, A) /\ Sub(Entry(pc), A[1]) /\ A[Len(c.code) + 1] = w
  BY Zenon DEF Gen, Flows
<1>3. c.code \in Seq(Host) /\ Len(c.code) \in Nat
  BY CompilerFields, CodeFacts, Zenon DEF Gen
<1>4. Fits(Entry(pc), pc, nxt, cur, inst, begun - instret, owed - slept)
  <2>1. begun - instret = 0 /\ owed - slept = 0 /\ pc \in Int
    BY <1>1 DEF Types
  <2> QED BY <1>1, <2>1, EntryFields DEF Fits
<1>5. Fits(A[1], pc, nxt, cur, inst, begun - instret, owed - slept) /\ A[1].page = PageOf(pc)
  BY <1>1, <1>2, <1>4, FitsSub, EntryFields DEF Types
<1> DEFINE v == A[1]
<1>6. Match(v)'
  <2> HIDE DEF v
  <2>1. Match(v)
    BY <1>1, <1>5, Zenon DEF Match, v
  <2> QED BY <2>1, Zenon DEF Match, Seen
<1>7. 1 # Len(c.code) + 1
  BY <1>2, <1>5, Zenon DEF Fits
<1>8. 1 \in 1 .. Len(c.code)
  BY <1>3, <1>7
<1>9. code' = c.code /\ ip' = 1
  BY Zenon DEF Compiled, code
<1> HIDE DEF v
<1>10. Executing'
  BY <1>2, <1>3, <1>6, <1>8, <1>9, Zenon DEF Executing, v
<1>11. Translating' /\ Types'
  BY <1>1, <1>9 DEF Translating, Types
<1> QED BY <1>10, <1>11, Zenon DEF Inv

\* Another round of the loop.
LEMMA Continued ==
  ASSUME Inv, ip = 0, NEW c, NEW w, Gen(c, Entry(pc), w), Ready(c, w), More(c),
         c.pc_start = pc, PageOf(c.pc_start + c.pc_cur) = PageOf(pc),
         UNCHANGED <<model, pc, instret, cur, inst, nxt, begun, slept, owed, line, edge>>
  PROVE  Inv'
<1>1. /\ nxt = pc /\ begun = instret /\ owed = slept /\ Seen(PageOf(pc)) /\ Types
  BY Zenon DEF Inv, Translating
<1>2. dbt' = c /\ ip' = 0
  BY Zenon DEF More
<1>3. Seen(PageOf(pc))'
  BY <1>1, Zenon DEF Seen
<1>4. Translating'
  BY <1>1, <1>2, <1>3, Zenon DEF Translating, Here
<1>5. Executing' /\ Types'
  BY <1>1, <1>2 DEF Executing, Types
<1> QED BY <1>4, <1>5, Zenon DEF Inv

\* An instruction that does not lie across two pages ends in the page it
\* begins in.
LEMMA EndsInPage ==
  ASSUME NEW a \in Int, NEW i \in Insn, ~Crosses(a, i)
  PROVE  PageOf(a + i.len - 1) = PageOf(a)
<1>1. CASE i.len = 1
  <2>1. a + i.len - 1 = a
    BY <1>1
  <2> QED BY <2>1, Zenon
<1>2. CASE i.len = 2
  <2>1. PageOf((a + 1) - 1) = PageOf(a + 1)
    BY <1>2, PageStep DEF Crosses
  <2>2. a + i.len - 1 = a + 1 /\ (a + 1) - 1 = a
    BY <1>2
  <2> QED BY <2>1, <2>2, Zenon
<1> QED BY <1>1, <1>2 DEF Insn

LEMMA CompileOpStep ==
  ASSUME Inv, ip = 0, NEW i \in Insn, CompileOp(i),
         UNCHANGED <<model, pc, instret, cur, inst, nxt, begun, slept, owed, line, edge>>
  PROVE  Inv'
<1> DEFINE c == compile_op(dbt, i)
<1>1. PICK v : Gen(dbt, Entry(pc), v) /\ Ready(dbt, v)
  BY Zenon DEF Inv, Translating
<1>2. dbt.pc_start = pc /\ PageOf(Here) = PageOf(pc) /\ model \in Models
  BY Zenon DEF Inv, Translating, Types
<1>3. dbt.pc_start \in Int /\ dbt.pc_cur \in Int /\ i.len \in Int /\ Here \in Int /\ Here + i.len \in Int
  BY <1>1, CompilerFields DEF Gen, Insn, Here
<1>4. PageOf(Here + i.len - 1) = PageOf(pc)
  BY <1>2, <1>3, EndsInPage, Zenon DEF CompileOp
<1>5. PageOf(dbt.pc_start + dbt.pc_cur + i.len - 1) = PageOf(dbt.pc_start)
  BY <1>2, <1>4, Zenon DEF Here
<1>6. /\ c.pc_start = dbt.pc_start /\ c.pc_cur = dbt.pc_cur + i.len
      /\ \E w : /\ Gen(c, Entry(pc), w)
                /\ IF i.k \in Leaving THEN w.mode = "dead" ELSE Ready(c, w)
  BY <1>1, <1>2, <1>5, CompileOpFlows
<1>7. IF i.k \in Leaving THEN Compiled(c)
      ELSE IF i.k = "br" \/ AtPageEnd(Here + i.len) THEN Compiled(end(c))
      ELSE More(c)
  BY Zenon DEF CompileOp
<1> HIDE DEF c
<1>8. PICK w : /\ Gen(c, Entry(pc), w)
               /\ IF i.k \in Leaving THEN w.mode = "dead" ELSE Ready(c, w)
  BY <1>6, Zenon
<1>9. c.pc_start + c.pc_cur = Here + i.len
  BY <1>3, <1>6 DEF Here
<1>10. CASE i.k \in Leaving
  BY <1>7, <1>8, <1>10, Finished
<1>11. CASE i.k \notin Leaving /\ (i.k = "br" \/ AtPageEnd(Here + i.len))
  <2>1. PageOf(c.pc_start + c.pc_cur - 1) = PageOf(c.pc_start)
    BY <1>2, <1>3, <1>4, <1>6, <1>9
  <2>2. PICK x : Gen(end(c), Entry(pc), x) /\ x.mode = "dead"
    BY <1>8, <1>11, <2>1, EndFlows
  <2>3. Compiled(end(c))
    BY <1>7, <1>11, Zenon
  <2> QED BY <2>2, <2>3, Finished
<1>12. CASE i.k \notin Leaving /\ ~AtPageEnd(Here + i.len) /\ More(c)
  <2>1. PageOf(c.pc_start + c.pc_cur) = PageOf(pc)
    BY <1>3, <1>4, <1>9, <1>12, PageStep
  <2> QED BY <1>2, <1>6, <1>8, <1>12, <2>1, Continued
<1> QED BY <1>7, <1>10, <1>11, <1>12, Zenon

LEMMA FuseCondStep ==
  ASSUME Inv, ip = 0, NEW b \in Insn, FuseCond(b),
         UNCHANGED <<model, pc, instret, cur, inst, nxt, begun, slept, owed, line, edge>>
  PROVE  Inv'
<1>0. PICK i \in Insns(Here + b.len) :
        /\ ~Crosses(Here, b) /\ Fuses(Here, b, i)
        /\ IF AtPageEnd(Here + b.len + i.len) THEN Compiled(end(compile_cond_op(dbt, b, i)))
           ELSE More(compile_cond_op(dbt, b, i))
  BY Zenon DEF FuseCond
<1> DEFINE c == compile_cond_op(dbt, b, i)
<1>a. i \in Insn
  BY InsnsType, Zenon
<1>1. PICK v : Gen(dbt, Entry(pc), v) /\ Ready(dbt, v)
  BY Zenon DEF Inv, Translating
<1>2. dbt.pc_start = pc /\ PageOf(Here) = PageOf(pc) /\ model \in Models
  BY Zenon DEF Inv, Translating, Types
<1>3. /\ dbt.pc_start \in Int /\ dbt.pc_cur \in Int /\ b.len \in Int /\ i.len \in Int
      /\ Here \in Int /\ Here + b.len \in Int /\ Here + b.len + i.len \in Int
  BY <1>1, <1>a, CompilerFields DEF Gen, Insn, Here
<1>4. PageOf(Here + b.len - 1) = PageOf(pc)
  BY <1>0, <1>2, <1>3, EndsInPage, Zenon
<1>5. PageOf(Here + b.len) = PageOf(pc)
  BY <1>0, <1>3, <1>4, PageStep DEF Fuses
<1>6. PageOf(Here + b.len + i.len - 1) = PageOf(pc)
  BY <1>0, <1>3, <1>5, <1>a, EndsInPage, Zenon DEF Fuses
<1>7. /\ PageOf(dbt.pc_start + dbt.pc_cur + b.len - 1) = PageOf(dbt.pc_start)
      /\ PageOf(dbt.pc_start + dbt.pc_cur + b.len + i.len - 1) = PageOf(dbt.pc_start)
  BY <1>2, <1>4, <1>6, Zenon DEF Here
<1>8. b.k = "br" /\ b.imm = b.len + i.len
  BY <1>0, Zenon DEF Fuses
<1>9. /\ c.pc_start = dbt.pc_start /\ c.pc_cur = dbt.pc_cur + b.len + i.len
      /\ \E w : Gen(c, Entry(pc), w) /\ Ready(c, w)
  BY <1>1, <1>2, <1>7, <1>8, <1>a, CompileCondOpFlows, Zenon
<1>10. IF AtPageEnd(Here + b.len + i.len) THEN Compiled(end(c)) ELSE More(c)
  BY <1>0, Zenon
<1> HIDE DEF c
<1>11. PICK w : Gen(c, Entry(pc), w) /\ Ready(c, w)
  BY <1>9, Zenon
<1>12. c.pc_start + c.pc_cur = Here + b.len + i.len
  BY <1>3, <1>9 DEF Here
<1>13. CASE AtPageEnd(Here + b.len + i.len)
  <2>1. PageOf(c.pc_start + c.pc_cur - 1) = PageOf(c.pc_start)
    BY <1>2, <1>3, <1>6, <1>9, <1>12
  <2>2. PICK x : Gen(end(c), Entry(pc), x) /\ x.mode = "dead"
    BY <1>11, <2>1, EndFlows, Zenon
  <2> QED BY <1>10, <1>13, <2>2, Finished, Zenon
<1>14. CASE ~AtPageEnd(Here + b.len + i.len)
  <2>1. PageOf(c.pc_start + c.pc_cur) = PageOf(pc)
    BY <1>3, <1>6, <1>12, <1>14, PageStep
  <2> QED BY <1>2, <1>9, <1>10, <1>11, <1>14, <2>1, Continued
<1> QED BY <1>13, <1>14, Zenon

LEMMA TranslateStep ==
  ASSUME Inv, Translate
  PROVE  Inv'
<1>1. /\ ip = 0
      /\ UNCHANGED <<model, pc, instret, cur, inst, nxt, begun, slept, owed, line, edge>>
  BY Zenon DEF Translate
<1>2. PICK i \in Insns(Here) : Cross(i) \/ FuseCond(i) \/ CompileOp(i)
  BY Zenon DEF Translate
<1>3. i \in Insn
  BY InsnsType, Zenon
<1>4. CASE Cross(i)
  <2>1. PICK v : Gen(dbt, Entry(pc), v) /\ Ready(dbt, v)
    BY <1>1, Zenon DEF Inv, Translating
  <2>2. i.len = 2 /\ Compiled(end_cross(dbt, i))
    BY <1>4, Zenon DEF Cross, Crosses
  <2>3. PICK w : Gen(end_cross(dbt, i), Entry(pc), w) /\ w.mode = "dead"
    BY <1>3, <2>1, <2>2, EndCrossFlows, Zenon DEF Inv, Types
  <2> QED BY <1>1, <2>2, <2>3, Finished, Zenon
<1>5. CASE FuseCond(i)
  BY <1>1, <1>3, <1>5, FuseCondStep, Zenon
<1>6. CASE CompileOp(i)
  BY <1>1, <1>3, <1>6, CompileOpStep, Zenon
<1> QED BY <1>2, <1>4, <1>5, <1>6, Zenon

\* Where the machine is in the code, and what its instruction requires.
LEMMA AtWork ==
  ASSUME Inv, Running
  PROVE  \E A, v : /\ code \in Seq(Host) /\ Flow(code, A) /\ A[Len(code) + 1].mode = "dead"
                   /\ v = A[ip] /\ Match(v) /\ v \in View /\ code[ip] \in Host
                   /\ FlowAt(code, A, ip)
                   /\ ip + 1 \in 1 .. Len(code) + 1
<1>1. ip # 0
  BY DEF Running
<1>2. PICK A, v : /\ code \in Seq(Host) /\ Flow(code, A) /\ A[Len(code) + 1].mode = "dead"
                  /\ ip \in 1 .. Len(code) /\ v = A[ip] /\ Match(v)
  BY <1>1, Zenon DEF Inv, Executing
<1>3. Len(code) \in Nat
  BY <1>2, CodeFacts, Zenon
<1>4. ip + 1 \in 1 .. Len(code) + 1 /\ ip \in 1 .. Len(code) + 1
  BY <1>2, <1>3
<1>5. code[ip] \in Host
  BY <1>2, CodeFacts, Zenon
<1>6. v \in View /\ FlowAt(code, A, ip)
  BY <1>2, <1>4, Zenon DEF Flow
<1> QED BY <1>2, <1>4, <1>5, <1>6, Zenon

\* A step that is no jump, and stays in the block.
LEMMA RunStep ==
  ASSUME Inv, Running, Mark \/ Adjust \/ Fetch \/ Effect \/ NoInterrupt
  PROVE  Inv'
<1>1. PICK A, v : /\ code \in Seq(Host) /\ Flow(code, A) /\ A[Len(code) + 1].mode = "dead"
                  /\ v = A[ip] /\ Match(v) /\ v \in View /\ code[ip] \in Host
                  /\ FlowAt(code, A, ip)
                  /\ ip + 1 \in 1 .. Len(code) + 1
  BY AtWork, Zenon
<1>t. PICK t : t = code[ip]
  BY Zenon
<1>2. t[1] \notin Jumps
  BY <1>t, Zenon DEF Mark, Adjust, Fetch, Effect, NoInterrupt, Op, Jumps
<1>3. Pre(t, v) /\ Sub(Post(t, v), A[ip + 1])
  BY <1>1, <1>2, <1>t, Zenon DEF FlowAt
<1>4. Types
  BY Zenon DEF Inv
<1>5. Match(Post(t, v))' /\ ip' = ip + 1
  <2>1. t = code[ip] /\ t \in Host
    BY <1>1, <1>t, Zenon
  <2>2. CASE Mark
    BY <1>1, <1>3, <1>4, <2>1, <2>2, StepMark
  <2>3. CASE Adjust
    BY <1>1, <1>3, <1>4, <2>1, <2>3, StepAdjust
  <2>4. CASE Fetch
    BY <1>1, <1>3, <1>4, <2>1, <2>4, StepFetch
  <2>5. CASE Effect
    BY <1>1, <1>3, <1>4, <2>1, <2>5, StepEffect
  <2>6. CASE NoInterrupt
    BY <1>1, <2>1, <2>6, StepCheck
  <2> QED BY <2>2, <2>3, <2>4, <2>5, <2>6
<1>6. dbt' = dbt
  BY Zenon DEF Mark, Adjust, Fetch, Effect, NoInterrupt
<1>7. Types'
  <2>1. t = code[ip] /\ t \in Host
    BY <1>1, <1>t, Zenon
  <2>2. CASE Mark
    <3>1. /\ model' = model /\ pc' = pc /\ line' = line /\ instret' = instret /\ slept' = slept
      BY <2>2, Zenon DEF Mark
    <3>2. begun' \in Int /\ owed' \in Int
      BY <1>4, <2>1, <2>2, HostFields DEF Mark, Types, Op
    <3>3. nxt' \in Int
      <4>1. CASE Op = "at"
        <5>1. t[2] \in Int /\ t[3] \in Insn /\ nxt' \in Successors(t[2], t[3])
          BY <2>1, <2>2, <4>1, HostFields, Zenon DEF Mark, Op
        <5>2. t[3].len \in Int /\ t[3].imm \in Int
          BY <5>1 DEF Insn
        <5>3. Addr \subseteq Int
          BY SizeAssumption DEF Addr
        <5> QED BY <5>1, <5>2, <5>3 DEF Successors
      <4>2. CASE Op # "at"
        BY <1>4, <2>2, <4>2, Zenon DEF Mark, Types
      <4> QED BY <4>1, <4>2, Zenon
    <3> QED BY <1>4, <3>1, <3>2, <3>3 DEF Types
  <2>3. CASE Adjust
    <3>1. UNCHANGED <<model, nxt, line, begun, owed>>
      BY <2>3, Zenon DEF Adjust
    <3>2. t[2] \in Int \/ t[1] = "pc_reg"
      BY <2>1, <2>3, HostFields, Zenon DEF Adjust, Op
    <3>3. pc' \in Int /\ instret' \in Int /\ slept' \in Int
      BY <1>4, <2>1, <2>3, <3>2 DEF Adjust, Types, Op
    <3> QED BY <1>4, <3>1, <3>3, Zenon DEF Types
  <2>4. CASE Fetch
    <3>1. UNCHANGED <<model, pc, nxt, begun, instret, owed, slept>> /\ line' = LineOf(pc + t[2])
      BY <2>1, <2>4, Zenon DEF Fetch
    <3>2. pc + t[2] \in Int
      BY <1>4, <2>1, <2>4, HostFields DEF Fetch, Op, Types
    <3>3. LineOf(pc + t[2]) \in Int
      BY <3>2, SizeAssumption, DivBounds, Zenon DEF LineOf
    <3> QED BY <1>4, <3>1, <3>3 DEF Types
  <2>5. CASE Effect \/ NoInterrupt
    BY <1>4, <2>5, Zenon DEF Effect, NoInterrupt, Types
  <2> QED BY <2>2, <2>3, <2>4, <2>5
<1> QED BY <1>1, <1>3, <1>5, <1>6, <1>7, Onward

LEMMA JumpStep ==
  ASSUME Inv, Jump
  PROVE  Inv'
<1>0. Running
  BY Zenon DEF Jump
<1>1. PICK A, v : /\ code \in Seq(Host) /\ Flow(code, A) /\ A[Len(code) + 1].mode = "dead"
                  /\ v = A[ip] /\ Match(v) /\ v \in View /\ code[ip] \in Host
                  /\ FlowAt(code, A, ip)
                  /\ ip + 1 \in 1 .. Len(code) + 1
  BY <1>0, AtWork, Zenon
<1>t. PICK t : t = code[ip]
  BY Zenon
<1>2. t[1] \in Jumps
  BY <1>t, Zenon DEF Jump, Op, Jumps
<1>3. /\ Branching(v) /\ t[2] \in Nat /\ ip + t[2] <= Len(code)
      /\ Sub(Fall(t, v), A[ip + 1]) /\ Sub(Hop(t, v), A[ip + 1 + t[2]])
  BY <1>1, <1>2, <1>t, Zenon DEF FlowAt
<1>4. \/ ip' = ip + 1 /\ Match(Fall(t, v))'
      \/ ip' = ip + 1 + t[2] /\ Match(Hop(t, v))'
  BY <1>1, <1>3, <1>t, StepJump, Zenon
<1>5. dbt' = dbt /\ Types'
  BY Zenon DEF Jump, Inv, Types
<1>6. ip + 1 + t[2] \in 1 .. Len(code) + 1
  <2>1. Len(code) \in Nat /\ ip \in Nat
    BY <1>0, <1>1, CodeFacts DEF Running
  <2> DEFINE d == t[2]
  <2>2. d \in Nat /\ ip + d <= Len(code)
    BY <1>3, Zenon
  <2> HIDE DEF d
  <2>3. ip + 1 + d \in 1 .. Len(code) + 1
    BY <2>1, <2>2
  <2> QED BY <2>3, Zenon DEF d
<1>7. CASE ip' = ip + 1 /\ Match(Fall(t, v))'
  BY <1>1, <1>3, <1>5, <1>7, Onward, Zenon
<1>8. CASE ip' = ip + 1 + t[2] /\ Match(Hop(t, v))'
  BY <1>1, <1>3, <1>5, <1>6, <1>8, Onward, Zenon
<1> QED BY <1>4, <1>7, <1>8, Zenon

\* What the machine is like where the block may be left.
LEMMA SettledNow ==
  ASSUME NEW v, Match(v), Settled(v), Types
  PROVE  pc = nxt /\ begun = instret /\ owed = slept
<1>1. begun - instret = 0 /\ owed - slept = 0
  BY Zenon DEF Match, Fits, Settled
<1>2. CASE v.mode = "out"
  BY <1>1, <1>2 DEF Match, Fits, Types
<1>3. CASE Follows(v, v.pc)
  <2>1. nxt = v.pc
    BY <1>3, FitsFollows, Zenon DEF Match
  <2>2. pc = v.pc
    BY <1>3, Zenon DEF Match, Fits, Follows
  <2> QED BY <1>1, <2>1, <2>2 DEF Types
<1> QED BY <1>2, <1>3, Zenon DEF Settled

LEMMA DirectStep ==
  ASSUME Inv, Direct
  PROVE  Inv'
<1>0. Running /\ code[ip][1] = "direct"
  BY Zenon DEF Direct, Op
<1>1. PICK A, v : /\ v = A[ip] /\ Match(v) /\ v \in View /\ FlowAt(code, A, ip)
  BY <1>0, AtWork, Zenon
<1>2. Pre(code[ip], v)
  BY <1>0, <1>1 DEF FlowAt, Jumps
<1>3. /\ Settled(v) /\ v.mode # "out"
      /\ \/ v.page = PageOf(v.pc)
         \/ v.mode = "in" /\ v.inst.k = "jal" /\ (v.cur + v.inst.len) % LineSize = 0
  BY <1>0, <1>2, Zenon DEF Pre
<1>4. Types /\ pc = nxt /\ pc \in Int /\ line \in Int
  BY <1>1, <1>3, SettledNow, Zenon DEF Inv, Types
<1>5. v.pc = pc
  BY <1>1, <1>3, Zenon DEF Match, Fits, Settled, Follows
<1>6. /\ EnterBlock(pc) /\ pc' = pc /\ nxt' = pc /\ model' \in Models /\ line' = line
      /\ edge' = (edge \/ (inst.k = "jal" /\ (cur + inst.len) % LineSize = 0))
  BY <1>4, Zenon DEF Direct, Types
<1>7. Seen(PageOf(pc))'
  <2>1. CASE v.page = PageOf(v.pc)
    <3>1. Seen(PageOf(pc))
      BY <1>1, <1>5, <2>1, Zenon DEF Match
    <3>2. edge => edge'
      BY <1>6, Zenon
    <3> QED BY <1>6, <3>1, <3>2 DEF Seen
  <2>2. CASE v.mode = "in" /\ v.inst.k = "jal" /\ (v.cur + v.inst.len) % LineSize = 0
    <3>1. inst.k = "jal" /\ (cur + inst.len) % LineSize = 0
      BY <1>1, <2>2, Zenon DEF Match, Fits
    <3>2. edge'
      BY <1>6, <3>1, Zenon
    <3> QED BY <3>2, Zenon DEF Seen
  <2> QED BY <1>3, <2>1, <2>2, Zenon
<1> QED BY <1>4, <1>6, <1>7, Entered

\* The invariant holds.
LEMMA Invariance == Spec => []Inv
<1>1. Init => Inv
  <2> SUFFICES ASSUME Init PROVE Inv
    BY Zenon
  <2>1. /\ pc \in Int /\ model \in Models /\ line = LineOf(pc) /\ nxt = pc /\ ip = 0 /\ dbt = begin(pc)
        /\ instret = 0 /\ begun = 0 /\ slept = 0 /\ owed = 0
    BY SizeAssumption DEF Init, Addr
  <2>2. line \in Int
    BY <2>1, SizeAssumption, DivBounds, Zenon DEF LineOf
  <2>3. Types
    BY <2>1, <2>2 DEF Types
  <2>4. Seen(PageOf(pc))
    BY <2>1, LineInPage, Zenon DEF Seen
  <2>5. dbt.pc_start = pc /\ dbt.pc_cur = 0 /\ \E w : Gen(dbt, Entry(pc), w) /\ Ready(dbt, w)
    BY <2>1, BeginFlows, Zenon
  <2>6. Here = pc
    BY <2>1, <2>5 DEF Here
  <2> QED BY <2>1, <2>3, <2>4, <2>5, <2>6 DEF Inv, Translating, Executing
<1>2. Inv /\ [Next]_vars => Inv'
  <2> SUFFICES ASSUME Inv, [Next]_vars PROVE Inv'
    BY Zenon
  <2>1. CASE Translate
    BY <2>1, TranslateStep, Zenon
  <2>2. CASE Mark \/ Adjust \/ Fetch \/ Effect \/ NoInterrupt
    <3>1. Running
      BY <2>2 DEF Mark, Adjust, Fetch, Effect, NoInterrupt
    <3> QED BY <2>2, <3>1, RunStep
  <2>3. CASE Jump
    BY <2>3, JumpStep, Zenon
  <2>4. CASE Trap
    <3>1. PICK a \in Addr : Leave(a)
      BY <2>4, Zenon DEF Trap
    <3>2. a \in Int
      BY SizeAssumption DEF Addr
    <3> QED BY <3>1, <3>2, Left, Zenon DEF Inv
  <2>5. CASE Chain
    <3>1. Leave(pc) /\ Types /\ pc \in Int
      BY <2>5, Zenon DEF Chain, Inv, Types
    <3> QED BY <3>1, Left, Zenon
  <2>6. CASE Direct
    BY <2>6, DirectStep, Zenon
  <2>7. CASE UNCHANGED vars
    <3>1. UNCHANGED <<model, pc, instret, dbt, ip, cur, inst, nxt, begun, slept, owed, line, edge>>
      BY <2>7, Zenon DEF vars
    <3>2. Types'
      BY <3>1, Zenon DEF Inv, Types
    <3>3. Translating'
      BY <3>1, Zenon DEF Inv, Translating, Seen, Here
    <3>4. Executing'
      BY <3>1, Zenon DEF Inv, Executing, code, Match, Seen
    <3> QED BY <3>2, <3>3, <3>4 DEF Inv
  <2> QED BY <2>1, <2>2, <2>3, <2>4, <2>5, <2>6, <2>7 DEF Next
<1> QED BY <1>1, <1>2, PTL DEF Spec

\* Wherever a translated block may be left, pc and instret are those of a
\* machine that runs one instruction at a time: the EBX of every access that
\* may trap, the adjustments that emit_branch, emit_jal and end make, and the
\* instruction that compile_cond_op retires early all agree.
THEOREM BlockPrecise == Spec => []PreciseState
<1>1. Inv => PreciseState
  <2> SUFFICES ASSUME Inv PROVE PreciseState
    BY Zenon
  <2>1. ip # 0 => Running
    BY Zenon DEF Inv, Executing, Running
  <2>2. ASSUME Running
        PROVE  /\ Op = "at" => code[ip][2] = nxt
               /\ Op = "effect" => /\ pc + code[ip][2] = cur
                                   /\ instret + code[ip][3] = begun - 1
               /\ Op = "fetch"  => \/ /\ pc + code[ip][3] = cur
                                      /\ instret + code[ip][4] = begun - 1
                                   \/ /\ pc + code[ip][3] = nxt /\ Taken
                                      /\ instret + code[ip][4] = begun
               /\ Op \in {"check", "tail", "direct"} => pc = nxt /\ instret = begun
    <3>1. PICK A, v : /\ v = A[ip] /\ Match(v) /\ v \in View /\ code[ip] \in Host
                      /\ FlowAt(code, A, ip)
      BY <2>2, AtWork, Zenon
    <3> DEFINE t == code[ip]
    <3>2. t[1] \notin Jumps => Pre(t, v)
      BY <3>1, Zenon DEF FlowAt
    <3>3. Types
      BY Zenon DEF Inv
    <3>4. t \in Host /\ Op = t[1]
      BY <3>1, Zenon DEF Op
    <3> HIDE DEF t
    <3>5. CASE Op = "at"
      <4>1. Follows(v, t[2])
        BY <3>2, <3>4, <3>5 DEF Pre, Jumps
      <4>2. nxt = t[2]
        BY <3>1, <4>1, FitsFollows DEF Match
      <4> QED BY <3>5, <4>2, Zenon DEF t
    <3>6. CASE Op = "effect"
      <4>1. v.mode = "in" /\ v.pc + t[2] = v.cur /\ v.lag = t[3] + 1
        BY <3>2, <3>4, <3>6, Zenon DEF Pre, Jumps
      <4>2. pc + t[2] = cur /\ begun - instret = t[3] + 1
        BY <3>1, <4>1, Zenon DEF Match, Fits
      <4>3. t[3] \in Int
        BY <3>4, <3>6, HostFields, Zenon
      <4>4. instret + t[3] = begun - 1
        BY <3>3, <4>2, <4>3 DEF Types
      <4> QED BY <3>6, <4>2, <4>4, Zenon DEF t
    <3>7. CASE Op = "fetch"
      <4>0. t[4] \in Int
        BY <3>4, <3>7, HostFields, Zenon
      <4>1. \/ v.mode = "in" /\ v.pc + t[3] = v.cur /\ v.lag = t[4] + 1
            \/ v.mode = "taken" /\ v.pc + t[3] = v.cur + v.inst.imm /\ v.lag = t[4]
        BY <3>2, <3>4, <3>7 DEF Pre, Jumps
      <4>2. CASE v.mode = "in" /\ v.pc + t[3] = v.cur /\ v.lag = t[4] + 1
        <5>1. pc + t[3] = cur /\ begun - instret = t[4] + 1
          BY <3>1, <4>2, Zenon DEF Match, Fits
        <5>2. instret + t[4] = begun - 1
          BY <3>3, <4>0, <5>1 DEF Types
        <5> QED BY <3>7, <5>1, <5>2, Zenon DEF t
      <4>3. CASE v.mode = "taken" /\ v.pc + t[3] = v.cur + v.inst.imm /\ v.lag = t[4]
        <5>1. Follows(v, v.pc + t[3])
          BY <4>3, Zenon DEF Follows
        <5>2. nxt = v.pc + t[3]
          BY <3>1, <5>1, FitsFollows DEF Match
        <5>3. pc = v.pc /\ Taken /\ begun - instret = t[4]
          BY <3>1, <4>3, Zenon DEF Match, Fits, Taken
        <5>4. instret + t[4] = begun
          BY <3>3, <4>0, <5>3 DEF Types
        <5> QED BY <3>7, <5>2, <5>3, <5>4 DEF t
      <4> QED BY <4>1, <4>2, <4>3
    <3>8. CASE Op \in {"check", "tail", "direct"}
      <4>1. Settled(v)
        BY <3>2, <3>4, <3>8 DEF Pre, Jumps
      <4> QED BY <3>1, <3>3, <3>8, <4>1, SettledNow
    <3> QED BY <3>5, <3>6, <3>7, <3>8
  <2> QED BY <2>1, <2>2, Zenon DEF PreciseState
<1> QED BY <1>1, Invariance, PTL

\* Every cycle the pipeline model charged was slept for before a side effect
\* and before the block ends, on every path through the code: this is what
\* emit_chain_tail asserts of the translation, for the run.
THEOREM BlockPaid == Spec => []CyclesPaid
<1>1. Inv => CyclesPaid
  <2> SUFFICES ASSUME Inv, Running, Op \in {"effect", "fetch", "check", "tail", "direct"}
               PROVE  slept = owed
    BY Zenon DEF CyclesPaid
  <2>1. PICK A, v : /\ v = A[ip] /\ Match(v) /\ v \in View /\ FlowAt(code, A, ip)
    BY AtWork, Zenon
  <2>2. Pre(code[ip], v)
    BY <2>1, Zenon DEF FlowAt, Jumps, Op
  <2>3. v.due = 0
    BY <2>2, Zenon DEF Pre, Settled, Op
  <2>4. owed - slept = 0
    BY <2>1, <2>3 DEF Match, Fits
  <2> QED BY <2>4 DEF Inv, Types
<1> QED BY <1>1, Invariance, PTL

\* An instruction runs from a page that was looked up since the hart came to
\* it: compile_op and emit_branch fetch where a line ends, end_cross in the
\* second page, and a block is linked directly only within a line, but for a
\* jal that ends its line.
THEOREM BlockFetched == Spec => []PageFetched
<1>1. Inv => PageFetched
  <2> SUFFICES ASSUME Inv, Running, Op = "exec"
               PROVE  PageOf(line * LineSize) = PageOf(cur + inst.len - 1) \/ edge
    BY Zenon DEF PageFetched
  <2>1. PICK A, v : /\ v = A[ip] /\ Match(v) /\ v \in View /\ FlowAt(code, A, ip)
    BY AtWork, Zenon
  <2>2. Pre(code[ip], v)
    BY <2>1, Zenon DEF FlowAt, Jumps, Op
  <2>3. v.mode = "in" /\ v.page = PageOf(v.cur + v.inst.len - 1)
    BY <2>2, Zenon DEF Pre, Op
  <2>4. cur = v.cur /\ inst = v.inst /\ Seen(v.page)
    BY <2>1, <2>3, Zenon DEF Match, Fits
  <2> QED BY <2>3, <2>4, Zenon DEF Seen
<1> QED BY <1>1, Invariance, PTL

\* translate_code ends with an assertion, "We must not cross page boundary in
\* absolutely any cases": what has been compiled of a block, after any round of
\* its loop, is in the page it starts in (phys_pc_end is Here').  A page is
\* longer than an instruction.
THEOREM BlockInPage ==
  ASSUME PageSize > 1
  PROVE  Spec => [][ip = 0 => same_page(dbt.pc_start, Here' - 1)]_vars
<1>1. ASSUME Inv, Next, ip = 0 PROVE same_page(dbt.pc_start, Here' - 1)
  <2>1. PICK v : Gen(dbt, Entry(pc), v) /\ Ready(dbt, v)
    BY <1>1, Zenon DEF Inv, Translating
  <2>2. dbt.pc_start = pc /\ PageOf(Here) = PageOf(pc) /\ model \in Models
    BY <1>1, Zenon DEF Inv, Translating, Types
  <2>3. PICK i \in Insns(Here) : Cross(i) \/ FuseCond(i) \/ CompileOp(i)
    BY <1>1 DEF Next, Translate, Mark, Adjust, Jump, Fetch, Effect, NoInterrupt, Trap, Chain, Direct,
                Running
  <2>4. i \in Insn
    BY InsnsType, Zenon
  <2>5. dbt.pc_start \in Int /\ dbt.pc_cur \in Int /\ i.len \in Int /\ Here \in Int
    BY <2>1, <2>4, CompilerFields DEF Gen, Insn, Here
  <2>6. CASE Cross(i)
    <3>1. i.len = 2 /\ AtPageEnd(Here + 1) /\ dbt' = end_cross(dbt, i)
      BY <2>6, Zenon DEF Cross, Crosses, Compiled
    <3>2. dbt'.pc_start = dbt.pc_start + dbt.pc_cur + i.len /\ dbt'.pc_cur = -2
      BY <2>1, <2>2, <2>4, <3>1, EndCrossFlows, Zenon
    <3>3. Here' = Here
      BY <2>5, <3>1, <3>2 DEF Here
    <3>4. ~AtPageEnd(Here)
      <4>1. PageSize \in Nat
        BY SizeAssumption, Zenon
      <4>2. (Here + 1) % PageSize = 0
        BY <3>1, Zenon DEF AtPageEnd
      <4>3. Here % PageSize # 0
        BY <1>1, <2>5, <4>1, <4>2
      <4> QED BY <4>3, Zenon DEF AtPageEnd
    <3>5. PageOf(Here - 1) = PageOf(Here)
      BY <2>5, <3>4, PageStep, Zenon
    <3> QED BY <2>2, <3>3, <3>5, Zenon DEF same_page
  <2>7. CASE CompileOp(i)
    <3> DEFINE c == compile_op(dbt, i)
    <3>1. PageOf(Here + i.len - 1) = PageOf(pc)
      BY <2>2, <2>4, <2>5, <2>7, EndsInPage, Zenon DEF CompileOp
    <3>2. PageOf(dbt.pc_start + dbt.pc_cur + i.len - 1) = PageOf(dbt.pc_start)
      BY <2>2, <3>1, Zenon DEF Here
    <3>3. /\ c.pc_start = dbt.pc_start /\ c.pc_cur = dbt.pc_cur + i.len
          /\ \E w : /\ Gen(c, Entry(pc), w)
                    /\ IF i.k \in Leaving THEN w.mode = "dead" ELSE Ready(c, w)
      BY <2>1, <2>2, <2>4, <3>2, CompileOpFlows, Zenon
    <3>4. dbt' = c \/ (dbt' = end(c) /\ i.k \notin Leaving)
      BY <2>7, Zenon DEF CompileOp, Compiled, More
    <3> HIDE DEF c
    <3>5. c.pc_start + c.pc_cur = Here + i.len
      BY <2>5, <3>3 DEF Here
    <3>6. PageOf(c.pc_start + c.pc_cur - 1) = PageOf(c.pc_start)
      BY <2>2, <2>5, <3>1, <3>3, <3>5
    <3>7. dbt'.pc_start = c.pc_start /\ dbt'.pc_cur = c.pc_cur
      <4>1. CASE dbt' = c
        BY <4>1, Zenon
      <4>2. CASE dbt' = end(c) /\ i.k \notin Leaving
        <5>1. Kept(c, end(c))
          BY <3>3, <3>6, <4>2, EndFlows
        <5> QED BY <4>2, <5>1, Zenon DEF Kept
      <4> QED BY <3>4, <4>1, <4>2
    <3>8. Here' = Here + i.len
      BY <3>5, <3>7, Zenon DEF Here
    <3> QED BY <2>2, <2>5, <3>1, <3>8 DEF same_page
  <2>8. CASE FuseCond(i)
    <3>1. PICK j \in Insns(Here + i.len) :
            /\ ~Crosses(Here, i) /\ Fuses(Here, i, j)
            /\ \/ dbt' = compile_cond_op(dbt, i, j)
               \/ dbt' = end(compile_cond_op(dbt, i, j))
      BY <2>8, Zenon DEF FuseCond, Compiled, More
    <3> DEFINE c == compile_cond_op(dbt, i, j)
               h == Here + i.len
    <3>2. j \in Insn /\ j.len \in Int /\ h \in Int
      BY <2>5, InsnsType DEF Insn
    <3>3. PageOf(h - 1) = PageOf(pc)
      BY <2>2, <2>4, <2>5, <3>1, EndsInPage
    <3>4. PageOf(h) = PageOf(pc)
      BY <3>1, <3>2, <3>3, PageStep DEF Fuses
    <3>5. PageOf(h + j.len - 1) = PageOf(pc)
      BY <3>1, <3>2, <3>4, EndsInPage DEF Fuses
    <3>6. /\ PageOf(dbt.pc_start + dbt.pc_cur + i.len - 1) = PageOf(dbt.pc_start)
          /\ PageOf(dbt.pc_start + dbt.pc_cur + i.len + j.len - 1) = PageOf(dbt.pc_start)
      BY <2>2, <2>5, <3>2, <3>3, <3>5 DEF Here
    <3>7. i.k = "br" /\ i.imm = i.len + j.len
      BY <3>1, Zenon DEF Fuses
    <3>8. /\ c.pc_start = dbt.pc_start /\ c.pc_cur = dbt.pc_cur + i.len + j.len
          /\ \E w : Gen(c, Entry(pc), w) /\ Ready(c, w)
      BY <2>1, <2>2, <2>4, <3>2, <3>6, <3>7, CompileCondOpFlows
    <3>9. dbt' = c \/ dbt' = end(c)
      BY <3>1, Zenon
    <3> HIDE DEF c
    <3>10. c.pc_start + c.pc_cur = h + j.len
      BY <2>5, <3>2, <3>8 DEF Here
    <3> HIDE DEF h
    <3>11. PageOf(c.pc_start + c.pc_cur - 1) = PageOf(c.pc_start)
      BY <2>2, <2>5, <3>2, <3>5, <3>8, <3>10
    <3>12. Kept(c, end(c))
      BY <3>8, <3>11, EndFlows
    <3>13. dbt'.pc_start = c.pc_start /\ dbt'.pc_cur = c.pc_cur
      BY <3>9, <3>12, Zenon DEF Kept
    <3>14. Here' = h + j.len
      BY <3>10, <3>13, Zenon DEF Here
    <3> QED BY <2>2, <3>2, <3>5, <3>14 DEF same_page
  <2> QED BY <2>3, <2>6, <2>7, <2>8
<1>2. Inv /\ [Next]_vars => [ip = 0 => same_page(dbt.pc_start, Here' - 1)]_vars
  BY <1>1, Zenon
<1> QED BY <1>2, Invariance, PTL DEF Spec
=============================================================================
