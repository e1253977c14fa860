---------------------------- MODULE EmitProofs ----------------------------
(***************************************************************************)
(* What the compiler of blocks emits (Block), seen from the machine that   *)
(* runs it.                                                                *)
(*                                                                         *)
(* Every position of the code gets a view, an annotation in the manner of  *)
(* a proof outline: which instruction is being run, how far the program    *)
(* counter and the instruction counter of the Context lag behind it, which *)
(* cycles are owed and which page was looked up.  The first part shows     *)
(* that running one item of the code keeps the machine in agreement with   *)
(* the view of the item it gets to (the lemmas Step...); the second that   *)
(* each function of the compiler appends code with consistent views (the   *)
(* lemmas ...Flows).  BlockProofs puts the two together.                   *)
(***************************************************************************)
EXTENDS Block, TLAPS

Insn == [k : {"alu", "mul", "mem", "sys", "br", "jal", "jalr"},
         len : {1, 2}, imm : Int, dep : BOOLEAN]

\* What is emitted.
Host ==
  {<<"exec">>, <<"pc_reg">>, <<"check">>, <<"tail">>, <<"direct">>}
  \cup ({"owe", "sleep", "pc", "instret", "jcc", "jcc_not"} \X Int)
  \cup ({"at"} \X Int \X Insn)
  \cup ({"effect"} \X Int \X Int)
  \cup ({"fetch"} \X Int \X Int \X Int)

Compiler == [pc_start : Int, pc_cur : Int, pc_end : Int, instret : Int,
             cycles : Nat, stall : BOOLEAN, code : Seq(Host)]

(***************************************************************************)
(* A view is what is known of the machine where it gets to a position of   *)
(* the code.  By its mode,                                                 *)
(*   "idle"   the next instruction is the one at nxt;                      *)
(*   "in"     inst, at cur, is being run;                                  *)
(*   "taken"  so it is, and it is a branch that is taken;                  *)
(*   "out"    so it is, and the pc of the Context is that of the next one; *)
(*   "dead"   the machine does not get there.                              *)
(* In the first three the pc of the Context is known.  The instructions    *)
(* begun and not retired are lag, the cycles owed and not slept for due,   *)
(* and page is the one that was looked up last.                            *)
(***************************************************************************)
View == [mode : {"idle", "in", "taken", "out", "dead"},
         pc : Int, cur : Int, inst : Insn, nxt : Int, lag : Int, due : Int, page : Int]

Straight == {"alu", "mul", "mem"}

\* The next instruction is the one at x.
Follows(v, x) ==
  \/ v.mode = "idle" /\ x = v.nxt
  \/ v.mode = "in" /\ v.inst.k \in Straight /\ x = v.cur + v.inst.len
  \/ v.mode = "in" /\ v.inst.k = "jal" /\ x = v.cur + v.inst.imm
  \/ v.mode = "taken" /\ x = v.cur + v.inst.imm

\* Of two views of one position the second says less.
Sub(v, w) ==
  \/ v.mode = "dead"
  \/ v = w
  \/ /\ w.mode = "idle" /\ Follows(v, w.nxt)
     /\ v.pc = w.pc /\ v.lag = w.lag /\ v.due = w.due /\ v.page = w.page

\* The block may be left for the next instruction.
Settled(v) == /\ v.lag = 0 /\ v.due = 0
              /\ v.mode = "out" \/ Follows(v, v.pc)

\* Where v is known, the instruction t does what the properties ask for.
Pre(t, v) ==
  /\ t[1] = "at" => Follows(v, t[2])
  /\ t[1] = "exec" => v.mode = "in" /\ v.page = PageOf(v.cur + v.inst.len - 1)
  /\ t[1] = "pc" => v.mode \in {"idle", "in", "taken"}
  /\ t[1] = "pc_reg" => v.mode = "in"
  /\ t[1] = "fetch" =>
        /\ v.due = 0
        /\ \/ v.mode = "in" /\ v.pc + t[3] = v.cur /\ v.lag = t[4] + 1
           \/ v.mode = "taken" /\ v.pc + t[3] = v.cur + v.inst.imm /\ v.lag = t[4]
  /\ t[1] = "effect" =>
        /\ v.due = 0 /\ v.mode = "in" /\ v.pc + t[2] = v.cur /\ v.lag = t[3] + 1
        /\ v.inst.k = "sys" => v.pc = v.cur + v.inst.len
  /\ t[1] = "check" => Settled(v)
  /\ t[1] = "tail" => Settled(v)
  /\ t[1] = "direct" =>
        /\ Settled(v) /\ v.mode # "out"
        /\ \/ v.page = PageOf(v.pc)
           \/ v.mode = "in" /\ v.inst.k = "jal" /\ (v.cur + v.inst.len) % LineSize = 0

\* What is known after it.
Post(t, v) ==
  CASE t[1] = "at"      -> [v EXCEPT !.mode = "in", !.cur = t[2], !.inst = t[3], !.lag = @ + 1]
    [] t[1] = "owe"     -> [v EXCEPT !.due = @ + t[2]]
    [] t[1] = "sleep"   -> [v EXCEPT !.due = @ - t[2]]
    [] t[1] = "pc"      -> [v EXCEPT !.pc = @ + t[2]]
    [] t[1] = "pc_reg"  -> [v EXCEPT !.mode = "out"]
    [] t[1] = "instret" -> [v EXCEPT !.lag = @ - t[2]]
    [] t[1] = "fetch"   -> [v EXCEPT !.page = PageOf(v.pc + t[2])]
    [] t[1] = "effect"  -> [v EXCEPT !.mode = IF v.inst.k = "sys" THEN "out" ELSE @]
    [] t[1] \in {"tail", "direct"} -> [v EXCEPT !.mode = "dead"]
    [] OTHER            -> v

\* A conditional jump: what is known at the next position, and at its target.
Jumps == {"jcc", "jcc_not"}

Branching(v) == v.mode = "in" /\ v.inst.k = "br"

IdleAt(v, x) == [v EXCEPT !.mode = "idle", !.nxt = x]

Fall(t, v) == IF t[1] = "jcc" THEN IdleAt(v, v.cur + v.inst.len) ELSE [v EXCEPT !.mode = "taken"]
Hop(t, v) == IdleAt(v, v.cur + IF t[1] = "jcc" THEN v.inst.imm ELSE v.inst.len)

\* A assigns a view to every position of the code, the one after its end too.
FlowAt(s, A, n) ==
  IF s[n][1] \in Jumps
  THEN /\ Branching(A[n])
       /\ s[n][2] \in Nat /\ n + s[n][2] <= Len(s)
       /\ Sub(Fall(s[n], A[n]), A[n + 1])
       /\ Sub(Hop(s[n], A[n]), A[n + 1 + s[n][2]])
  ELSE Pre(s[n], A[n]) /\ Sub(Post(s[n], A[n]), A[n + 1])

Flow(s, A) == /\ A \in [1 .. Len(s) + 1 -> View]
              /\ \A n \in 1 .. Len(s) : FlowAt(s, A, n)

\* The code s, entered with u known, is left at its end with v known.
Flows(s, u, v) == \E A : Flow(s, A) /\ Sub(u, A[1]) /\ A[Len(s) + 1] = v

\* The compiler c has emitted code that, entered with u known, gets to its end
\* with v known; the cycles to be slept for are those it counts.
Gen(c, u, v) == c \in Compiler /\ v \in View /\ Flows(c.code, u, v) /\ v.due = c.cycles

Kept(c, d) == /\ d.pc_start = c.pc_start /\ d.pc_cur = c.pc_cur
              /\ d.pc_end = c.pc_end /\ d.instret = c.instret

\* Views that differ in the cycles due, and in the pc and the lag too.
Near(v, w) == w.mode = v.mode /\ w.cur = v.cur /\ w.inst = v.inst /\ w.nxt = v.nxt /\ w.page = v.page
Like(v, w) == Near(v, w) /\ w.pc = v.pc /\ w.lag = v.lag

-----------------------------------------------------------------------------
(* Lines and pages *)

\* Division by a positive number: the quotient is the only number with a
\* remainder in range.
LEMMA DivBounds ==
  ASSUME NEW x \in Int, NEW d \in Nat \ {0}
  PROVE  /\ x \div d \in Int
         /\ d * (x \div d) <= x
         /\ x < d * (x \div d) + d
OBVIOUS

LEMMA TimesMono ==
  ASSUME NEW a \in Int, NEW b \in Int, NEW d \in Nat \ {0}, a < b
  PROVE  d * a + d <= d * b
<1>1. PICK k \in Nat : b = a + 1 + k
  <2> WITNESS b - a - 1 \in Nat
  <2> QED OBVIOUS
<1>2. d * b = d * a + d + d * k
  BY <1>1
<1>3. d * k >= 0
  OBVIOUS
<1> QED BY <1>2, <1>3

LEMMA DivUnique ==
  ASSUME NEW x \in Int, NEW q \in Int, NEW d \in Nat \ {0},
         d * q <= x, x < d * q + d
  PROVE  x \div d = q
<1> DEFINE p == x \div d
<1>1. p \in Int /\ d * p <= x /\ x < d * p + d
  BY DivBounds, Zenon
<1> HIDE DEF p
<1>2. CASE p < q
  BY <1>1, <1>2, TimesMono
<1>3. CASE q < p
  BY <1>1, <1>3, TimesMono
<1>4. p = q
  BY <1>1, <1>2, <1>3
<1> QED BY <1>4, Zenon DEF p

\* The first address of a cache line is in the page of every other address of
\* that line.
LEMMA LineInPage ==
  ASSUME NEW x \in Int
  PROVE  PageOf(LineOf(x) * LineSize) = PageOf(x)
<1> DEFINE l == LineOf(x)
           q == PageOf(x)
           k == PageSize \div LineSize
<1>1. /\ LineSize \in Nat \ {0} /\ PageSize \in Nat \ {0}
  BY SizeAssumption, Zenon
<1>2. k \in Int /\ PageSize = LineSize * k
  BY SizeAssumption
<1>3. l \in Int /\ LineSize * l <= x /\ x < LineSize * l + LineSize
  BY <1>1, DivBounds, Zenon DEF LineOf
<1>4. q \in Int /\ PageSize * q <= x /\ x < PageSize * q + PageSize
  BY <1>1, DivBounds, Zenon DEF PageOf
<1> HIDE DEF l, q, k
<1>5. PageSize * q = LineSize * (k * q)
  BY <1>1, <1>2, <1>4
<1>6. k * q \in Int
  BY <1>2, <1>4
<1>7. CASE l < k * q
  <2>1. LineSize * l + LineSize <= LineSize * (k * q)
    BY <1>1, <1>3, <1>6, <1>7, TimesMono, Zenon
  <2> QED BY <2>1, <1>1, <1>3, <1>4, <1>5, <1>6
<1>8. CASE l >= k * q
  <2>1. LineSize * (k * q) <= LineSize * l
    <3>1. CASE l = k * q
      BY <1>1, <1>3, <3>1
    <3>2. CASE k * q < l
      BY <1>1, <1>3, <1>6, <3>2, TimesMono
    <3> QED BY <3>1, <3>2, <1>8, <1>3, <1>6
  <2>2. PageSize * q <= l * LineSize /\ l * LineSize < PageSize * q + PageSize
    BY <2>1, <1>1, <1>3, <1>4, <1>5, <1>6
  <2>3. l * LineSize \in Int
    BY <1>1, <1>3
  <2>4. (l * LineSize) \div PageSize = q
    BY <2>2, <2>3, <1>1, <1>4, DivUnique, Zenon
  <2> QED BY <2>4, Zenon DEF l, q, PageOf
<1> QED BY <1>3, <1>6, <1>7, <1>8

LEMMA SameLineSamePage ==
  ASSUME NEW a \in Int, NEW b \in Int, same_cache_line(a, b)
  PROVE  PageOf(a) = PageOf(b)
BY LineInPage, Zenon DEF same_cache_line

\* Only where d divides x does the quotient change on the way from x - 1 to x.
LEMMA DivStep ==
  ASSUME NEW x \in Int, NEW d \in Nat \ {0}, x % d # 0
  PROVE  (x - 1) \div d = x \div d
<1> DEFINE q == x \div d
<1>1. q \in Int /\ d * q <= x /\ x < d * q + d
  BY DivBounds, Zenon
<1>2. x % d = x - d * q
  OBVIOUS
<1>3. d * q <= x - 1 /\ x - 1 < d * q + d
  <2> HIDE DEF q
  <2>1. d * q # x
    BY <1>1, <1>2
  <2> QED BY <1>1, <2>1
<1> HIDE DEF q
<1>4. (x - 1) \div d = q
  BY <1>1, <1>3, DivUnique
<1> QED BY <1>4, Zenon DEF q

LEMMA PageStep ==
  ASSUME NEW a \in Int, ~AtPageEnd(a)
  PROVE  PageOf(a - 1) = PageOf(a)
BY SizeAssumption, DivStep, Zenon DEF PageOf, AtPageEnd

LEMMA LineStep ==
  ASSUME NEW a \in Int, a % LineSize # 0
  PROVE  same_cache_line(a - 1, a)
BY SizeAssumption, DivStep, Zenon DEF LineOf, same_cache_line
-----------------------------------------------------------------------------
(* The code runs *)

LEMMA ViewFields ==
  ASSUME NEW v \in View
  PROVE  /\ v.mode \in {"idle", "in", "taken", "out", "dead"}
         /\ v.pc \in Int /\ v.cur \in Int /\ v.inst \in Insn /\ v.nxt \in Int
         /\ v.lag \in Int /\ v.due \in Int /\ v.page \in Int
         /\ v.inst.len \in {1, 2} /\ v.inst.imm \in Int
         /\ v.inst.k \in {"alu", "mul", "mem", "sys", "br", "jal", "jalr"}
BY Zenon DEF View, Insn

LEMMA IdleAtFields ==
  ASSUME NEW v \in View, NEW x \in Int
  PROVE  LET w == IdleAt(v, x)
         IN  /\ w \in View /\ w.mode = "idle" /\ w.nxt = x /\ w.pc = v.pc /\ w.lag = v.lag
             /\ w.due = v.due /\ w.page = v.page
BY Zenon DEF View, IdleAt

LEMMA TakenFields ==
  ASSUME NEW v \in View
  PROVE  LET w == [v EXCEPT !.mode = "taken"]
         IN  /\ w \in View /\ w.mode = "taken" /\ w.cur = v.cur /\ w.inst = v.inst
             /\ w.pc = v.pc /\ w.lag = v.lag /\ w.due = v.due /\ w.page = v.page
BY Zenon DEF View

\* A machine with pc p that is at the instruction i at a, to be followed by
\* the one at x, is what the view says.
Fits(v, p, x, a, i, l, d) ==
  /\ v.mode # "dead" /\ l = v.lag /\ d = v.due
  /\ v.mode = "idle" => x = v.nxt /\ p = v.pc
  /\ v.mode \in {"in", "taken", "out"} => a = v.cur /\ i = v.inst /\ x \in Successors(a, i)
  /\ v.mode \in {"in", "taken"} => p = v.pc
  /\ v.mode = "taken" => i.k = "br" /\ x # a + i.len
  /\ v.mode = "out" => p = x

Seen(g) == edge \/ PageOf(line * LineSize) = g

Match(v) == Fits(v, pc, nxt, cur, inst, begun - instret, owed - slept) /\ Seen(v.page)

Types == /\ model \in Models
         /\ pc \in Int /\ nxt \in Int /\ line \in Int
         /\ begun \in Int /\ instret \in Int /\ owed \in Int /\ slept \in Int

LEMMA FitsFollows ==
  ASSUME NEW v, NEW p, NEW x, NEW a, NEW i, NEW l, NEW d, Fits(v, p, x, a, i, l, d),
         NEW y, Follows(v, y)
  PROVE  x = y
<1>1. CASE v.mode = "idle"
  BY <1>1, Zenon DEF Fits, Follows
<1>2. CASE v.mode = "in" /\ i.k \in Straight /\ y = a + i.len
  BY <1>2, Zenon DEF Fits, Successors, Straight
<1>3. CASE v.mode = "in" /\ i.k = "jal" /\ y = a + i.imm
  BY <1>3, Zenon DEF Fits, Successors
<1>4. CASE v.mode = "taken" /\ y = a + i.imm
  BY <1>4, Zenon DEF Fits, Successors
<1> QED BY <1>1, <1>2, <1>3, <1>4, Zenon DEF Fits, Follows

LEMMA FitsSub ==
  ASSUME NEW v, NEW p, NEW x, NEW a, NEW i, NEW l, NEW d, Fits(v, p, x, a, i, l, d),
         NEW w, Sub(v, w)
  PROVE  Fits(w, p, x, a, i, l, d) /\ w.page = v.page
<1>1. CASE v = w
  BY <1>1, Zenon
<1>2. CASE /\ w.mode = "idle" /\ Follows(v, w.nxt)
           /\ v.pc = w.pc /\ v.lag = w.lag /\ v.due = w.due /\ v.page = w.page
  <2>1. x = w.nxt
    BY <1>2, FitsFollows
  <2>2. v.mode \in {"idle", "in", "taken"}
    BY <1>2, Zenon DEF Follows
  <2> QED BY <1>2, <2>1, <2>2, Zenon DEF Fits
<1> QED BY <1>1, <1>2, Zenon DEF Sub, Fits

LEMMA HostFields ==
  ASSUME NEW t \in Host
  PROVE  /\ t[1] = "at" => t[2] \in Int /\ t[3] \in Insn
         /\ t[1] \in {"owe", "sleep", "pc", "instret", "effect", "fetch"} => t[2] \in Int
         /\ t[1] \in {"effect", "fetch"} => t[3] \in Int
         /\ t[1] = "fetch" => t[4] \in Int
         /\ t[1] \in {"at", "exec", "owe", "pc", "pc_reg", "instret", "sleep", "jcc", "jcc_not",
                      "fetch", "effect", "check", "tail", "direct"}
<1>1. CASE t \in {<<"exec">>, <<"pc_reg">>, <<"check">>, <<"tail">>, <<"direct">>}
  BY <1>1
<1>2. CASE t \in {"owe", "sleep", "pc", "instret", "jcc", "jcc_not"} \X Int
  BY <1>2, Zenon
<1>3. CASE t \in {"at"} \X Int \X Insn
  BY <1>3
<1>4. CASE t \in {"effect"} \X Int \X Int
  BY <1>4, Zenon
<1>5. CASE t \in {"fetch"} \X Int \X Int \X Int
  BY <1>5
<1> QED BY <1>1, <1>2, <1>3, <1>4, <1>5, Zenon DEF Host

LEMMA StepMark ==
  ASSUME Types, NEW t \in Host, NEW v \in View, t = code[ip], Match(v), Pre(t, v), Mark
  PROVE  Match(Post(t, v))' /\ ip' = ip + 1
<1> DEFINE w == Post(t, v)
<1>1. ip' = ip + 1 /\ pc' = pc /\ instret' = instret /\ slept' = slept /\ line' = line /\ edge' = edge
  BY DEF Mark, Advance, Running
<1>2. CASE t[1] = "at"
  <2>1. /\ w.mode = "in" /\ w.cur = t[2] /\ w.inst = t[3] /\ w.lag = v.lag + 1
        /\ w.due = v.due /\ w.pc = v.pc /\ w.page = v.page
    <3> DEFINE n == v.lag + 1
    <3>1. w = [v EXCEPT !.mode = "in", !.cur = t[2], !.inst = t[3], !.lag = n]
      BY <1>2, Zenon DEF Post
    <3> HIDE DEF w, n
    <3>2. /\ w.mode = "in" /\ w.cur = t[2] /\ w.inst = t[3] /\ w.lag = n
          /\ w.due = v.due /\ w.pc = v.pc /\ w.page = v.page
      BY <3>1, Zenon DEF View
    <3> QED BY <3>2, Zenon DEF n
  <2>2. /\ cur' = t[2] /\ inst' = t[3] /\ begun' = begun + 1 /\ owed' = owed
        /\ nxt' \in Successors(t[2], t[3])
    BY <1>2 DEF Mark, Op
  <2>3. pc = v.pc /\ begun - instret = v.lag /\ owed - slept = v.due /\ Seen(v.page)
    BY <1>2, Zenon DEF Match, Fits, Pre, Follows
  <2> HIDE DEF w
  <2>4. begun' - instret' = w.lag /\ owed' - slept' = w.due
    BY <1>1, <2>1, <2>2, <2>3 DEF Types
  <2>5. Seen(w.page)'
    BY <1>1, <2>1, <2>3 DEF Seen
  <2> QED BY <1>1, <2>1, <2>2, <2>3, <2>4, <2>5 DEF Match, Fits, w
<1>3. CASE t[1] = "owe"
  <2>0. t[2] \in Int
    BY <1>3, HostFields, Zenon
  <2>1. /\ w.mode = v.mode /\ w.cur = v.cur /\ w.inst = v.inst /\ w.lag = v.lag /\ w.nxt = v.nxt
        /\ w.due = v.due + t[2] /\ w.pc = v.pc /\ w.page = v.page
    BY <1>3, Zenon DEF Post, View
  <2>2. /\ cur' = cur /\ inst' = inst /\ begun' = begun /\ nxt' = nxt /\ owed' = owed + t[2]
    BY <1>3 DEF Mark, Op
  <2> HIDE DEF w
  <2>4. begun' - instret' = w.lag /\ owed' - slept' = w.due
    BY <1>1, <2>0, <2>1, <2>2 DEF Types, Match, Fits
  <2>5. Seen(w.page)'
    BY <1>1, <2>1, Zenon DEF Seen, Match
  <2> QED BY <1>1, <2>1, <2>2, <2>4, <2>5 DEF Match, Fits, w
<1>4. CASE t[1] = "exec"
  <2>1. w = v
    BY <1>4, Zenon DEF Post
  <2>2. /\ cur' = cur /\ inst' = inst /\ begun' = begun /\ nxt' = nxt /\ owed' = owed
    BY <1>4, Zenon DEF Mark, Op
  <2> HIDE DEF w
  <2> QED BY <1>1, <2>1, <2>2 DEF Match, Seen, w
<1> QED BY <1>1, <1>2, <1>3, <1>4, Zenon DEF Mark, Op

LEMMA StepAdjust ==
  ASSUME Types, NEW t \in Host, NEW v \in View, t = code[ip], Match(v), Pre(t, v), Adjust
  PROVE  Match(Post(t, v))' /\ ip' = ip + 1
<1> DEFINE w == Post(t, v)
<1>1. /\ ip' = ip + 1 /\ cur' = cur /\ inst' = inst /\ nxt' = nxt /\ begun' = begun /\ owed' = owed
      /\ line' = line /\ edge' = edge
  BY DEF Adjust, Advance, Running
<1>2. CASE t[1] = "pc"
  <2>0. t[2] \in Int
    BY <1>2, HostFields, Zenon
  <2>1. /\ w.mode = v.mode /\ w.cur = v.cur /\ w.inst = v.inst /\ w.lag = v.lag /\ w.nxt = v.nxt
        /\ w.due = v.due /\ w.pc = v.pc + t[2] /\ w.page = v.page
    BY <1>2, Zenon DEF Post, View
  <2>2. pc' = pc + t[2] /\ instret' = instret /\ slept' = slept
    BY <1>2, Zenon DEF Adjust, Op
  <2>3. v.mode \in {"idle", "in", "taken"}
    BY <1>2, Zenon DEF Pre
  <2> HIDE DEF w
  <2>5. Seen(w.page)'
    BY <1>1, <2>1, Zenon DEF Seen, Match
  <2> QED BY <1>1, <2>1, <2>2, <2>3, <2>5 DEF Match, Fits, w
<1>3. CASE t[1] = "pc_reg"
  <2>1. /\ w.mode = "out" /\ w.cur = v.cur /\ w.inst = v.inst /\ w.lag = v.lag
        /\ w.due = v.due /\ w.page = v.page
    BY <1>3, Zenon DEF Post, View
  <2>2. pc' = nxt /\ instret' = instret /\ slept' = slept
    BY <1>3, Zenon DEF Adjust, Op
  <2>3. v.mode = "in"
    BY <1>3, Zenon DEF Pre
  <2> HIDE DEF w
  <2>5. Seen(w.page)'
    BY <1>1, <2>1, Zenon DEF Seen, Match
  <2> QED BY <1>1, <2>1, <2>2, <2>3, <2>5 DEF Match, Fits, w
<1>4. CASE t[1] = "instret"
  <2>0. t[2] \in Int
    BY <1>4, HostFields
  <2>1. /\ w.mode = v.mode /\ w.cur = v.cur /\ w.inst = v.inst /\ w.lag = v.lag - t[2] /\ w.nxt = v.nxt
        /\ w.due = v.due /\ w.pc = v.pc /\ w.page = v.page
    BY <1>4, Zenon DEF Post, View
  <2>2. pc' = pc /\ instret' = instret + t[2] /\ slept' = slept
    BY <1>4, Zenon DEF Adjust, Op
  <2> HIDE DEF w
  <2>4. begun' - instret' = w.lag /\ owed' - slept' = w.due
    BY <1>1, <2>0, <2>1, <2>2 DEF Types, Match, Fits
  <2>5. Seen(w.page)'
    BY <1>1, <2>1, Zenon DEF Seen, Match
  <2> QED BY <1>1, <2>1, <2>2, <2>4, <2>5 DEF Match, Fits, w
<1>5. CASE t[1] = "sleep"
  <2>0. t[2] \in Int
    BY <1>5, HostFields
  <2>1. /\ w.mode = v.mode /\ w.cur = v.cur /\ w.inst = v.inst /\ w.lag = v.lag /\ w.nxt = v.nxt
        /\ w.due = v.due - t[2] /\ w.pc = v.pc /\ w.page = v.page
    BY <1>5, Zenon DEF Post, View
  <2>2. pc' = pc /\ instret' = instret /\ slept' = slept + t[2]
    BY <1>5, Zenon DEF Adjust, Op
  <2> HIDE DEF w
  <2>4. begun' - instret' = w.lag /\ owed' - slept' = w.due
    BY <1>1, <2>0, <2>1, <2>2 DEF Types, Match, Fits
  <2>5. Seen(w.page)'
    BY <1>1, <2>1, Zenon DEF Seen, Match
  <2> QED BY <1>1, <2>1, <2>2, <2>4, <2>5 DEF Match, Fits, w
<1> QED BY <1>1, <1>2, <1>3, <1>4, <1>5 DEF Adjust, Op

LEMMA StepFetch ==
  ASSUME Types, NEW t \in Host, NEW v \in View, t = code[ip], Match(v), Pre(t, v), Fetch
  PROVE  Match(Post(t, v))' /\ ip' = ip + 1
<1> DEFINE w == Post(t, v)
           g == PageOf(v.pc + t[2])
<1>1. /\ ip' = ip + 1 /\ line' = LineOf(pc + t[2]) /\ t[1] = "fetch"
      /\ UNCHANGED <<pc, instret, cur, inst, nxt, begun, slept, owed>>
  BY DEF Fetch, Advance, Op, Running
<1>2. /\ w.mode = v.mode /\ w.cur = v.cur /\ w.inst = v.inst /\ w.lag = v.lag /\ w.nxt = v.nxt
      /\ w.due = v.due /\ w.pc = v.pc /\ w.page = g
  <2>1. w = [v EXCEPT !.page = g]
    BY <1>1, Zenon DEF Post
  <2> HIDE DEF w, g
  <2> QED BY <2>1, Zenon DEF View
<1>3. v.pc = pc
  BY <1>1, Zenon DEF Pre, Match, Fits
<1>4. PageOf(LineOf(pc + t[2]) * LineSize) = g
  <2>1. pc + t[2] \in Int
    BY <1>1, HostFields DEF Types
  <2> QED BY <1>3, <2>1, LineInPage
<1> HIDE DEF w, g
<1>5. Seen(w.page)'
  BY <1>1, <1>2, <1>4, Zenon DEF Seen
<1>6. Fits(w, pc, nxt, cur, inst, begun - instret, owed - slept)
  BY <1>2, Zenon DEF Match, Fits
<1>7. Fits(w, pc, nxt, cur, inst, begun - instret, owed - slept)'
  BY <1>1, <1>6, Zenon DEF Fits
<1> QED BY <1>1, <1>5, <1>7, Zenon DEF Match, w

LEMMA StepEffect ==
  ASSUME Types, NEW t \in Host, NEW v \in View, t = code[ip], Match(v), Pre(t, v), Effect
  PROVE  Match(Post(t, v))' /\ ip' = ip + 1
<1> DEFINE w == Post(t, v)
<1>1. /\ ip' = ip + 1 /\ t[1] = "effect" /\ pc' = IF inst.k = "sys" /\ Taken THEN nxt ELSE pc
      /\ UNCHANGED <<instret, cur, inst, nxt, begun, slept, owed, line, edge>>
  BY DEF Effect, Advance, Op, Running
<1>2. v.mode = "in" /\ (v.inst.k = "sys" => v.pc = v.cur + v.inst.len)
  BY <1>1, Zenon DEF Pre
<1>3. pc = v.pc /\ inst = v.inst /\ cur = v.cur
  BY <1>2, Zenon DEF Match, Fits
<1>4. CASE inst.k = "sys"
  <2>1. /\ w.mode = "out" /\ w.cur = v.cur /\ w.inst = v.inst /\ w.lag = v.lag
        /\ w.due = v.due /\ w.page = v.page
    BY <1>1, <1>3, <1>4, Zenon DEF Post, View
  <2>2. pc' = nxt'
    BY <1>1, <1>2, <1>3, <1>4, Zenon DEF Taken
  <2> HIDE DEF w
  <2>3. Seen(w.page)'
    BY <1>1, <2>1, Zenon DEF Seen, Match
  <2> QED BY <1>1, <1>2, <2>1, <2>2, <2>3, Zenon DEF Match, Fits, w
<1>5. CASE inst.k # "sys"
  <2>1. /\ w.mode = "in" /\ w.cur = v.cur /\ w.inst = v.inst /\ w.lag = v.lag
        /\ w.due = v.due /\ w.page = v.page /\ w.pc = v.pc
    BY <1>1, <1>2, <1>3, <1>5 DEF Post, View
  <2>2. pc' = pc
    BY <1>1, <1>5, Zenon
  <2> HIDE DEF w
  <2>3. Seen(w.page)'
    BY <1>1, <2>1 DEF Seen, Match
  <2> QED BY <1>1, <1>2, <2>1, <2>2, <2>3, Zenon DEF Match, Fits, w
<1> QED BY <1>4, <1>5, Zenon

LEMMA StepCheck ==
  ASSUME NEW t, NEW v, t = code[ip], Match(v), NoInterrupt
  PROVE  Match(Post(t, v))' /\ ip' = ip + 1
<1>1. /\ ip' = ip + 1 /\ t[1] = "check"
      /\ UNCHANGED <<pc, instret, cur, inst, nxt, begun, slept, owed, line, edge>>
  BY DEF NoInterrupt, Advance, Op, Running
<1>2. Post(t, v) = v
  BY <1>1, Zenon DEF Post
<1>3. Match(v)'
  BY <1>1, Zenon DEF Match, Seen
<1> QED BY <1>1, <1>2, <1>3

\* A conditional jump goes by the successor of the branch.
LEMMA StepJump ==
  ASSUME NEW t, NEW v \in View, t = code[ip], Match(v), Branching(v), Jump
  PROVE  \/ ip' = ip + 1 /\ Match(Fall(t, v))'
         \/ ip' = ip + 1 + t[2] /\ Match(Hop(t, v))'
<1>1. /\ UNCHANGED <<pc, instret, cur, inst, nxt, begun, slept, owed, line, edge>>
      /\ t[1] \in {"jcc", "jcc_not"}
      /\ ip' = ip + 1 + (IF Taken <=> t[1] = "jcc" THEN t[2] ELSE 0)
  BY Zenon DEF Jump, Advance, Op
<1>2. /\ v.mode = "in" /\ v.inst.k = "br" /\ cur = v.cur /\ inst = v.inst /\ pc = v.pc
      /\ nxt \in {cur + inst.len, cur + inst.imm} /\ Seen(v.page)
      /\ begun - instret = v.lag /\ owed - slept = v.due
  BY Zenon DEF Match, Fits, Branching, Successors
<1>3. ASSUME NEW w, w.mode = "idle" \/ (w.mode = "taken" /\ Taken /\ w.cur = v.cur /\ w.inst = v.inst),
             w.mode = "idle" => nxt = w.nxt,
             w.pc = v.pc /\ w.lag = v.lag /\ w.due = v.due /\ w.page = v.page
      PROVE  Match(w)'
  <2>1. Seen(w.page)'
    BY <1>1, <1>2, <1>3 DEF Seen
  <2>2. Fits(w, pc, nxt, cur, inst, begun - instret, owed - slept)
    BY <1>2, <1>3 DEF Fits, Taken, Successors
  <2>3. Fits(w, pc, nxt, cur, inst, begun - instret, owed - slept)'
    BY <1>1, <2>2, Zenon DEF Fits
  <2> QED BY <2>1, <2>3 DEF Match
<1>4. v.cur + v.inst.len \in Int /\ v.cur + v.inst.imm \in Int /\ ip + 1 + 0 = ip + 1
  BY ViewFields DEF Jump, Running
<1>5. CASE t[1] = "jcc" /\ Taken
  <2>1. Hop(t, v) = IdleAt(v, v.cur + v.inst.imm)
    BY <1>5, Zenon DEF Hop
  <2>2. nxt = v.cur + v.inst.imm
    BY <1>2, <1>5 DEF Taken
  <2>3. Match(Hop(t, v))'
    BY <1>3, <1>4, <2>1, <2>2, IdleAtFields
  <2> QED BY <1>1, <1>5, <2>3, Zenon
<1>6. CASE t[1] = "jcc" /\ ~Taken
  <2>1. Fall(t, v) = IdleAt(v, v.cur + v.inst.len)
    BY <1>6, Zenon DEF Fall
  <2>2. nxt = v.cur + v.inst.len
    BY <1>2, <1>6 DEF Taken
  <2>3. Match(Fall(t, v))'
    BY <1>3, <1>4, <2>1, <2>2, IdleAtFields, SMTT(20)
  <2> QED BY <1>1, <1>4, <1>6, <2>3
<1>7. CASE t[1] = "jcc_not" /\ ~Taken
  <2>1. Hop(t, v) = IdleAt(v, v.cur + v.inst.len)
    BY <1>7, Zenon DEF Hop
  <2>2. nxt = v.cur + v.inst.len
    BY <1>2, <1>7 DEF Taken
  <2>3. Match(Hop(t, v))'
    BY <1>3, <1>4, <2>1, <2>2, IdleAtFields, Zenon
  <2> QED BY <1>1, <1>7, <2>3
<1>8. CASE t[1] = "jcc_not" /\ Taken
  <2>1. Fall(t, v) = [v EXCEPT !.mode = "taken"]
    BY <1>8, Zenon DEF Fall
  <2>2. Match(Fall(t, v))'
    BY <1>3, <1>8, <2>1, TakenFields, Zenon
  <2> QED BY <1>1, <1>4, <1>8, <2>2
<1> QED BY <1>1, <1>5, <1>6, <1>7, <1>8

-----------------------------------------------------------------------------
(* Code is put together *)

LEMMA CodeFacts ==
  ASSUME NEW s \in Seq(Host)
  PROVE  Len(s) \in Nat /\ \A n \in 1 .. Len(s) : s[n] \in Host
OBVIOUS

LEMMA CodeAssociative ==
  ASSUME NEW s \in Seq(Host), NEW t \in Seq(Host), NEW r \in Seq(Host)
  PROVE  (s \o t) \o r = s \o (t \o r)
OBVIOUS

LEMMA SubTransitive ==
  ASSUME NEW u, NEW v, NEW w, Sub(u, v), Sub(v, w)
  PROVE  Sub(u, w)
BY Zenon DEF Sub, Follows

LEMMA SubReflexive == \A v : Sub(v, v)
BY Zenon DEF Sub

\* One piece of code after the other.
LEMMA FlowsCompose ==
  ASSUME NEW s \in Seq(Host), NEW t \in Seq(Host), NEW u, NEW v, NEW w,
         Flows(s, u, v), Flows(t, v, w)
  PROVE  Flows(s \o t, u, w)
<1>1. PICK A : Flow(s, A) /\ Sub(u, A[1]) /\ A[Len(s) + 1] = v
  BY Zenon DEF Flows
<1>2. PICK B : Flow(t, B) /\ Sub(v, B[1]) /\ B[Len(t) + 1] = w
  BY Zenon DEF Flows
<1> DEFINE st == s \o t
           l == Len(s)
           C == [n \in 1 .. Len(st) + 1 |-> IF n <= l THEN A[n] ELSE B[n - l]]
<1>3. /\ Len(s) \in Nat /\ Len(t) \in Nat /\ Len(st) = l + Len(t)
      /\ \A n \in 1 .. l : st[n] = s[n]
      /\ \A n \in 1 .. Len(t) : st[l + n] = t[n]
  OBVIOUS
<1>4. /\ A \in [1 .. l + 1 -> View] /\ B \in [1 .. Len(t) + 1 -> View]
      /\ \A n \in 1 .. l : FlowAt(s, A, n)
      /\ \A n \in 1 .. Len(t) : FlowAt(t, B, n)
  BY <1>1, <1>2, Zenon DEF Flow
<1> HIDE DEF st
<1>5. /\ C \in [1 .. Len(st) + 1 -> View]
      /\ \A n \in 1 .. l : C[n] = A[n]
      /\ \A n \in 1 .. Len(t) + 1 : C[l + n] = B[n]
  BY <1>3, <1>4
<1> HIDE DEF C
<1>6. \A n \in 1 .. l + 1 : Sub(A[n], C[n])
  <2>1. C[l + 1] = B[1]
    BY <1>3, <1>5
  <2>2. Sub(A[l + 1], C[l + 1])
    BY <1>1, <1>2, <2>1, Zenon
  <2>3. \A n \in 1 .. l : Sub(A[n], C[n])
    BY <1>5, SubReflexive, Zenon
  <2>4. \A n \in 1 .. l + 1 : n \in 1 .. l \/ n = l + 1
    BY <1>3
  <2> QED BY <2>2, <2>3, <2>4, Zenon
<1>7. ASSUME NEW n \in 1 .. Len(st) PROVE FlowAt(st, C, n)
  <2>1. CASE n \in 1 .. l
    <3>1. FlowAt(s, A, n) /\ st[n] = s[n] /\ C[n] = A[n] /\ Sub(A[n + 1], C[n + 1])
      BY <1>3, <1>4, <1>5, <1>6, <2>1
    <3>2. CASE s[n][1] \in Jumps
      <4>1. /\ Branching(A[n])
            /\ s[n][2] \in Nat /\ n + s[n][2] <= l
            /\ Sub(Fall(s[n], A[n]), A[n + 1])
            /\ Sub(Hop(s[n], A[n]), A[n + 1 + s[n][2]])
        BY <3>1, <3>2, Zenon DEF FlowAt
      <4>2. Sub(A[n + 1 + s[n][2]], C[n + 1 + s[n][2]])
        <5> DEFINE d == s[n][2]
        <5>1. d \in Nat /\ n + d <= l
          BY <4>1, Zenon
        <5> HIDE DEF d
        <5>2. n + 1 + d \in 1 .. l + 1
          BY <5>1, <1>3, <2>1
        <5>3. Sub(A[n + 1 + d], C[n + 1 + d])
          BY <5>2, <1>6, Zenon
        <5> QED BY <5>3, Zenon DEF d
      <4>3. Sub(Fall(s[n], A[n]), C[n + 1]) /\ Sub(Hop(s[n], A[n]), C[n + 1 + s[n][2]])
        BY <3>1, <4>1, <4>2, SubTransitive, Zenon
      <4>4. n + s[n][2] <= Len(st)
        BY <4>1, <1>3, <2>1
      <4> QED BY <3>1, <3>2, <4>1, <4>3, <4>4, Zenon DEF FlowAt
    <3>3. CASE s[n][1] \notin Jumps
      <4>1. Pre(s[n], A[n]) /\ Sub(Post(s[n], A[n]), A[n + 1])
        BY <3>1, <3>3, Zenon DEF FlowAt
      <4>2. Sub(Post(s[n], A[n]), C[n + 1])
        BY <3>1, <4>1, SubTransitive, Zenon
      <4> QED BY <3>1, <3>3, <4>1, <4>2, Zenon DEF FlowAt
    <3> QED BY <3>2, <3>3, Zenon
  <2>2. CASE n \notin 1 .. l
    <3> DEFINE m == n - l
    <3>1. m \in 1 .. Len(t) /\ n = l + m
      BY <1>3, <2>2
    <3> HIDE DEF m
    <3>2. FlowAt(t, B, m) /\ st[n] = t[m] /\ C[n] = B[m] /\ C[n + 1] = B[m + 1]
      <4>1. m \in 1 .. Len(t) + 1 /\ m + 1 \in 1 .. Len(t) + 1 /\ n + 1 = l + (m + 1)
        BY <1>3, <3>1
      <4> QED BY <1>3, <1>4, <1>5, <3>1, <4>1, Zenon
    <3>3. CASE t[m][1] \in Jumps
      <4>1. /\ Branching(B[m])
            /\ t[m][2] \in Nat /\ m + t[m][2] <= Len(t)
            /\ Sub(Fall(t[m], B[m]), B[m + 1])
            /\ Sub(Hop(t[m], B[m]), B[m + 1 + t[m][2]])
        BY <3>2, <3>3, Zenon DEF FlowAt
      <4>2. C[n + 1 + t[m][2]] = B[m + 1 + t[m][2]] /\ n + t[m][2] <= Len(st)
        <5> DEFINE d == t[m][2]
        <5>1. d \in Nat /\ m + d <= Len(t)
          BY <4>1, Zenon
        <5> HIDE DEF d
        <5>2. m + 1 + d \in 1 .. Len(t) + 1 /\ n + 1 + d = l + (m + 1 + d) /\ n + d <= Len(st)
          BY <5>1, <1>3, <3>1
        <5>3. C[n + 1 + d] = B[m + 1 + d]
          BY <5>2, <1>5
        <5> QED BY <5>2, <5>3, Zenon DEF d
      <4> QED BY <3>2, <3>3, <4>1, <4>2, Zenon DEF FlowAt
    <3>4. CASE t[m][1] \notin Jumps
      BY <3>2, <3>4, Zenon DEF FlowAt
    <3> QED BY <3>3, <3>4, Zenon
  <2> QED BY <2>1, <2>2, Zenon
<1>8. Sub(u, C[1])
  BY <1>1, <1>3, <1>6, SubTransitive
<1>9. C[Len(st) + 1] = w
  BY <1>2, <1>3, <1>5, SMTT(20)
<1>10. Flow(st, C)
  BY <1>5, <1>7, Zenon DEF Flow
<1>11. Flows(st, u, w)
  BY <1>8, <1>9, <1>10, Zenon DEF Flows
<1> QED BY <1>11, Zenon DEF st

\* No code.
LEMMA FlowsEmpty ==
  ASSUME NEW v, NEW w \in View, Sub(v, w)
  PROVE  Flows(<<>>, v, w)
<1> DEFINE A == [n \in 1 .. 1 |-> w]
<1>1. A \in [1 .. Len(<<>>) + 1 -> View] /\ A[1] = w /\ A[Len(<<>>) + 1] = w
  OBVIOUS
<1>2. Flow(<<>>, A)
  BY <1>1 DEF Flow
<1> HIDE DEF A
<1> QED BY <1>1, <1>2, Zenon DEF Flows

LEMMA FlowsWeaken ==
  ASSUME NEW s \in Seq(Host), NEW u, NEW v, NEW w \in View, Flows(s, u, v), Sub(v, w)
  PROVE  Flows(s, u, w)
<1>1. Flows(<<>>, v, w)
  BY FlowsEmpty, Zenon
<1>2. s \o <<>> = s /\ <<>> \in Seq(Host)
  OBVIOUS
<1>3. Flows(s \o <<>>, u, w)
  BY <1>1, <1>2, FlowsCompose, Zenon
<1> QED BY <1>2, <1>3, Zenon

\* One instruction that is no jump.
LEMMA FlowsOne ==
  ASSUME NEW t, t[1] \notin Jumps, NEW v \in View, Pre(t, v), Post(t, v) \in View
  PROVE  Flows(<<t>>, v, Post(t, v))
<1> DEFINE s == <<t>>
           w == Post(t, v)
           A == [n \in 1 .. 2 |-> IF n = 1 THEN v ELSE w]
<1>1. Len(s) = 1 /\ s[1] = t
  BY Zenon
<1> HIDE DEF s, w
<1>2. A \in [1 .. Len(s) + 1 -> View] /\ A[1] = v /\ A[2] = w
  BY <1>1 DEF w
<1> HIDE DEF A
<1>3. FlowAt(s, A, 1)
  BY <1>1, <1>2, SubReflexive DEF FlowAt, w
<1>4. Flow(s, A)
  BY <1>1, <1>2, <1>3 DEF Flow
<1>5. Flows(s, v, w)
  BY <1>1, <1>2, <1>4, SubReflexive DEF Flows
<1> QED BY <1>5, Zenon DEF s, w

\* A jump over the code s.
LEMMA FlowsJump ==
  ASSUME NEW s \in Seq(Host), NEW t, t[1] \in Jumps, t[2] = Len(s),
         NEW v \in View, Branching(v), NEW w,
         Flows(s, Fall(t, v), w), Sub(Hop(t, v), w)
  PROVE  Flows(<<t>> \o s, v, w)
<1>1. PICK B : Flow(s, B) /\ Sub(Fall(t, v), B[1]) /\ B[Len(s) + 1] = w
  BY Zenon DEF Flows
<1> DEFINE ts == <<t>> \o s
           l == Len(s)
           C == [n \in 1 .. Len(ts) + 1 |-> IF n = 1 THEN v ELSE B[n - 1]]
<1>2. /\ l \in Nat /\ Len(ts) = l + 1 /\ ts[1] = t
      /\ \A n \in 1 .. l : ts[n + 1] = s[n]
  OBVIOUS
<1>3. /\ B \in [1 .. l + 1 -> View]
      /\ \A n \in 1 .. l : FlowAt(s, B, n)
  BY <1>1, Zenon DEF Flow
<1> HIDE DEF ts
<1>4. /\ C \in [1 .. Len(ts) + 1 -> View] /\ C[1] = v
      /\ \A n \in 1 .. l + 1 : C[n + 1] = B[n]
  BY <1>2, <1>3
<1> HIDE DEF C
<1>5. FlowAt(ts, C, 1)
  <2>1. C[1 + 1] = B[1] /\ C[1 + 1 + t[2]] = B[l + 1] /\ 1 + t[2] <= Len(ts)
    BY <1>2, <1>4
  <2> QED BY <1>1, <1>2, <1>4, <2>1, Zenon DEF FlowAt
<1>6. ASSUME NEW n \in 1 .. l PROVE FlowAt(ts, C, n + 1)
  <2>1. FlowAt(s, B, n) /\ ts[n + 1] = s[n] /\ C[n + 1] = B[n] /\ C[n + 1 + 1] = B[n + 1]
    BY <1>2, <1>3, <1>4
  <2>2. CASE s[n][1] \in Jumps
    <3>1. s[n][2] \in Nat /\ n + s[n][2] <= l
      BY <2>1, <2>2, Zenon DEF FlowAt
    <3>2. C[(n + 1) + 1 + s[n][2]] = B[n + 1 + s[n][2]] /\ (n + 1) + s[n][2] <= Len(ts)
      <4> DEFINE d == s[n][2]
      <4>1. d \in Nat /\ n + d <= l
        BY <3>1, Zenon
      <4> HIDE DEF d
      <4>2. /\ n + 1 + d \in 1 .. l + 1 /\ (n + 1) + 1 + d = (n + 1 + d) + 1
            /\ (n + 1) + d <= Len(ts)
        BY <4>1, <1>2
      <4>3. C[(n + 1) + 1 + d] = B[n + 1 + d]
        BY <4>2, <1>4
      <4> QED BY <4>2, <4>3, Zenon DEF d
    <3> QED BY <2>1, <2>2, <3>2, Zenon DEF FlowAt
  <2>3. CASE s[n][1] \notin Jumps
    BY <2>1, <2>3, Zenon DEF FlowAt
  <2> QED BY <2>2, <2>3, Zenon
<1>7. ASSUME NEW n \in 1 .. Len(ts) PROVE FlowAt(ts, C, n)
  <2>1. CASE n = 1
    BY <1>5, <2>1, Zenon
  <2>2. CASE n # 1
    <3>1. n - 1 \in 1 .. l /\ (n - 1) + 1 = n
      BY <1>2, <2>2
    <3> QED BY <3>1, <1>6, Zenon
  <2> QED BY <2>1, <2>2, Zenon
<1>8. Flow(ts, C)
  BY <1>4, <1>7, Zenon DEF Flow
<1>9. C[Len(ts) + 1] = w
  BY <1>1, <1>2, <1>4
<1> QED BY <1>4, <1>8, <1>9, SubReflexive, Zenon DEF Flows, ts
-----------------------------------------------------------------------------
(* Emission *)

LEMMA CompilerFields ==
  ASSUME NEW c \in Compiler
  PROVE  /\ c.pc_start \in Int /\ c.pc_cur \in Int /\ c.pc_end \in Int /\ c.instret \in Int
         /\ c.cycles \in Nat /\ c.stall \in BOOLEAN /\ c.code \in Seq(Host)
BY Zenon DEF Compiler

LEMMA FlowsAppend ==
  ASSUME NEW s \in Seq(Host), NEW t \in Host, t[1] \notin Jumps,
         NEW u, NEW v \in View, Flows(s, u, v), Pre(t, v), Post(t, v) \in View
  PROVE  Append(s, t) \in Seq(Host) /\ Flows(Append(s, t), u, Post(t, v))
<1>1. Flows(<<t>>, v, Post(t, v))
  BY FlowsOne, Zenon
<1>2. <<t>> \in Seq(Host) /\ Append(s, t) = s \o <<t>> /\ Append(s, t) \in Seq(Host)
  OBVIOUS
<1>3. Flows(s \o <<t>>, u, Post(t, v))
  BY <1>1, <1>2, FlowsCompose, Zenon
<1> QED BY <1>2, <1>3, Zenon

LEMMA EmitFields ==
  ASSUME NEW c \in Compiler, NEW t \in Host
  PROVE  /\ emit(c, t) \in Compiler /\ Kept(c, emit(c, t))
         /\ emit(c, t).cycles = c.cycles /\ emit(c, t).code = Append(c.code, t)
BY SMTT(20) DEF Compiler, emit, Kept

LEMMA Emit ==
  ASSUME NEW c, NEW u, NEW v, Gen(c, u, v), NEW t \in Host, t[1] \notin Jumps,
         Pre(t, v), NEW w \in View, w = Post(t, v), w.due = v.due
  PROVE  /\ Gen(emit(c, t), u, w) /\ Kept(c, emit(c, t))
         /\ emit(c, t).cycles = c.cycles
<1>1. c \in Compiler /\ v \in View /\ Flows(c.code, u, v) /\ v.due = c.cycles
  BY Zenon DEF Gen
<1>2. c.code \in Seq(Host)
  BY <1>1, CompilerFields, Zenon
<1>3. Flows(Append(c.code, t), u, w)
  BY <1>1, <1>2, FlowsAppend, Zenon
<1> QED BY <1>1, <1>3, EmitFields, Zenon DEF Gen

LEMMA EmitAt ==
  ASSUME NEW c, NEW u, NEW v, Gen(c, u, v), NEW a \in Int, NEW i \in Insn, Follows(v, a)
  PROVE  LET d == emit(c, <<"at", a, i>>)
         IN  /\ Kept(c, d) /\ d.cycles = c.cycles
             /\ \E w : /\ Gen(d, u, w) /\ w.mode = "in" /\ w.cur = a /\ w.inst = i
                       /\ w.pc = v.pc /\ w.lag = v.lag + 1 /\ w.page = v.page
<1> DEFINE t == <<"at", a, i>>
           w1 == [v EXCEPT !.lag = @ + 1]
           w == [v EXCEPT !.mode = "in", !.cur = a, !.inst = i, !.lag = @ + 1]
<1>1. v \in View
  BY Zenon DEF Gen
<1>2. t \in Host /\ t[1] \notin Jumps
  BY Zenon DEF Host, Jumps
<1>3. /\ w \in View /\ w.due = v.due /\ w.mode = "in" /\ w.cur = a /\ w.inst = i
      /\ w.pc = v.pc /\ w.lag = v.lag + 1 /\ w.page = v.page
  <2>1. /\ w1 \in View /\ w1.due = v.due /\ w1.pc = v.pc
        /\ w1.lag = v.lag + 1 /\ w1.page = v.page
    BY <1>1 DEF View
  <2>2. w = [w1 EXCEPT !.mode = "in", !.cur = a, !.inst = i]
    BY <1>1, Zenon DEF View
  <2> HIDE DEF w1, w
  <2> QED BY <2>1, <2>2, Zenon DEF View
<1>4. w = Post(t, v)
  BY Zenon DEF Post
<1>5. Pre(t, v)
  BY Zenon DEF Pre
<1> HIDE DEF t, w
<1>6. Gen(emit(c, t), u, w) /\ Kept(c, emit(c, t)) /\ emit(c, t).cycles = c.cycles
  BY <1>2, <1>3, <1>4, <1>5, Emit, Zenon
<1> QED BY <1>3, <1>6, Zenon DEF t

LEMMA EmitExec ==
  ASSUME NEW c, NEW u, NEW v, Gen(c, u, v),
         v.mode = "in", v.page = PageOf(v.cur + v.inst.len - 1)
  PROVE  LET d == Fetched(c)
         IN  Kept(c, d) /\ d.cycles = c.cycles /\ Gen(d, u, v)
<1> DEFINE t == <<"exec">>
<1>1. v \in View
  BY Zenon DEF Gen
<1>2. t \in Host /\ t[1] \notin Jumps
  BY Zenon DEF Host, Jumps
<1>3. v = Post(t, v)
  BY Zenon DEF Post
<1>4. Pre(t, v)
  BY Zenon DEF Pre
<1> HIDE DEF t
<1>5. Gen(emit(c, t), u, v) /\ Kept(c, emit(c, t)) /\ emit(c, t).cycles = c.cycles
  BY <1>1, <1>2, <1>3, <1>4, Emit, Zenon
<1> QED BY <1>5, Zenon DEF t, Fetched

LEMMA EmitPc ==
  ASSUME NEW c, NEW u, NEW v, Gen(c, u, v), NEW n \in Int, v.mode \in {"idle", "in", "taken"}
  PROVE  LET d == emit(c, <<"pc", n>>)
         IN  /\ Kept(c, d) /\ d.cycles = c.cycles
             /\ \E w : Gen(d, u, w) /\ Near(v, w) /\ w.pc = v.pc + n /\ w.lag = v.lag
<1> DEFINE t == <<"pc", n>>
           w == [v EXCEPT !.pc = @ + n]
<1>1. v \in View
  BY Zenon DEF Gen
<1>2. t \in Host /\ t[1] \notin Jumps
  BY Zenon DEF Host, Jumps
<1>3. w \in View /\ w.due = v.due /\ Near(v, w) /\ w.pc = v.pc + n /\ w.lag = v.lag
  BY <1>1 DEF View, Near
<1>4. w = Post(t, v)
  BY Zenon DEF Post
<1>5. Pre(t, v)
  BY Zenon DEF Pre
<1> HIDE DEF t, w
<1>6. Gen(emit(c, t), u, w) /\ Kept(c, emit(c, t)) /\ emit(c, t).cycles = c.cycles
  BY <1>2, <1>3, <1>4, <1>5, Emit, Zenon
<1> QED BY <1>3, <1>6, Zenon DEF t

LEMMA EmitInstret ==
  ASSUME NEW c, NEW u, NEW v, Gen(c, u, v), NEW n \in Int
  PROVE  LET d == emit(c, <<"instret", n>>)
         IN  /\ Kept(c, d) /\ d.cycles = c.cycles
             /\ \E w : Gen(d, u, w) /\ Near(v, w) /\ w.pc = v.pc /\ w.lag = v.lag - n
<1> DEFINE t == <<"instret", n>>
           w == [v EXCEPT !.lag = @ - n]
<1>1. v \in View
  BY Zenon DEF Gen
<1>2. t \in Host /\ t[1] \notin Jumps
  BY Zenon DEF Host, Jumps
<1>3. w \in View /\ w.due = v.due /\ Near(v, w) /\ w.pc = v.pc /\ w.lag = v.lag - n
  BY <1>1 DEF View, Near
<1>4. w = Post(t, v)
  BY Zenon DEF Post
<1>5. Pre(t, v)
  BY Zenon DEF Pre
<1> HIDE DEF t, w
<1>6. Gen(emit(c, t), u, w) /\ Kept(c, emit(c, t)) /\ emit(c, t).cycles = c.cycles
  BY <1>2, <1>3, <1>4, <1>5, Emit, Zenon
<1> QED BY <1>3, <1>6, Zenon DEF t

LEMMA EmitPcReg ==
  ASSUME NEW c, NEW u, NEW v, Gen(c, u, v), v.mode = "in"
  PROVE  LET d == emit(c, <<"pc_reg">>)
         IN  /\ Kept(c, d) /\ d.cycles = c.cycles
             /\ \E w : Gen(d, u, w) /\ w.mode = "out" /\ w.lag = v.lag
<1> DEFINE t == <<"pc_reg">>
           w == [v EXCEPT !.mode = "out"]
<1>1. v \in View
  BY Zenon DEF Gen
<1>2. t \in Host /\ t[1] \notin Jumps
  BY Zenon DEF Host, Jumps
<1>3. w \in View /\ w.due = v.due /\ w.mode = "out" /\ w.lag = v.lag
  BY <1>1, Zenon DEF View
<1>4. w = Post(t, v)
  BY Zenon DEF Post
<1>5. Pre(t, v)
  BY Zenon DEF Pre
<1> HIDE DEF t, w
<1>6. Gen(emit(c, t), u, w) /\ Kept(c, emit(c, t)) /\ emit(c, t).cycles = c.cycles
  BY <1>2, <1>3, <1>4, <1>5, Emit, Zenon
<1> QED BY <1>3, <1>6, Zenon DEF t

\* The block ends: nothing that follows in the code is run.
LEMMA EmitTail ==
  ASSUME NEW c, NEW u, NEW v, Gen(c, u, v), Settled(v)
  PROVE  LET d == emit_chain_tail(c)
         IN  /\ Kept(c, d) /\ d.cycles = c.cycles
             /\ \E w : Gen(d, u, w) /\ w.mode = "dead"
<1> DEFINE t == <<"tail">>
           w == [v EXCEPT !.mode = "dead"]
<1>1. v \in View
  BY Zenon DEF Gen
<1>2. t \in Host /\ t[1] \notin Jumps
  BY Zenon DEF Host, Jumps
<1>3. w \in View /\ w.due = v.due /\ w.mode = "dead"
  BY <1>1, Zenon DEF View
<1>4. w = Post(t, v)
  BY Zenon DEF Post
<1>5. Pre(t, v)
  BY Zenon DEF Pre
<1> HIDE DEF t, w
<1>6. Gen(emit(c, t), u, w) /\ Kept(c, emit(c, t)) /\ emit(c, t).cycles = c.cycles
  BY <1>2, <1>3, <1>4, <1>5, Emit, Zenon
<1> QED BY <1>3, <1>6, Zenon DEF t, emit_chain_tail

LEMMA EmitDirect ==
  ASSUME NEW c, NEW u, NEW v, Gen(c, u, v), Settled(v), v.mode # "out",
         \/ v.page = PageOf(v.pc)
         \/ v.mode = "in" /\ v.inst.k = "jal" /\ (v.cur + v.inst.len) % LineSize = 0
  PROVE  LET d == emit_direct_jump(c)
         IN  /\ Kept(c, d) /\ d.cycles = c.cycles
             /\ \E w : Gen(d, u, w) /\ w.mode = "dead"
<1> DEFINE t == <<"direct">>
           w == [v EXCEPT !.mode = "dead"]
<1>1. v \in View
  BY Zenon DEF Gen
<1>2. t \in Host /\ t[1] \notin Jumps
  BY Zenon DEF Host, Jumps
<1>3. w \in View /\ w.due = v.due /\ w.mode = "dead"
  BY <1>1, Zenon DEF View
<1>4. w = Post(t, v)
  BY Zenon DEF Post
<1>5. Pre(t, v)
  BY Zenon DEF Pre
<1> HIDE DEF t, w
<1>6. Gen(emit(c, t), u, w) /\ Kept(c, emit(c, t)) /\ emit(c, t).cycles = c.cycles
  BY <1>2, <1>3, <1>4, <1>5, Emit, Zenon
<1> QED BY <1>3, <1>6, Zenon DEF t, emit_direct_jump
\* The cycles counted so far are slept for.
LEMMA EmitSleep ==
  ASSUME NEW c, NEW u, NEW v, Gen(c, u, v)
  PROVE  LET d == before_side_effect(c)
         IN  /\ Kept(c, d) /\ d.cycles = 0
             /\ \E w : Gen(d, u, w) /\ Like(v, w)
<1>1. c \in Compiler /\ v \in View /\ Flows(c.code, u, v) /\ v.due = c.cycles
  BY Zenon DEF Gen
<1>2. CASE c.cycles = 0
  <2>1. before_side_effect(c) = c
    BY <1>2, Zenon DEF before_side_effect
  <2>2. Kept(c, c) /\ Like(v, v)
    BY Zenon DEF Kept, Like, Near
  <2> QED BY <1>2, <2>1, <2>2, Zenon
<1>3. CASE c.cycles # 0
  <2> DEFINE t == <<"sleep", c.cycles>>
             b == [c EXCEPT !.cycles = 0]
             d == emit(b, t)
             w == [v EXCEPT !.due = @ - c.cycles]
  <2>1. before_side_effect(c) = d
    BY <1>3, Zenon DEF before_side_effect
  <2>2. b \in Compiler /\ Kept(c, b) /\ b.cycles = 0 /\ b.code = c.code
    BY <1>1, Zenon DEF Compiler, Kept
  <2>3. t \in Host /\ t[1] \notin Jumps
    BY <1>1, CompilerFields DEF Host, Jumps
  <2>4. w \in View /\ w.due = 0 /\ Like(v, w)
    <3> DEFINE n == c.cycles
    <3>1. n \in Nat /\ v.due = n
      BY <1>1, CompilerFields, Zenon
    <3> HIDE DEF n
    <3>2. LET x == [v EXCEPT !.due = @ - n] IN x \in View /\ x.due = 0 /\ Like(v, x)
      BY <1>1, <3>1 DEF View, Like, Near
    <3> QED BY <3>2, Zenon DEF n
  <2>5. w = Post(t, v) /\ Pre(t, v)
    BY Zenon DEF Post, Pre
  <2> HIDE DEF t, b, w
  <2>6. b.code \in Seq(Host)
    BY <2>2, CompilerFields, Zenon
  <2>7. Flows(Append(b.code, t), u, w)
    BY <1>1, <2>2, <2>3, <2>4, <2>5, <2>6, FlowsAppend, Zenon
  <2>8. d \in Compiler /\ Kept(b, d) /\ d.cycles = 0 /\ d.code = Append(b.code, t)
    BY <2>2, <2>3, EmitFields, Zenon
  <2> HIDE DEF d
  <2>9. Gen(d, u, w)
    BY <2>4, <2>7, <2>8, Zenon DEF Gen
  <2>10. Kept(c, d)
    BY <2>2, <2>8, Zenon DEF Kept
  <2> QED BY <2>1, <2>4, <2>8, <2>9, <2>10, Zenon
<1> QED BY <1>2, <1>3, Zenon

\* The pipeline model charges n cycles.
LEMMA EmitOwe ==
  ASSUME NEW c, NEW u, NEW v, Gen(c, u, v), NEW n \in Nat
  PROVE  LET d == insert_cycle_count(c, n)
         IN  Kept(c, d) /\ \E w : Gen(d, u, w) /\ Like(v, w)
<1>1. c \in Compiler /\ v \in View /\ Flows(c.code, u, v) /\ v.due = c.cycles
  BY Zenon DEF Gen
<1>2. CASE n = 0
  <2>1. insert_cycle_count(c, n) = c
    BY <1>2, Zenon DEF insert_cycle_count
  <2>2. Kept(c, c) /\ Like(v, v)
    BY Zenon DEF Kept, Like, Near
  <2> QED BY <2>1, <2>2, Zenon
<1>3. CASE n # 0
  <2> DEFINE t == <<"owe", n>>
             b == [c EXCEPT !.cycles = @ + n]
             d == emit(b, t)
             w == [v EXCEPT !.due = @ + n]
  <2>1. insert_cycle_count(c, n) = d
    BY <1>3, Zenon DEF insert_cycle_count
  <2>2. b \in Compiler /\ Kept(c, b) /\ b.cycles = c.cycles + n /\ b.code = c.code
    BY <1>1 DEF Compiler, Kept
  <2>3. t \in Host /\ t[1] \notin Jumps
    BY DEF Host, Jumps
  <2>4. w \in View /\ w.due = b.cycles /\ Like(v, w)
    BY <1>1, <2>2 DEF View, Like, Near
  <2>5. w = Post(t, v) /\ Pre(t, v)
    BY Zenon DEF Post, Pre
  <2> HIDE DEF t, b, w
  <2>6. b.code \in Seq(Host)
    BY <2>2, CompilerFields, Zenon
  <2>7. Flows(Append(b.code, t), u, w)
    BY <1>1, <2>2, <2>3, <2>4, <2>5, <2>6, FlowsAppend, Zenon
  <2>8. d \in Compiler /\ Kept(b, d) /\ d.cycles = b.cycles /\ d.code = Append(b.code, t)
    BY <2>2, <2>3, EmitFields, Zenon
  <2> HIDE DEF d
  <2>9. Gen(d, u, w)
    BY <2>4, <2>7, <2>8, Zenon DEF Gen
  <2>10. Kept(c, d)
    BY <2>2, <2>8, Zenon DEF Kept
  <2> QED BY <2>1, <2>4, <2>9, <2>10, Zenon
<1> QED BY <1>2, <1>3, Zenon

\* What only the in-order model remembers.
LEMMA SetStall ==
  ASSUME NEW c, NEW u, NEW v, Gen(c, u, v), NEW x \in BOOLEAN
  PROVE  LET d == [c EXCEPT !.stall = x] IN Kept(c, d) /\ Gen(d, u, v)
<1>1. c \in Compiler
  BY Zenon DEF Gen
<1> DEFINE d == [c EXCEPT !.stall = x]
<1>2. d \in Compiler /\ Kept(c, d) /\ d.cycles = c.cycles /\ d.code = c.code
  BY <1>1, Zenon DEF Compiler, Kept
<1> HIDE DEF d
<1>3. Gen(d, u, v)
  BY <1>2, Zenon DEF Gen
<1> QED BY <1>2, <1>3, Zenon DEF d

\* The hooks of the pipeline models charge cycles and do nothing else.
Charged(c, d, u, v) == Kept(c, d) /\ \E w : Gen(d, u, w) /\ Like(v, w)

LEMMA ChargedStall ==
  ASSUME NEW c, NEW u, NEW v, NEW d, Charged(c, d, u, v), NEW x \in BOOLEAN
  PROVE  Charged(c, [d EXCEPT !.stall = x], u, v)
<1>1. PICK w : Gen(d, u, w) /\ Like(v, w)
  BY Zenon DEF Charged
<1> DEFINE e == [d EXCEPT !.stall = x]
<1>2. Kept(d, e) /\ Gen(e, u, w)
  BY <1>1, SetStall, Zenon
<1> HIDE DEF e
<1>3. Kept(c, e)
  BY <1>2, Zenon DEF Kept, Charged
<1>4. Charged(c, e, u, v)
  BY <1>1, <1>2, <1>3, Zenon DEF Charged
<1> QED BY <1>4, Zenon DEF e

LEMMA ChargedOwe ==
  ASSUME NEW c, NEW u, NEW v, Gen(c, u, v), NEW n \in Nat
  PROVE  Charged(c, insert_cycle_count(c, n), u, v)
BY EmitOwe, Zenon DEF Charged

LEMMA BeginBlock ==
  ASSUME NEW c, NEW u, NEW v, Gen(c, u, v), NEW a
  PROVE  Charged(c, begin_block(c, a), u, v)
<1> DEFINE n == IF model = "inorder" /\ a % 2 # 0 THEN 1 ELSE 0
<1>1. n \in Nat
  BY Zenon
<1> HIDE DEF n
<1>2. Charged(c, insert_cycle_count(c, n), u, v)
  BY <1>1, ChargedOwe, Zenon
<1> QED BY <1>2, Zenon DEF n, begin_block

LEMMA BeforeInstruction ==
  ASSUME NEW c, NEW u, NEW v, Gen(c, u, v), NEW i
  PROVE  Charged(c, before_instruction(c, i), u, v)
<1> DEFINE n == IF model = "inorder" /\ c.stall /\ i.dep THEN 1 ELSE 0
           d == insert_cycle_count(c, n)
<1>1. n \in Nat
  BY Zenon
<1> HIDE DEF n
<1>2. Charged(c, d, u, v)
  BY <1>1, ChargedOwe, Zenon
<1> HIDE DEF d
<1>3. Charged(c, [d EXCEPT !.stall = FALSE], u, v)
  BY <1>2, ChargedStall, Zenon
<1>4. before_instruction(c, i) = [d EXCEPT !.stall = FALSE]
  BY Zenon DEF before_instruction, d, n
<1> QED BY <1>3, <1>4, Zenon

LEMMA CostNat == \A i \in Insn : in_order_cost(i) \in Nat
BY Zenon DEF in_order_cost, Insn

LEMMA AfterInstruction ==
  ASSUME NEW c, NEW u, NEW v, Gen(c, u, v), NEW i \in Insn, model \in Models
  PROVE  Charged(c, after_instruction(c, i), u, v)
<1>1. model \in {"atomic", "simple", "inorder"}
  BY ModelAssumption, Zenon
<1>2. CASE model = "atomic"
  <2>1. after_instruction(c, i) = c
    BY <1>2, Zenon DEF after_instruction
  <2> QED BY <2>1, Zenon DEF Charged, Kept, Like, Near
<1>3. CASE model = "simple"
  <2>1. after_instruction(c, i) = insert_cycle_count(c, 1)
    BY <1>3, Zenon DEF after_instruction
  <2> QED BY <2>1, ChargedOwe, Zenon
<1>4. CASE model = "inorder"
  <2> DEFINE d == insert_cycle_count(c, in_order_cost(i))
             x == i.k \in {"mem", "mul"}
  <2>1. after_instruction(c, i) = [d EXCEPT !.stall = x]
    BY <1>4, Zenon DEF after_instruction
  <2>2. Charged(c, d, u, v)
    BY CostNat, ChargedOwe, Zenon
  <2>3. x \in BOOLEAN
    OBVIOUS
  <2> HIDE DEF d, x
  <2> QED BY <2>1, <2>2, <2>3, ChargedStall
<1> QED BY <1>1, <1>2, <1>3, <1>4, Zenon

LEMMA AfterTakenBranch ==
  ASSUME NEW c, NEW u, NEW v, Gen(c, u, v), NEW i \in Insn, model \in Models
  PROVE  Charged(c, after_taken_branch(c, i), u, v)
<1> DEFINE n == CASE model = "atomic"  -> 0
                  [] model = "simple"  -> 1
                  [] model = "inorder" -> IF i.imm < 0 THEN 1 ELSE 4
<1>1. model \in {"atomic", "simple", "inorder"}
  BY ModelAssumption, Zenon
<1>2. n \in Nat
  BY <1>1, Zenon
<1> HIDE DEF n
<1>3. Charged(c, insert_cycle_count(c, n), u, v)
  BY <1>2, ChargedOwe, Zenon
<1> QED BY <1>3, Zenon DEF n, after_taken_branch

LEMMA EmitFetch ==
  ASSUME NEW c, NEW u, NEW v, Gen(c, u, v), NEW off \in Int,
         \/ v.mode = "in" /\ v.pc + c.pc_cur = v.cur /\ v.lag = c.instret + 1
         \/ v.mode = "taken" /\ v.pc + c.pc_cur = v.cur + v.inst.imm /\ v.lag = c.instret
  PROVE  LET d == emit_icache_access(c, off)
         IN  /\ Kept(c, d) /\ d.cycles = 0
             /\ \E w : /\ Gen(d, u, w) /\ w.mode = v.mode /\ w.cur = v.cur /\ w.inst = v.inst
                       /\ w.pc = v.pc /\ w.lag = v.lag /\ w.page = PageOf(v.pc + off)
<1> DEFINE b == before_side_effect(c)
           t == <<"fetch", off, c.pc_cur, c.instret>>
<1>1. emit_icache_access(c, off) = emit(b, t)
  BY Zenon DEF emit_icache_access
<1>2. PICK x : Gen(b, u, x) /\ Like(v, x)
  BY EmitSleep, Zenon
<1>3. Kept(c, b) /\ b.cycles = 0
  BY EmitSleep, Zenon
<1> HIDE DEF b
<1> DEFINE w == [x EXCEPT !.page = PageOf(x.pc + off)]
<1>4. x \in View /\ x.due = 0 /\ c \in Compiler
  BY <1>2, <1>3, Zenon DEF Gen
<1>5. t \in Host /\ t[1] \notin Jumps
  BY <1>4, CompilerFields, Zenon DEF Host, Jumps
<1>6. PageOf(x.pc + off) \in Int
  BY <1>4, ViewFields, SizeAssumption, DivBounds DEF PageOf
<1>7. /\ w \in View /\ w.due = x.due /\ w.mode = x.mode /\ w.cur = x.cur /\ w.inst = x.inst
      /\ w.pc = x.pc /\ w.lag = x.lag /\ w.page = PageOf(x.pc + off)
  BY <1>4, <1>6, Zenon DEF View
<1>8. w = Post(t, x)
  BY Zenon DEF Post
<1>9. Pre(t, x)
  BY <1>2, <1>4, Zenon DEF Pre, Like, Near
<1> HIDE DEF t, w
<1>10. Gen(emit(b, t), u, w) /\ Kept(b, emit(b, t)) /\ emit(b, t).cycles = b.cycles
  BY <1>2, <1>5, <1>7, <1>8, <1>9, Emit, Zenon
<1>11. Kept(c, emit(b, t))
  BY <1>3, <1>10, Zenon DEF Kept
<1> QED BY <1>1, <1>2, <1>3, <1>7, <1>10, <1>11, Zenon DEF Like, Near

LEMMA EmitStepCall ==
  ASSUME NEW c, NEW u, NEW v, Gen(c, u, v), v.mode = "in",
         v.pc + c.pc_cur = v.cur, v.lag = c.instret + 1,
         v.inst.k = "sys" => v.pc = v.cur + v.inst.len
  PROVE  LET d == emit_step_call(c)
         IN  /\ Kept(c, d) /\ d.cycles = 0
             /\ \E w : /\ Gen(d, u, w) /\ w.lag = v.lag
                       /\ IF v.inst.k = "sys" THEN w.mode = "out" ELSE Like(v, w)
<1> DEFINE b == before_side_effect(c)
           t == <<"effect", c.pc_cur, c.instret>>
<1>1. emit_step_call(c) = emit(b, t)
  BY Zenon DEF emit_step_call
<1>2. PICK x : Gen(b, u, x) /\ Like(v, x)
  BY EmitSleep, Zenon
<1>3. Kept(c, b) /\ b.cycles = 0
  BY EmitSleep, Zenon
<1> HIDE DEF b
<1> DEFINE m == IF x.inst.k = "sys" THEN "out" ELSE x.mode
           w == [x EXCEPT !.mode = m]
<1>4. x \in View /\ x.due = 0 /\ c \in Compiler
  BY <1>2, <1>3, Zenon DEF Gen
<1>5. t \in Host /\ t[1] \notin Jumps
  BY <1>4, CompilerFields, Zenon DEF Host, Jumps
<1>6. m \in {"idle", "in", "taken", "out", "dead"}
  BY <1>4, ViewFields, Zenon
<1>7. w = Post(t, x)
  BY <1>4, Zenon DEF Post, View
<1> HIDE DEF m
<1>8. /\ w \in View /\ w.due = x.due /\ w.mode = m /\ w.cur = x.cur /\ w.inst = x.inst
      /\ w.pc = x.pc /\ w.nxt = x.nxt /\ w.lag = x.lag /\ w.page = x.page
  BY <1>4, <1>6, Zenon DEF View
<1>9. Pre(t, x)
  BY <1>2, <1>4, Zenon DEF Pre, Like, Near
<1> HIDE DEF t, w
<1>10. Gen(emit(b, t), u, w) /\ Kept(b, emit(b, t)) /\ emit(b, t).cycles = b.cycles
  BY <1>2, <1>5, <1>7, <1>8, <1>9, Emit, Zenon
<1>11. Kept(c, emit(b, t))
  BY <1>3, <1>10, Zenon DEF Kept
<1>12. IF v.inst.k = "sys" THEN w.mode = "out" ELSE Like(v, w)
  BY <1>2, <1>8, Zenon DEF Like, Near, m
<1>13. w.lag = v.lag
  BY <1>2, <1>8, Zenon DEF Like
<1> QED BY <1>1, <1>3, <1>10, <1>11, <1>12, <1>13, Zenon

\* After an interrupt check the block may be left.
LEMMA EmitCheck ==
  ASSUME NEW c, NEW u, NEW v, Gen(c, u, v), v.lag = 0, v.mode = "out" \/ Follows(v, v.pc)
  PROVE  LET d == emit_interrupt_check(c)
         IN  /\ Kept(c, d) /\ d.cycles = 0
             /\ \E w : Gen(d, u, w) /\ Like(v, w) /\ Settled(w)
<1> DEFINE b == before_side_effect(c)
           t == <<"check">>
<1>1. emit_interrupt_check(c) = emit(b, t)
  BY Zenon DEF emit_interrupt_check
<1>2. PICK w : Gen(b, u, w) /\ Like(v, w)
  BY EmitSleep, Zenon
<1>3. Kept(c, b) /\ b.cycles = 0
  BY EmitSleep, Zenon
<1> HIDE DEF b
<1>4. w \in View /\ w.due = 0
  BY <1>2, <1>3, Zenon DEF Gen
<1>5. t \in Host /\ t[1] \notin Jumps
  BY Zenon DEF Host, Jumps
<1>6. Settled(w)
  BY <1>2, <1>4, Zenon DEF Settled, Follows, Like, Near
<1>7. w = Post(t, w) /\ Pre(t, w)
  BY <1>6, Zenon DEF Post, Pre
<1> HIDE DEF t
<1>8. Gen(emit(b, t), u, w) /\ Kept(b, emit(b, t)) /\ emit(b, t).cycles = b.cycles
  BY <1>2, <1>4, <1>5, <1>7, Emit, Zenon
<1>9. Kept(c, emit(b, t))
  BY <1>3, <1>8, Zenon DEF Kept
<1> QED BY <1>1, <1>2, <1>3, <1>6, <1>8, <1>9, Zenon
-----------------------------------------------------------------------------
(* One instruction *)

\* The instruction i is being compiled.
Body(c, v, i) ==
  /\ v.mode = "in" /\ v.inst = i /\ v.cur = c.pc_start + c.pc_cur
  /\ v.pc = c.pc_start /\ v.lag = c.instret + 1
  /\ c.pc_start + c.pc_end = v.cur + i.len
  /\ v.page = PageOf(v.cur + i.len - 1)

\* It has been, and the next one follows.
Passed(v, w) == /\ Follows(w, v.cur + v.inst.len)
                /\ w.pc = v.pc /\ w.lag = v.lag /\ w.page = v.page

LEMMA PreInstret ==
  ASSUME NEW c, NEW u, NEW v, Gen(c, u, v), v.lag = c.instret + 1
  PROVE  LET d == pre_adjust_instret(c)
         IN  /\ Kept(c, d) /\ d.cycles = c.cycles
             /\ \E w : Gen(d, u, w) /\ Near(v, w) /\ w.pc = v.pc /\ w.lag = 0
<1> DEFINE n == c.instret + 1
<1>1. n \in Int /\ v.lag = n
  BY CompilerFields DEF Gen
<1> HIDE DEF n
<1>2. LET d == emit(c, <<"instret", n>>)
      IN  /\ Kept(c, d) /\ d.cycles = c.cycles
          /\ \E w : Gen(d, u, w) /\ Near(v, w) /\ w.pc = v.pc /\ w.lag = v.lag - n
  BY <1>1, EmitInstret
<1>3. v.lag - n = 0
  BY <1>1
<1> QED BY <1>2, <1>3, Zenon DEF n, pre_adjust_instret

LEMMA PrePcInstret ==
  ASSUME NEW c, NEW u, NEW v, Gen(c, u, v), v.lag = c.instret + 1, v.mode = "in",
         NEW i \in Insn
  PROVE  LET d == pre_adjust_pc_instret(c, i)
         IN  /\ Kept(c, d) /\ d.cycles = c.cycles
             /\ \E w : Gen(d, u, w) /\ Near(v, w) /\ w.pc = v.pc + (c.pc_cur + i.len) /\ w.lag = 0
<1> DEFINE n == c.pc_cur + i.len
           b == emit(c, <<"pc", n>>)
<1>1. n \in Int
  BY CompilerFields DEF Gen, Insn
<1> HIDE DEF n
<1>2. Kept(c, b) /\ b.cycles = c.cycles
  BY <1>1, EmitPc, Zenon
<1>3. PICK x : Gen(b, u, x) /\ Near(v, x) /\ x.pc = v.pc + n /\ x.lag = v.lag
  BY <1>1, EmitPc
<1> HIDE DEF b
<1>4. x.lag = b.instret + 1
  BY <1>2, <1>3, Zenon DEF Kept
<1> DEFINE d == pre_adjust_instret(b)
<1>5. /\ Kept(b, d) /\ d.cycles = b.cycles
      /\ \E w : Gen(d, u, w) /\ Near(x, w) /\ w.pc = x.pc /\ w.lag = 0
  BY <1>3, <1>4, PreInstret, Zenon
<1>6. d = pre_adjust_pc_instret(c, i)
  BY Zenon DEF pre_adjust_pc_instret, b, n
<1> HIDE DEF d
<1>7. Kept(c, d) /\ d.cycles = c.cycles
  BY <1>2, <1>5, Zenon DEF Kept
<1>8. \E w : Gen(d, u, w) /\ Near(v, w) /\ w.pc = v.pc + n /\ w.lag = 0
  BY <1>3, <1>5, Zenon DEF Near
<1> QED BY <1>6, <1>7, <1>8, Zenon DEF n

\* emit_jalr: the pc comes from a register.
LEMMA EmitJalr ==
  ASSUME NEW c, NEW u, NEW v, Gen(c, u, v), NEW i \in Insn, Body(c, v, i), model \in Models
  PROVE  LET d == emit_jalr(c, i)
         IN  Kept(c, d) /\ \E w : Gen(d, u, w) /\ w.mode = "dead"
<1> DEFINE c1 == pre_adjust_instret(c)
           c2 == emit(c1, <<"pc_reg">>)
           c3 == after_instruction(c2, i)
           c4 == emit_interrupt_check(c3)
           d == emit_chain_tail(c4)
<1>0. emit_jalr(c, i) = d
  BY Zenon DEF emit_jalr
<1>1. /\ Kept(c, c1)
      /\ \E w : Gen(c1, u, w) /\ Near(v, w) /\ w.pc = v.pc /\ w.lag = 0
  BY PreInstret, Zenon DEF Body
<1> HIDE DEF c1
<1>2. PICK v1 : Gen(c1, u, v1) /\ v1.mode = "in" /\ v1.lag = 0
  BY <1>1, Zenon DEF Near, Body
<1>3. Kept(c1, c2) /\ \E w : Gen(c2, u, w) /\ w.mode = "out" /\ w.lag = 0
  BY <1>2, EmitPcReg
<1> HIDE DEF c2
<1>4. PICK v2 : Gen(c2, u, v2) /\ v2.mode = "out" /\ v2.lag = 0
  BY <1>3, Zenon
<1>5. Kept(c2, c3) /\ \E w : Gen(c3, u, w) /\ Like(v2, w)
  BY <1>4, AfterInstruction, Zenon DEF Charged
<1> HIDE DEF c3
<1>6. PICK v3 : Gen(c3, u, v3) /\ v3.mode = "out" /\ v3.lag = 0
  BY <1>4, <1>5, Zenon DEF Like, Near
<1>7. Kept(c3, c4) /\ \E w : Gen(c4, u, w) /\ Settled(w)
  BY <1>6, EmitCheck, Zenon
<1> HIDE DEF c4
<1>8. Kept(c4, d) /\ \E w : Gen(d, u, w) /\ w.mode = "dead"
  BY <1>7, EmitTail, Zenon
<1> HIDE DEF d
<1>9. Kept(c, d)
  BY <1>1, <1>3, <1>5, <1>7, <1>8, Zenon DEF Kept
<1> QED BY <1>0, <1>8, <1>9, Zenon

\* emit_jal: the next block is linked to only if it is in the line that
\* follows this instruction.
LEMMA EmitJal ==
  ASSUME NEW c, NEW u, NEW v, Gen(c, u, v), NEW i \in Insn, Body(c, v, i), i.k = "jal",
         model \in Models
  PROVE  LET d == emit_jal(c, i)
         IN  Kept(c, d) /\ \E w : Gen(d, u, w) /\ w.mode = "dead"
<1> DEFINE n == c.pc_cur + i.imm
           c1 == pre_adjust_instret(c)
           c2 == emit(c1, <<"pc", n>>)
           c3 == after_instruction(c2, i)
           c4 == emit_interrupt_check(c3)
           e == c.pc_start + c.pc_end
           target == e + i.imm - i.len
           d == IF same_cache_line(e, target) THEN emit_direct_jump(c4) ELSE emit_chain_tail(c4)
<1>0. emit_jal(c, i) = d
  BY Zenon DEF emit_jal
<1>a. /\ v \in View /\ c \in Compiler /\ i.len \in {1, 2} /\ i.imm \in Int
      /\ v.cur \in Int /\ v.pc \in Int
      /\ c.pc_start \in Int /\ c.pc_cur \in Int /\ c.pc_end \in Int
  BY CompilerFields, ViewFields, Zenon DEF Gen, Insn
<1>b. /\ v.mode = "in" /\ v.inst = i /\ v.cur = c.pc_start + c.pc_cur
      /\ v.pc = c.pc_start /\ v.lag = c.instret + 1
      /\ e = v.cur + i.len /\ v.page = PageOf(v.cur + i.len - 1)
  BY Zenon DEF Body
<1>c. n \in Int /\ v.pc + n = v.cur + i.imm
  BY <1>a, <1>b
<1>d. target = v.cur + i.imm /\ target \in Int /\ e \in Int
  BY <1>a, <1>b
<1>e. e - 1 = v.cur + i.len - 1
  BY <1>a, <1>b
<1> HIDE DEF n, e, target
<1>1. /\ Kept(c, c1)
      /\ \E w : Gen(c1, u, w) /\ Near(v, w) /\ w.pc = v.pc /\ w.lag = 0
  BY <1>b, PreInstret, Zenon
<1> HIDE DEF c1
<1>2. PICK v1 : Gen(c1, u, v1) /\ Near(v, v1) /\ v1.pc = v.pc /\ v1.lag = 0
  BY <1>1, Zenon
<1>3. /\ Kept(c1, c2)
      /\ \E w : Gen(c2, u, w) /\ Near(v1, w) /\ w.pc = v1.pc + n /\ w.lag = v1.lag
  <2>1. v1.mode = "in"
    BY <1>2, <1>b, Zenon DEF Near
  <2> QED BY <1>2, <1>c, <2>1, EmitPc
<1> HIDE DEF c2
<1>4. PICK v2 : Gen(c2, u, v2) /\ Near(v, v2) /\ v2.pc = target /\ v2.lag = 0
  BY <1>2, <1>3, <1>c, <1>d, Zenon DEF Near
<1>5. Kept(c2, c3) /\ \E w : Gen(c3, u, w) /\ Like(v2, w)
  BY <1>4, AfterInstruction, Zenon DEF Charged
<1> HIDE DEF c3
<1>6. PICK v3 : Gen(c3, u, v3) /\ Near(v, v3) /\ v3.pc = target /\ v3.lag = 0
  BY <1>4, <1>5, Zenon DEF Like, Near
<1>7. Follows(v3, v3.pc)
  BY <1>6, <1>b, <1>d, Zenon DEF Near, Follows
<1>8. Kept(c3, c4) /\ \E w : Gen(c4, u, w) /\ Like(v3, w) /\ Settled(w)
  BY <1>6, <1>7, EmitCheck, Zenon
<1> HIDE DEF c4
<1>9. PICK v4 : Gen(c4, u, v4) /\ Near(v, v4) /\ v4.pc = target /\ Settled(v4)
  BY <1>6, <1>8, Zenon DEF Like, Near
<1>10. Kept(c4, d) /\ \E w : Gen(d, u, w) /\ w.mode = "dead"
  <2>1. CASE ~same_cache_line(e, target)
    BY <1>9, <2>1, EmitTail, Zenon
  <2>2. CASE same_cache_line(e, target)
    <3>1. v4.mode = "in" /\ v4.inst = i /\ v4.cur = v.cur /\ v4.page = v.page
      BY <1>9, <1>b, Zenon DEF Near
    <3>2. CASE e % LineSize = 0
      BY <1>9, <2>2, <3>1, <3>2, <1>b, EmitDirect, Zenon
    <3>3. CASE e % LineSize # 0
      <4>1. same_cache_line(e - 1, e)
        BY <1>d, <3>3, LineStep, Zenon
      <4>2. PageOf(e - 1) = PageOf(target)
        BY <1>d, <2>2, <4>1, SameLineSamePage DEF same_cache_line
      <4>3. v4.page = PageOf(v4.pc)
        BY <1>9, <1>b, <1>e, <3>1, <4>2, Zenon
      <4> QED BY <1>9, <2>2, <3>1, <4>3, EmitDirect, Zenon
    <3> QED BY <3>2, <3>3, Zenon
  <2> QED BY <2>1, <2>2, Zenon
<1> HIDE DEF d
<1>11. Kept(c, d)
  BY <1>1, <1>3, <1>5, <1>8, <1>10, Zenon DEF Kept
<1> QED BY <1>0, <1>10, <1>11, Zenon

\* A compiler whose counters are set by hand.
Counters(c, a, n) == [c EXCEPT !.pc_cur = a, !.instret = n]

LEMMA SetCounters ==
  ASSUME NEW c, NEW u, NEW v, Gen(c, u, v), NEW a \in Int, NEW n \in Int
  PROVE  LET d == Counters(c, a, n)
         IN  /\ Gen(d, u, v) /\ d.pc_cur = a /\ d.instret = n
             /\ d.pc_start = c.pc_start /\ d.pc_end = c.pc_end /\ d.cycles = c.cycles
<1> DEFINE d == Counters(c, a, n)
<1>1. c \in Compiler
  BY Zenon DEF Gen
<1>2. /\ d \in Compiler /\ d.pc_cur = a /\ d.instret = n /\ d.code = c.code
      /\ d.pc_start = c.pc_start /\ d.pc_end = c.pc_end /\ d.cycles = c.cycles
  BY <1>1, Zenon DEF Compiler, Counters
<1> HIDE DEF d
<1>3. Gen(d, u, v)
  BY <1>2, Zenon DEF Gen
<1> QED BY <1>2, <1>3, Zenon DEF d

\* emit_sys: riscv_step may move the pc.
LEMMA EmitSys ==
  ASSUME NEW c, NEW u, NEW v, Gen(c, u, v), NEW i \in Insn, Body(c, v, i), i.k = "sys",
         model \in Models
  PROVE  LET d == emit_sys(c, i)
         IN  Kept(c, d) /\ \E w : Gen(d, u, w) /\ w.mode = "dead"
<1> DEFINE b1 == pre_adjust_pc_instret(c, i)
           n == -i.len
           b2 == Counters(b1, n, -1)
           c1 == emit_step_call(b2)
           b3 == Counters(c1, c.pc_cur, c.instret)
           c2 == after_instruction(b3, i)
           c3 == emit_interrupt_check(c2)
           d == emit_chain_tail(c3)
<1>0. emit_sys(c, i) = d
  BY Zenon DEF emit_sys, Counters
<1>a. /\ i.len \in {1, 2} /\ v.cur \in Int /\ v.pc \in Int
      /\ c.pc_start \in Int /\ c.pc_cur \in Int /\ c.instret \in Int
  BY CompilerFields, ViewFields, Zenon DEF Gen, Insn
<1>b. /\ v.mode = "in" /\ v.inst = i /\ v.cur = c.pc_start + c.pc_cur
      /\ v.pc = c.pc_start /\ v.lag = c.instret + 1
  BY Zenon DEF Body
<1>1. /\ Kept(c, b1)
      /\ \E w : Gen(b1, u, w) /\ Near(v, w) /\ w.pc = v.pc + (c.pc_cur + i.len) /\ w.lag = 0
  BY <1>b, PrePcInstret
<1> HIDE DEF b1
<1>2. PICK v1 : Gen(b1, u, v1) /\ Near(v, v1) /\ v1.pc = v.cur + i.len /\ v1.lag = 0
  BY <1>1, <1>a, <1>b
<1>3. /\ Gen(b2, u, v1) /\ b2.pc_cur = -i.len /\ b2.instret = -1
      /\ b2.pc_start = b1.pc_start /\ b2.pc_end = b1.pc_end
  <2>1. n \in Int /\ -1 \in Int
    BY <1>a
  <2> HIDE DEF n
  <2>2. /\ Gen(b2, u, v1) /\ b2.pc_cur = n /\ b2.instret = -1
        /\ b2.pc_start = b1.pc_start /\ b2.pc_end = b1.pc_end
    BY <1>2, <2>1, SetCounters
  <2> QED BY <2>2, Zenon DEF n
<1> HIDE DEF b2
<1>4. /\ Kept(b2, c1)
      /\ \E w : Gen(c1, u, w) /\ w.lag = 0 /\ w.mode = "out"
  <2>1. /\ v1.mode = "in" /\ v1.inst = i /\ v1.cur = v.cur
    BY <1>2, <1>b, Zenon DEF Near
  <2>2. v1.pc + b2.pc_cur = v1.cur /\ v1.lag = b2.instret + 1 /\ v1.pc = v1.cur + v1.inst.len
    BY <1>2, <1>3, <1>a, <2>1
  <2> QED BY <1>2, <1>3, <2>1, <2>2, EmitStepCall
<1> HIDE DEF c1
<1>5. PICK v2 : Gen(c1, u, v2) /\ v2.lag = 0 /\ v2.mode = "out"
  BY <1>4, Zenon
<1>6. /\ Gen(b3, u, v2) /\ b3.pc_cur = c.pc_cur /\ b3.instret = c.instret
      /\ b3.pc_start = c1.pc_start /\ b3.pc_end = c1.pc_end
  BY <1>5, <1>a, SetCounters
<1> HIDE DEF b3
<1>7. Kept(b3, c2) /\ \E w : Gen(c2, u, w) /\ Like(v2, w)
  BY <1>6, AfterInstruction, Zenon DEF Charged
<1> HIDE DEF c2
<1>8. PICK v3 : Gen(c2, u, v3) /\ v3.mode = "out" /\ v3.lag = 0
  BY <1>5, <1>7, Zenon DEF Like, Near
<1>9. Kept(c2, c3) /\ \E w : Gen(c3, u, w) /\ Settled(w)
  BY <1>8, EmitCheck, Zenon
<1> HIDE DEF c3
<1>10. Kept(c3, d) /\ \E w : Gen(d, u, w) /\ w.mode = "dead"
  BY <1>9, EmitTail, Zenon
<1> HIDE DEF d
<1>11. Kept(c, d)
  BY <1>1, <1>3, <1>4, <1>6, <1>7, <1>9, <1>10, Zenon DEF Kept
<1> QED BY <1>0, <1>10, <1>11, Zenon
\* The same compiler with other code.
WithCode(c, s) == [c EXCEPT !.code = s]

LEMMA WithCodeFields ==
  ASSUME NEW c \in Compiler, NEW s \in Seq(Host)
  PROVE  LET d == WithCode(c, s)
         IN  d \in Compiler /\ Kept(c, d) /\ d.cycles = c.cycles /\ d.code = s
BY Zenon DEF Compiler, WithCode, Kept

LEMMA EmitWithCode ==
  ASSUME NEW c \in Compiler, NEW t
  PROVE  emit(WithCode(c, <<>>), t) = WithCode(c, <<t>>)
<1>1. [[c EXCEPT !.code = <<>>] EXCEPT !.code = Append(@, t)] = [c EXCEPT !.code = Append(<<>>, t)]
  BY Zenon DEF Compiler
<1>2. Append(<<>>, t) = <<t>>
  OBVIOUS
<1> QED BY <1>1, <1>2, Zenon DEF emit, WithCode

LEMMA GenWithCode ==
  ASSUME NEW c \in Compiler, NEW s \in Seq(Host), NEW u, NEW v \in View,
         Flows(s, u, v), v.due = c.cycles
  PROVE  Gen(WithCode(c, s), u, v) /\ Kept(c, WithCode(c, s))
<1>1. /\ WithCode(c, s) \in Compiler /\ Kept(c, WithCode(c, s))
      /\ WithCode(c, s).cycles = c.cycles /\ WithCode(c, s).code = s
  BY WithCodeFields, Zenon
<1> QED BY <1>1, Zenon DEF Gen

\* A compiler that has emitted nothing yet.
LEMMA GenEmpty ==
  ASSUME NEW c \in Compiler, c.code = <<>>, NEW v \in View, v.due = c.cycles
  PROVE  Gen(c, v, v)
<1>1. Flows(<<>>, v, v)
  BY FlowsEmpty, SubReflexive, Zenon
<1> QED BY <1>1, Zenon DEF Gen

\* The code of c, a jump, and the code s that it jumps over.
LEMMA GenJump ==
  ASSUME NEW c, NEW u, NEW v, Gen(c, u, v), NEW s \in Seq(Host), Branching(v),
         NEW j \in Jumps, NEW x, Flows(s, Fall(<<j, Len(s)>>, v), x),
         NEW w \in View, Sub(x, w), Sub(Hop(<<j, Len(s)>>, v), w)
  PROVE  LET r == c.code \o <<<<j, Len(s)>>>> \o s
         IN  r \in Seq(Host) /\ Flows(r, u, w)
<1> DEFINE t == <<j, Len(s)>>
<1>1. c.code \in Seq(Host) /\ v \in View /\ Flows(c.code, u, v)
  BY CompilerFields, Zenon DEF Gen
<1>2. t \in Host /\ t[1] \in Jumps /\ t[2] = Len(s)
  BY DEF Host, Jumps
<1>3. Flows(s, Fall(t, v), w)
  BY FlowsWeaken, Zenon
<1>4. Sub(Hop(t, v), w)
  BY Zenon
<1> HIDE DEF t
<1>5. Flows(<<t>> \o s, v, w)
  BY <1>1, <1>2, <1>3, <1>4, FlowsJump, Zenon
<1>6. <<t>> \in Seq(Host) /\ <<t>> \o s \in Seq(Host)
  BY <1>2
<1>7. Flows(c.code \o (<<t>> \o s), u, w)
  BY <1>1, <1>5, <1>6, FlowsCompose, Zenon
<1>8. c.code \o <<t>> \o s = c.code \o (<<t>> \o s)
  <2> DEFINE q == c.code
             p == <<t>>
  <2>1. q \in Seq(Host) /\ p \in Seq(Host)
    BY <1>1, <1>6, Zenon
  <2> HIDE DEF q, p
  <2>2. (q \o p) \o s = q \o (p \o s)
    BY <2>1, CodeAssociative, SMTT(20)
  <2> QED BY <2>2, Zenon DEF q, p
<1>9. c.code \o (<<t>> \o s) \in Seq(Host)
  BY <1>1, <1>6
<1> QED BY <1>7, <1>8, <1>9, Zenon DEF t

\* emit_branch: the code of the taken path ends the block.
LEMMA BranchTaken ==
  ASSUME NEW c, NEW u, NEW v, Gen(c, u, v), NEW i \in Insn, Body(c, v, i), model \in Models,
         NEW off, off = c.pc_end - i.len + i.imm
  PROVE  LET target == c.pc_start + off
             t1 == emit_interrupt_check(after_taken_branch(pre_adjust_instret(
                       [c EXCEPT !.code = <<<<"pc", off>>>>]), i))
             t2 == [t1 EXCEPT !.pc_cur = 0, !.instret = 0]
             t3 == IF ~same_page(c.pc_start, target) THEN emit_chain_tail(t2)
                   ELSE emit_direct_jump(
                           IF same_cache_line(c.pc_start + c.pc_end - 1, target) THEN t2
                           ELSE emit_icache_access(t2, 0))
         IN  \E w : Gen(t3, [v EXCEPT !.mode = "taken"], w) /\ w.mode = "dead"
<1> DEFINE target == c.pc_start + off
           b0 == WithCode(c, <<>>)
           b1 == emit(b0, <<"pc", off>>)
           b2 == pre_adjust_instret(b1)
           b3 == after_taken_branch(b2, i)
           t1 == emit_interrupt_check(b3)
           t2 == Counters(t1, 0, 0)
           f == emit_icache_access(t2, 0)
           near == same_cache_line(c.pc_start + c.pc_end - 1, target)
           t3 == IF ~same_page(c.pc_start, target) THEN emit_chain_tail(t2)
                 ELSE emit_direct_jump(IF near THEN t2 ELSE f)
           tv == [v EXCEPT !.mode = "taken"]
<1>a. /\ v \in View /\ c \in Compiler /\ i.len \in {1, 2} /\ i.imm \in Int
      /\ v.cur \in Int /\ v.pc \in Int /\ v.due = c.cycles
      /\ c.pc_start \in Int /\ c.pc_cur \in Int /\ c.pc_end \in Int
  BY CompilerFields, ViewFields, Zenon DEF Gen, Insn
<1>b. /\ v.mode = "in" /\ v.inst = i /\ v.cur = c.pc_start + c.pc_cur
      /\ v.pc = c.pc_start /\ v.lag = c.instret + 1
      /\ c.pc_start + c.pc_end = v.cur + i.len /\ v.page = PageOf(v.cur + i.len - 1)
  BY Zenon DEF Body
<1>c. off \in Int /\ v.pc + off = target /\ target = v.cur + i.imm /\ target \in Int
  BY <1>a, <1>b
<1>d. [c EXCEPT !.code = <<<<"pc", off>>>>] = b1
  BY <1>a, EmitWithCode, Zenon DEF WithCode
<1>e. /\ tv \in View /\ tv.mode = "taken" /\ tv.cur = v.cur /\ tv.inst = i
      /\ tv.pc = v.pc /\ tv.lag = v.lag /\ tv.due = v.due /\ tv.page = v.page
  BY <1>a, <1>b, TakenFields, Zenon
<1>f. c.pc_start + c.pc_end - 1 = v.cur + i.len - 1
  BY <1>a, <1>b
<1> HIDE DEF target, tv
<1>1. Gen(b0, tv, tv) /\ Kept(c, b0)
  <2>1. <<>> \in Seq(Host)
    OBVIOUS
  <2>2. Flows(<<>>, tv, tv)
    BY <1>e, FlowsEmpty, SubReflexive, Zenon
  <2> QED BY <1>a, <1>e, <2>1, <2>2, GenWithCode, Zenon
<1> HIDE DEF b0
<1>2. /\ Kept(b0, b1)
      /\ \E w : Gen(b1, tv, w) /\ Near(tv, w) /\ w.pc = tv.pc + off /\ w.lag = tv.lag
  BY <1>1, <1>c, <1>e, EmitPc
<1> HIDE DEF b1
<1>3. PICK v1 : Gen(b1, tv, v1) /\ Near(tv, v1) /\ v1.pc = target /\ v1.lag = b1.instret + 1
  BY <1>1, <1>2, <1>b, <1>c, <1>e, Zenon DEF Kept
<1>4. \E w : Gen(b2, tv, w) /\ Near(v1, w) /\ w.pc = v1.pc /\ w.lag = 0
  BY <1>3, PreInstret, Zenon
<1> HIDE DEF b2
<1>5. PICK v2 : Gen(b2, tv, v2) /\ Near(tv, v2) /\ v2.pc = target /\ v2.lag = 0
  BY <1>3, <1>4, Zenon DEF Near
<1>6. \E w : Gen(b3, tv, w) /\ Like(v2, w)
  BY <1>5, AfterTakenBranch, Zenon DEF Charged
<1> HIDE DEF b3
<1>7. PICK v3 : Gen(b3, tv, v3) /\ Near(tv, v3) /\ v3.pc = target /\ v3.lag = 0
  BY <1>5, <1>6, Zenon DEF Near, Like
<1>8. Follows(v3, v3.pc)
  BY <1>7, <1>c, <1>e, Zenon DEF Follows, Near
<1>9. \E w : Gen(t1, tv, w) /\ Like(v3, w) /\ Settled(w)
  BY <1>7, <1>8, EmitCheck, Zenon
<1>10. [t1 EXCEPT !.pc_cur = 0, !.instret = 0] = t2
  BY Zenon DEF Counters
<1> HIDE DEF t1
<1>11. PICK v4 : Gen(t1, tv, v4) /\ Near(tv, v4) /\ v4.pc = target /\ v4.lag = 0 /\ Settled(v4)
  BY <1>7, <1>9, Zenon DEF Near, Like
<1>12. Gen(t2, tv, v4) /\ t2.pc_cur = 0 /\ t2.instret = 0
  BY <1>11, SetCounters
<1> HIDE DEF t2
<1>13. /\ v4.mode = "taken" /\ v4.cur = v.cur /\ v4.inst = i /\ v4.page = v.page
  BY <1>11, <1>e, Zenon DEF Near
<1>14. \E w : Gen(t3, tv, w) /\ w.mode = "dead"
  <2>1. CASE ~same_page(c.pc_start, target)
    BY <1>11, <1>12, <2>1, EmitTail, Zenon
  <2>2. CASE same_page(c.pc_start, target) /\ near
    <3>1. v4.page = PageOf(v4.pc)
      BY <1>11, <1>13, <1>a, <1>b, <1>c, <1>f, <2>2, SameLineSamePage
    <3>2. t3 = emit_direct_jump(t2)
      BY <2>2, Zenon
    <3> QED BY <1>11, <1>12, <1>13, <3>1, <3>2, EmitDirect, Zenon
  <2>3. CASE same_page(c.pc_start, target) /\ ~near
    <3>1. v4.pc + t2.pc_cur = v4.cur + v4.inst.imm /\ v4.lag = t2.instret /\ v4.pc + 0 = v4.pc
      BY <1>11, <1>12, <1>13, <1>c
    <3>2. PICK w : /\ Gen(f, tv, w) /\ w.mode = v4.mode /\ w.cur = v4.cur /\ w.inst = v4.inst
                   /\ w.pc = v4.pc /\ w.lag = v4.lag /\ w.page = PageOf(v4.pc)
      BY <1>12, <1>13, <3>1, EmitFetch
    <3>3. f.cycles = 0
      BY <1>12, <1>13, <3>1, EmitFetch
    <3>4. t3 = emit_direct_jump(f)
      BY <2>3, Zenon
    <3> HIDE DEF f, t3
    <3>5. Settled(w)
      BY <3>2, <3>3, <1>11, <1>13, <1>c, Zenon DEF Settled, Follows, Gen
    <3>6. w.mode # "out" /\ w.page = PageOf(w.pc)
      BY <3>2, <1>13, Zenon
    <3> QED BY <3>2, <3>4, <3>5, <3>6, EmitDirect, Zenon
  <2> QED BY <2>1, <2>2, <2>3, Zenon
<1> HIDE DEF t3
<1> QED BY <1>14, <1>10, <1>d, Zenon DEF t1, t3, f, near, target, tv, b2, b3

\* emit_branch: the other path goes on after it.
LEMMA EmitBranch ==
  ASSUME NEW c, NEW u, NEW v, Gen(c, u, v), NEW i \in Insn, Body(c, v, i), i.k = "br",
         model \in Models
  PROVE  LET d == emit_branch(c, i)
         IN  Kept(c, d) /\ \E w : Gen(d, u, w) /\ Passed(v, w)
<1> DEFINE off == c.pc_end - i.len + i.imm
           target == c.pc_start + off
           t1 == emit_interrupt_check(after_taken_branch(pre_adjust_instret(
                     [c EXCEPT !.code = <<<<"pc", off>>>>]), i))
           t2 == [t1 EXCEPT !.pc_cur = 0, !.instret = 0]
           t3 == IF ~same_page(c.pc_start, target) THEN emit_chain_tail(t2)
                 ELSE emit_direct_jump(
                         IF same_cache_line(c.pc_start + c.pc_end - 1, target) THEN t2
                         ELSE emit_icache_access(t2, 0))
           s == t3.code
           r == c.code \o <<<<"jcc_not", Len(s)>>>> \o s
           tv == [v EXCEPT !.mode = "taken"]
           h == IdleAt(v, v.cur + v.inst.len)
<1>0. emit_branch(c, i) = WithCode(c, r)
  BY Zenon DEF emit_branch, WithCode
<1>a. /\ v \in View /\ c \in Compiler /\ v.due = c.cycles
      /\ v.mode = "in" /\ v.inst = i /\ v.cur + v.inst.len \in Int
  BY CompilerFields, ViewFields DEF Gen, Insn, Body
<1>1. PICK x : Gen(t3, tv, x) /\ x.mode = "dead"
  BY BranchTaken, Zenon
<1> HIDE DEF t3
<1>2. s \in Seq(Host) /\ Flows(s, tv, x)
  BY <1>1, CompilerFields, Zenon DEF Gen
<1> HIDE DEF s
<1>3. /\ h \in View /\ h.mode = "idle" /\ h.nxt = v.cur + v.inst.len /\ h.pc = v.pc
      /\ h.lag = v.lag /\ h.due = v.due /\ h.page = v.page
  BY <1>a, IdleAtFields, Zenon
<1>4. Fall(<<"jcc_not", Len(s)>>, v) = tv /\ Hop(<<"jcc_not", Len(s)>>, v) = h
  BY Zenon DEF Fall, Hop
<1> HIDE DEF tv, h
<1>5. Sub(x, h) /\ Sub(h, h) /\ Branching(v) /\ "jcc_not" \in Jumps
  BY <1>1, <1>a, Zenon DEF Sub, Branching, Jumps
<1>6. r \in Seq(Host) /\ Flows(r, u, h)
  BY <1>2, <1>3, <1>4, <1>5, GenJump, Zenon
<1> HIDE DEF r
<1>7. Gen(WithCode(c, r), u, h) /\ Kept(c, WithCode(c, r))
  BY <1>3, <1>6, <1>a, GenWithCode, Zenon
<1>8. Passed(v, h)
  BY <1>3, Zenon DEF Passed, Follows
<1> QED BY <1>0, <1>7, <1>8, Zenon

\* emit_op: an instruction that leaves the block ends it, any other one gets
\* to the next.
LEMMA EmitOp ==
  ASSUME NEW c, NEW u, NEW v, Gen(c, u, v), NEW i \in Insn, Body(c, v, i), model \in Models
  PROVE  LET d == emit_op(c, i)
         IN  /\ Kept(c, d)
             /\ \E w : /\ Gen(d, u, w)
                       /\ IF i.k \in Leaving THEN w.mode = "dead" ELSE Passed(v, w)
<1>1. i.k \in {"alu", "mul", "mem", "sys", "br", "jal", "jalr"}
  BY Zenon DEF Insn
<1>2. v.mode = "in" /\ v.inst = i
  BY Zenon DEF Body
<1>3. CASE i.k \in {"alu", "mul"}
  <2>1. emit_op(c, i) = c /\ i.k \notin Leaving
    BY <1>3, Zenon DEF emit_op, Leaving
  <2>2. Passed(v, v) /\ Kept(c, c)
    BY <1>2, <1>3, Zenon DEF Passed, Follows, Straight, Kept
  <2> QED BY <2>1, <2>2, Zenon
<1>4. CASE i.k = "mem"
  <2>1. emit_op(c, i) = emit_step_call(c) /\ i.k \notin Leaving
    BY <1>4, Zenon DEF emit_op, Leaving
  <2>2. v.pc + c.pc_cur = v.cur /\ v.lag = c.instret + 1 /\ v.inst.k # "sys"
    BY <1>2, <1>4, Zenon DEF Body
  <2>3. Kept(c, emit_step_call(c)) /\ \E w : Gen(emit_step_call(c), u, w) /\ Like(v, w)
    BY <1>2, <2>2, EmitStepCall, Zenon
  <2>4. \A w : Like(v, w) => Passed(v, w)
    BY <1>2, <1>4, Zenon DEF Passed, Follows, Straight, Like, Near
  <2> QED BY <2>1, <2>3, <2>4, Zenon
<1>5. CASE i.k = "sys"
  <2>1. emit_op(c, i) = emit_sys(c, i) /\ i.k \in Leaving
    BY <1>5, Zenon DEF emit_op, Leaving
  <2> QED BY <1>5, <2>1, EmitSys, Zenon
<1>6. CASE i.k = "br"
  <2>1. emit_op(c, i) = emit_branch(c, i) /\ i.k \notin Leaving
    BY <1>6, Zenon DEF emit_op, Leaving
  <2> QED BY <1>6, <2>1, EmitBranch, Zenon
<1>7. CASE i.k = "jal"
  <2>1. emit_op(c, i) = emit_jal(c, i) /\ i.k \in Leaving
    BY <1>7, Zenon DEF emit_op, Leaving
  <2> QED BY <1>7, <2>1, EmitJal, Zenon
<1>8. CASE i.k = "jalr"
  <2>1. emit_op(c, i) = emit_jalr(c, i) /\ i.k \in Leaving
    BY <1>8, Zenon DEF emit_op, Leaving
  <2> QED BY <2>1, EmitJalr, Zenon
<1> QED BY <1>1, <1>3, <1>4, <1>5, <1>6, <1>7, <1>8, Zenon
-----------------------------------------------------------------------------
(* Blocks *)

\* Between two instructions of a block.
Ready(c, v) == /\ Follows(v, c.pc_start + c.pc_cur)
               /\ v.pc = c.pc_start /\ v.lag = c.instret /\ v.page = PageOf(c.pc_start)

WithEnd(c, l) == [c EXCEPT !.pc_end = l]

LEMMA SetEnd ==
  ASSUME NEW c, NEW u, NEW v, Gen(c, u, v), NEW l \in Int
  PROVE  LET d == WithEnd(c, l)
         IN  /\ Gen(d, u, v) /\ d.pc_end = l
             /\ d.pc_start = c.pc_start /\ d.pc_cur = c.pc_cur /\ d.instret = c.instret
<1> DEFINE d == WithEnd(c, l)
<1>1. c \in Compiler
  BY Zenon DEF Gen
<1>2. /\ d \in Compiler /\ d.pc_end = l /\ d.code = c.code /\ d.cycles = c.cycles
      /\ d.pc_start = c.pc_start /\ d.pc_cur = c.pc_cur /\ d.instret = c.instret
  BY <1>1, Zenon DEF Compiler, WithEnd
<1> HIDE DEF d
<1>3. Gen(d, u, v)
  BY <1>2, Zenon DEF Gen
<1> QED BY <1>2, <1>3, Zenon DEF d

\* The instruction begins: its last half word is in the page of the block, and
\* its line is looked up if the compiler finds that to be needed.
LEMMA Open ==
  ASSUME NEW c, NEW u, NEW v, Gen(c, u, v), Ready(c, v), NEW i \in Insn, NEW l \in Int,
         PageOf(c.pc_start + c.pc_cur + i.len - 1) = PageOf(c.pc_start),
         PageOf(c.pc_start + l - 1) = PageOf(c.pc_start),
         NEW c1, \/ c1 = WithEnd(At(c, i), l)
                 \/ c1 = emit_icache_access(WithEnd(At(c, i), l), l - 1)
  PROVE  LET d == Fetched(c1)
         IN  /\ d.pc_start = c.pc_start /\ d.pc_cur = c.pc_cur /\ d.pc_end = l /\ d.instret = c.instret
             /\ \E w : /\ Gen(d, u, w) /\ w.mode = "in" /\ w.inst = i
                       /\ w.cur = c.pc_start + c.pc_cur /\ w.pc = c.pc_start
                       /\ w.lag = c.instret + 1 /\ w.page = PageOf(c.pc_start)
<1> DEFINE a == c.pc_start + c.pc_cur
           b == At(c, i)
           c0 == WithEnd(b, l)
           d == Fetched(c1)
<1>a. /\ c \in Compiler /\ i.len \in {1, 2} /\ c.pc_start \in Int /\ c.pc_cur \in Int
      /\ c.instret \in Int /\ a \in Int
  BY CompilerFields DEF Gen, Insn
<1>b. /\ Follows(v, a) /\ v.pc = c.pc_start /\ v.lag = c.instret /\ v.page = PageOf(c.pc_start)
  BY Zenon DEF Ready
<1>1. /\ Kept(c, b)
      /\ \E w : /\ Gen(b, u, w) /\ w.mode = "in" /\ w.cur = a /\ w.inst = i
                /\ w.pc = v.pc /\ w.lag = v.lag + 1 /\ w.page = v.page
  BY <1>a, <1>b, EmitAt DEF At
<1> HIDE DEF b
<1>2. PICK v1 : /\ Gen(b, u, v1) /\ v1.mode = "in" /\ v1.cur = a /\ v1.inst = i
                /\ v1.pc = c.pc_start /\ v1.lag = c.instret + 1 /\ v1.page = PageOf(c.pc_start)
  BY <1>1, <1>b, Zenon
<1>3. /\ Gen(c0, u, v1) /\ c0.pc_end = l
      /\ c0.pc_start = c.pc_start /\ c0.pc_cur = c.pc_cur /\ c0.instret = c.instret
  BY <1>1, <1>2, SetEnd, SMTT(20) DEF Kept
<1>4. c1 = c0 \/ c1 = emit_icache_access(c0, l - 1)
  BY Zenon DEF b
<1> HIDE DEF c0
<1>5. /\ Kept(c0, c1)
      /\ \E w : /\ Gen(c1, u, w) /\ w.mode = "in" /\ w.cur = a /\ w.inst = i
                /\ w.pc = c.pc_start /\ w.lag = c.instret + 1 /\ w.page = PageOf(c.pc_start)
  <2>1. CASE c1 = c0
    BY <1>2, <1>3, <2>1, Zenon DEF Kept
  <2>2. CASE c1 = emit_icache_access(c0, l - 1)
    <3> DEFINE off == l - 1
    <3>1. off \in Int /\ v1.pc + off = c.pc_start + l - 1
      BY <1>2, <1>a
    <3> HIDE DEF off
    <3>2. v1.pc + c0.pc_cur = v1.cur /\ v1.lag = c0.instret + 1
      BY <1>2, <1>3, Zenon
    <3>3. /\ Kept(c0, emit_icache_access(c0, off))
          /\ \E w : /\ Gen(emit_icache_access(c0, off), u, w) /\ w.mode = v1.mode
                    /\ w.cur = v1.cur /\ w.inst = v1.inst
                    /\ w.pc = v1.pc /\ w.lag = v1.lag /\ w.page = PageOf(v1.pc + off)
      BY <1>2, <1>3, <3>1, <3>2, EmitFetch
    <3>4. c1 = emit_icache_access(c0, off)
      BY <2>2, Zenon DEF off
    <3> QED BY <1>2, <3>1, <3>3, <3>4, Zenon
  <2> QED BY <1>4, <2>1, <2>2, Zenon
<1>6. PICK w : /\ Gen(c1, u, w) /\ w.mode = "in" /\ w.cur = a /\ w.inst = i
               /\ w.pc = c.pc_start /\ w.lag = c.instret + 1 /\ w.page = PageOf(c.pc_start)
  BY <1>5, Zenon
<1>7. w.page = PageOf(w.cur + w.inst.len - 1)
  BY <1>6, Zenon
<1>8. Kept(c1, d) /\ Gen(d, u, w)
  BY <1>6, <1>7, EmitExec, Zenon
<1> HIDE DEF d
<1>9. d.pc_start = c.pc_start /\ d.pc_cur = c.pc_cur /\ d.pc_end = l /\ d.instret = c.instret
  BY <1>3, <1>5, <1>8, Zenon DEF Kept
<1> QED BY <1>6, <1>8, <1>9, Zenon DEF d

\* The instruction, between the hooks of the pipeline model.
LEMMA Operate ==
  ASSUME NEW c, NEW u, NEW v, Gen(c, u, v), NEW i \in Insn, Body(c, v, i), model \in Models
  PROVE  LET d == after_instruction(emit_op(before_instruction(c, i), i), i)
         IN  /\ Kept(c, d)
             /\ \E w : /\ Gen(d, u, w)
                       /\ IF i.k \in Leaving THEN w.mode = "dead" ELSE Passed(v, w)
<1> DEFINE c1 == before_instruction(c, i)
           c2 == emit_op(c1, i)
           d == after_instruction(c2, i)
<1>1. Kept(c, c1) /\ \E w : Gen(c1, u, w) /\ Like(v, w)
  BY BeforeInstruction, Zenon DEF Charged
<1> HIDE DEF c1
<1>2. PICK v1 : Gen(c1, u, v1) /\ Like(v, v1)
  BY <1>1, Zenon
<1>3. Body(c1, v1, i)
  BY <1>1, <1>2, Zenon DEF Body, Kept, Like, Near
<1>4. /\ Kept(c1, c2)
      /\ \E w : /\ Gen(c2, u, w)
                /\ IF i.k \in Leaving THEN w.mode = "dead" ELSE Passed(v1, w)
  BY <1>2, <1>3, EmitOp, Zenon
<1> HIDE DEF c2
<1>5. PICK v2 : /\ Gen(c2, u, v2)
                /\ IF i.k \in Leaving THEN v2.mode = "dead" ELSE Passed(v1, v2)
  BY <1>4, Zenon
<1>6. Kept(c2, d) /\ \E w : Gen(d, u, w) /\ Like(v2, w)
  BY <1>5, AfterInstruction, Zenon DEF Charged
<1> HIDE DEF d
<1>7. PICK w : Gen(d, u, w) /\ Like(v2, w)
  BY <1>6, Zenon
<1>8. CASE i.k \in Leaving
  <2>1. w.mode = "dead"
    BY <1>5, <1>7, <1>8, Zenon DEF Like, Near
  <2> QED BY <1>1, <1>4, <1>6, <1>7, <1>8, <2>1, Zenon DEF Kept, c1, c2, d
<1>9. CASE i.k \notin Leaving
  <2>1. Passed(v, w)
    BY <1>2, <1>5, <1>7, <1>9, Zenon DEF Passed, Follows, Like, Near
  <2> QED BY <1>1, <1>4, <1>6, <1>7, <1>9, <2>1, Zenon DEF Kept, c1, c2, d
<1> QED BY <1>8, <1>9, Zenon


\* compile_op keeps to the page of the block.
LEMMA CompileOpFlows ==
  ASSUME NEW c, NEW u, NEW v, Gen(c, u, v), Ready(c, v), NEW i \in Insn, model \in Models,
         PageOf(c.pc_start + c.pc_cur + i.len - 1) = PageOf(c.pc_start)
  PROVE  LET d == compile_op(c, i)
         IN  /\ d.pc_start = c.pc_start /\ d.pc_cur = c.pc_cur + i.len
             /\ \E w : /\ Gen(d, u, w)
                       /\ IF i.k \in Leaving THEN w.mode = "dead" ELSE Ready(d, w)
<1> DEFINE l == c.pc_cur + i.len
           b == At(c, i)
           c0 == WithEnd(b, l)
           c1 == IF c.pc_cur = 0 \/ same_cache_line(c.pc_start + c.pc_cur - 1,
                                                    c.pc_start + c0.pc_end - 1)
                 THEN c0 ELSE emit_icache_access(c0, c0.pc_end - 1)
           b1 == Fetched(c1)
           c2 == after_instruction(emit_op(before_instruction(b1, i), i), i)
           n == c.instret + 1
           d == Counters(c2, c0.pc_end, n)
<1>0. compile_op(c, i) = d
  BY Zenon DEF compile_op, WithEnd, Counters
<1>a. /\ c \in Compiler /\ i.len \in {1, 2} /\ c.pc_start \in Int /\ c.pc_cur \in Int
      /\ c.instret \in Int
  BY CompilerFields, Zenon DEF Gen, Insn
<1>b. l \in Int /\ n \in Int /\ c.pc_start + l = c.pc_start + c.pc_cur + i.len
  BY <1>a
<1>c. c0.pc_end = l
  <2>1. b \in Compiler
    <3>1. <<"at", c.pc_start + c.pc_cur, i>> \in Host
      BY <1>a DEF Host
    <3> QED BY <3>1, <1>a, EmitFields, Zenon DEF At
  <2> HIDE DEF b, l
  <2> QED BY <2>1, Zenon DEF WithEnd, Compiler
<1>d. PageOf(c.pc_start + l - 1) = PageOf(c.pc_start)
  <2>1. c.pc_start + l - 1 = c.pc_start + c.pc_cur + i.len - 1
    BY <1>a
  <2> QED BY <2>1, Zenon
<1>1. c1 = WithEnd(b, l) \/ c1 = emit_icache_access(WithEnd(b, l), l - 1)
  BY <1>c, Zenon
<1> HIDE DEF c1, c0, l, n
<1>2. /\ b1.pc_start = c.pc_start /\ b1.pc_cur = c.pc_cur /\ b1.pc_end = l
      /\ b1.instret = c.instret
      /\ \E w : /\ Gen(b1, u, w) /\ w.mode = "in" /\ w.inst = i
                /\ w.cur = c.pc_start + c.pc_cur /\ w.pc = c.pc_start
                /\ w.lag = c.instret + 1 /\ w.page = PageOf(c.pc_start)
  BY <1>1, <1>b, <1>d, Open
<1> HIDE DEF b, b1
<1>3. PICK v1 : /\ Gen(b1, u, v1) /\ v1.mode = "in" /\ v1.inst = i
                /\ v1.cur = c.pc_start + c.pc_cur /\ v1.pc = c.pc_start
                /\ v1.lag = c.instret + 1 /\ v1.page = PageOf(c.pc_start)
  BY <1>2, Zenon
<1>4. Body(b1, v1, i)
  BY <1>2, <1>3, <1>b, Zenon DEF Body
<1>5. /\ Kept(b1, c2)
      /\ \E w : /\ Gen(c2, u, w)
                /\ IF i.k \in Leaving THEN w.mode = "dead" ELSE Passed(v1, w)
  BY <1>3, <1>4, Operate, Zenon
<1> HIDE DEF c2
<1>6. PICK w : /\ Gen(c2, u, w)
               /\ IF i.k \in Leaving THEN w.mode = "dead" ELSE Passed(v1, w)
  BY <1>5, Zenon
<1>7. Gen(d, u, w) /\ d.pc_cur = l /\ d.instret = n /\ d.pc_start = c2.pc_start
  BY <1>6, <1>b, <1>c, SetCounters
<1> HIDE DEF d
<1>8. d.pc_start = c.pc_start
  BY <1>2, <1>5, <1>7, Zenon DEF Kept
<1>9. i.k \notin Leaving => Ready(d, w)
  <2>1. SUFFICES ASSUME Passed(v1, w) PROVE Ready(d, w)
    BY <1>6, Zenon
  <2>2. v1.cur + v1.inst.len = d.pc_start + d.pc_cur
    BY <1>3, <1>7, <1>8, <1>b, Zenon
  <2> QED BY <2>1, <2>2, <1>3, <1>7, <1>8, Zenon DEF Passed, Ready, n
<1> QED BY <1>0, <1>6, <1>7, <1>8, <1>9, Zenon DEF l
\* compile_cond_op: the branch, before the jump.
LEMMA CondBranch ==
  ASSUME NEW c, NEW u, NEW v, Gen(c, u, v), Ready(c, v), NEW b \in Insn, model \in Models,
         NEW l \in Int,
         PageOf(c.pc_start + c.pc_cur + b.len - 1) = PageOf(c.pc_start),
         PageOf(c.pc_start + l - 1) = PageOf(c.pc_start),
         NEW c1, \/ c1 = WithEnd(At(c, b), l)
                 \/ c1 = emit_icache_access(WithEnd(At(c, b), l), l - 1)
  PROVE  LET d == before_side_effect(after_instruction(before_instruction(Fetched(c1), b), b))
         IN  /\ d.pc_start = c.pc_start /\ d.pc_cur = c.pc_cur /\ d.pc_end = l
             /\ d.instret = c.instret /\ d.cycles = 0
             /\ \E w : /\ Gen(d, u, w) /\ w.mode = "in" /\ w.inst = b
                       /\ w.cur = c.pc_start + c.pc_cur /\ w.pc = c.pc_start
                       /\ w.lag = c.instret + 1 /\ w.page = PageOf(c.pc_start)
<1> DEFINE b1 == Fetched(c1)
           b2 == before_instruction(b1, b)
           b3 == after_instruction(b2, b)
           d == before_side_effect(b3)
<1>1. /\ b1.pc_start = c.pc_start /\ b1.pc_cur = c.pc_cur /\ b1.pc_end = l
      /\ b1.instret = c.instret
      /\ \E w : /\ Gen(b1, u, w) /\ w.mode = "in" /\ w.inst = b
                /\ w.cur = c.pc_start + c.pc_cur /\ w.pc = c.pc_start
                /\ w.lag = c.instret + 1 /\ w.page = PageOf(c.pc_start)
  BY Open
<1> HIDE DEF b1
<1>2. PICK v1 : /\ Gen(b1, u, v1) /\ v1.mode = "in" /\ v1.inst = b
                /\ v1.cur = c.pc_start + c.pc_cur /\ v1.pc = c.pc_start
                /\ v1.lag = c.instret + 1 /\ v1.page = PageOf(c.pc_start)
  BY <1>1, Zenon
<1>3. Kept(b1, b2) /\ \E w : Gen(b2, u, w) /\ Like(v1, w)
  BY <1>2, BeforeInstruction, Zenon DEF Charged
<1> HIDE DEF b2
<1>4. PICK v2 : Gen(b2, u, v2) /\ Like(v1, v2)
  BY <1>3, Zenon
<1>5. Kept(b2, b3) /\ \E w : Gen(b3, u, w) /\ Like(v2, w)
  BY <1>4, AfterInstruction, Zenon DEF Charged
<1> HIDE DEF b3
<1>6. PICK v3 : Gen(b3, u, v3) /\ Like(v2, v3)
  BY <1>5, Zenon
<1>7. Kept(b3, d) /\ d.cycles = 0 /\ \E w : Gen(d, u, w) /\ Like(v3, w)
  BY <1>6, EmitSleep, Zenon
<1> HIDE DEF d
<1>8. PICK w : Gen(d, u, w) /\ Like(v3, w)
  BY <1>7, Zenon
<1>9. /\ w.mode = "in" /\ w.inst = b /\ w.cur = c.pc_start + c.pc_cur /\ w.pc = c.pc_start
      /\ w.lag = c.instret + 1 /\ w.page = PageOf(c.pc_start)
  BY <1>2, <1>4, <1>6, <1>8, Zenon DEF Like, Near
<1>10. /\ d.pc_start = c.pc_start /\ d.pc_cur = c.pc_cur /\ d.pc_end = l
       /\ d.instret = c.instret
  BY <1>1, <1>3, <1>5, <1>7, Zenon DEF Kept
<1> QED BY <1>7, <1>8, <1>9, <1>10, Zenon DEF b1, b2, b3, d

\* compile_cond_op: the instruction fused to it, where the branch is not taken.
\* The branch has been retired in the Context.
LEMMA CondOp ==
  ASSUME NEW c \in Compiler, NEW f \in View, f.mode = "idle", f.due = c.cycles, c.code = <<>>,
         f.nxt = c.pc_start + c.pc_cur, f.pc = c.pc_start,
         f.lag = c.instret + 1, f.page = PageOf(c.pc_start),
         NEW i \in Insn, model \in Models,
         c.pc_end = c.pc_cur + i.len,
         PageOf(c.pc_start + c.pc_cur + i.len - 1) = PageOf(c.pc_start)
  PROVE  LET t == At(emit(c, <<"instret", 1>>), i)
             d == before_side_effect(after_instruction(emit_op(before_instruction(Fetched(t), i), i), i))
         IN  /\ Kept(c, d) /\ d.cycles = 0
             /\ \E w : /\ Gen(d, f, w)
                       /\ w.mode # "dead" =>
                             /\ Follows(w, c.pc_start + c.pc_cur + i.len)
                             /\ w.pc = c.pc_start /\ w.lag = c.instret + 1 /\ w.due = 0
                             /\ w.page = PageOf(c.pc_start)
<1> DEFINE c1 == emit(c, <<"instret", 1>>)
           t == At(c1, i)
           c2 == Fetched(t)
           c3 == after_instruction(emit_op(before_instruction(c2, i), i), i)
           d == before_side_effect(c3)
           l == c.pc_end
<1>a. /\ c.pc_start \in Int /\ c.pc_cur \in Int /\ l \in Int /\ c.instret \in Int
      /\ i.len \in {1, 2}
  BY CompilerFields, Zenon DEF Insn
<1>b. c.pc_start + l - 1 = c.pc_start + c.pc_cur + i.len - 1
  BY <1>a
<1>1. Gen(c, f, f)
  BY GenEmpty, Zenon
<1>2. /\ Kept(c, c1)
      /\ \E w : Gen(c1, f, w) /\ Near(f, w) /\ w.pc = f.pc /\ w.lag = f.lag - 1
  BY <1>1, EmitInstret
<1> HIDE DEF c1
<1>3. PICK v1 : Gen(c1, f, v1) /\ Near(f, v1) /\ v1.pc = f.pc /\ v1.lag = c.instret
  BY <1>2, <1>a
<1>4. c1.pc_start = c.pc_start /\ c1.pc_cur = c.pc_cur /\ c1.pc_end = l /\ c1.instret = c.instret
  BY <1>2, Zenon DEF Kept
<1>5. Ready(c1, v1)
  BY <1>3, <1>4, Zenon DEF Ready, Follows, Near
<1>6. t = WithEnd(t, l)
  <2>1. c1 \in Compiler
    BY <1>3, Zenon DEF Gen
  <2>2. <<"at", c1.pc_start + c1.pc_cur, i>> \in Host
    BY <1>4, <1>a DEF Host
  <2>3. t \in Compiler /\ t.pc_end = l
    BY <1>4, <2>1, <2>2, EmitFields, Zenon DEF At, Kept
  <2> HIDE DEF t, l
  <2> QED BY <2>3, Zenon DEF WithEnd, Compiler
<1>7. /\ c2.pc_start = c.pc_start /\ c2.pc_cur = c.pc_cur /\ c2.pc_end = l
      /\ c2.instret = c.instret
      /\ \E w : /\ Gen(c2, f, w) /\ w.mode = "in" /\ w.inst = i
                /\ w.cur = c.pc_start + c.pc_cur /\ w.pc = c.pc_start
                /\ w.lag = c.instret + 1 /\ w.page = PageOf(c.pc_start)
  <2>1. PageOf(c1.pc_start + c1.pc_cur + i.len - 1) = PageOf(c1.pc_start)
    BY <1>4, Zenon
  <2>2. PageOf(c1.pc_start + l - 1) = PageOf(c1.pc_start)
    BY <1>4, <1>b, Zenon
  <2> HIDE DEF l
  <2>3. /\ c2.pc_start = c1.pc_start /\ c2.pc_cur = c1.pc_cur /\ c2.pc_end = l
        /\ c2.instret = c1.instret
        /\ \E w : /\ Gen(c2, f, w) /\ w.mode = "in" /\ w.inst = i
                  /\ w.cur = c1.pc_start + c1.pc_cur /\ w.pc = c1.pc_start
                  /\ w.lag = c1.instret + 1 /\ w.page = PageOf(c1.pc_start)
    BY <1>3, <1>5, <1>6, <1>a, <2>1, <2>2, Open
  <2> QED BY <2>3, <1>4, Zenon
<1> HIDE DEF t, c2
<1>8. PICK v2 : /\ Gen(c2, f, v2) /\ v2.mode = "in" /\ v2.inst = i
                /\ v2.cur = c.pc_start + c.pc_cur /\ v2.pc = c.pc_start
                /\ v2.lag = c.instret + 1 /\ v2.page = PageOf(c.pc_start)
  BY <1>7, Zenon
<1>9. Body(c2, v2, i)
  BY <1>7, <1>8, <1>a DEF Body
<1>10. /\ Kept(c2, c3)
       /\ \E w : /\ Gen(c3, f, w)
                 /\ IF i.k \in Leaving THEN w.mode = "dead" ELSE Passed(v2, w)
  BY <1>8, <1>9, Operate, Zenon
<1> HIDE DEF c3
<1>11. PICK v3 : Gen(c3, f, v3) /\ (v3.mode # "dead" => Passed(v2, v3))
  BY <1>10, Zenon
<1>12. Kept(c3, d) /\ d.cycles = 0 /\ \E w : Gen(d, f, w) /\ Like(v3, w)
  BY <1>11, EmitSleep, Zenon
<1> HIDE DEF d
<1>13. PICK w : Gen(d, f, w) /\ Like(v3, w)
  BY <1>12, Zenon
<1>14. ASSUME w.mode # "dead"
       PROVE  /\ Follows(w, c.pc_start + c.pc_cur + i.len)
              /\ w.pc = c.pc_start /\ w.lag = c.instret + 1 /\ w.due = 0
              /\ w.page = PageOf(c.pc_start)
  <2>1. Passed(v2, v3)
    BY <1>11, <1>13, <1>14, Zenon DEF Like, Near
  <2>2. Passed(v2, w)
    BY <2>1, <1>13, Zenon DEF Passed, Follows, Like, Near
  <2>3. w.due = 0
    BY <1>12, <1>13, Zenon DEF Gen
  <2> QED BY <1>8, <2>2, <2>3, Zenon DEF Passed
<1>15. Kept(c, d)
  BY <1>7, <1>10, <1>12, Zenon DEF Kept
<1> QED BY <1>12, <1>13, <1>14, <1>15, Zenon DEF d, c3, c2, t, c1
\* A compiler for the path on which the branch is not taken.
LEMMA SplitFields ==
  ASSUME NEW c \in Compiler, NEW n \in Int
  PROVE  LET d == [c EXCEPT !.code = <<>>, !.pc_cur = @ + n]
         IN  /\ d \in Compiler /\ d.code = <<>> /\ d.pc_cur = c.pc_cur + n
             /\ d.pc_start = c.pc_start /\ d.pc_end = c.pc_end /\ d.instret = c.instret
             /\ d.cycles = c.cycles
<1> DEFINE q == <<>>
           e == [c EXCEPT !.code = q]
           d == [e EXCEPT !.pc_cur = @ + n]
<1>0. q \in Seq(Host)
  OBVIOUS
<1>1. [c EXCEPT !.code = <<>>, !.pc_cur = @ + n] = d
  BY Zenon DEF Compiler
<1>2. /\ e \in Compiler /\ e.code = <<>> /\ e.pc_cur = c.pc_cur
      /\ e.pc_start = c.pc_start /\ e.pc_end = c.pc_end /\ e.instret = c.instret
      /\ e.cycles = c.cycles
  <2>1. /\ e \in Compiler /\ e.code = q /\ e.pc_cur = c.pc_cur
        /\ e.pc_start = c.pc_start /\ e.pc_end = c.pc_end /\ e.instret = c.instret
        /\ e.cycles = c.cycles
    <3> HIDE DEF q
    <3> QED BY <1>0, Zenon DEF Compiler
  <2> QED BY <2>1, Zenon
<1> HIDE DEF e
<1>3. /\ d \in Compiler /\ d.code = e.code /\ d.pc_cur = e.pc_cur + n
      /\ d.pc_start = e.pc_start /\ d.pc_end = e.pc_end /\ d.instret = e.instret
      /\ d.cycles = e.cycles
  BY <1>2 DEF Compiler
<1> HIDE DEF d
<1> QED BY <1>1, <1>2, <1>3, Zenon

\* compile_cond_op: both ways out of the branch get to the instruction after
\* the fused one, with the same pc, instret and cycles.
LEMMA CompileCondOpFlows ==
  ASSUME NEW c, NEW u, NEW v, Gen(c, u, v), Ready(c, v), model \in Models,
         NEW b \in Insn, NEW i \in Insn, b.k = "br", b.imm = b.len + i.len,
         PageOf(c.pc_start + c.pc_cur + b.len - 1) = PageOf(c.pc_start),
         PageOf(c.pc_start + c.pc_cur + b.len + i.len - 1) = PageOf(c.pc_start)
  PROVE  LET d == compile_cond_op(c, b, i)
         IN  /\ d.pc_start = c.pc_start /\ d.pc_cur = c.pc_cur + b.len + i.len
             /\ \E w : Gen(d, u, w) /\ Ready(d, w)
<1> DEFINE l == c.pc_cur + b.len + i.len
           a == At(c, b)
           c0 == WithEnd(a, l)
           c1 == IF same_cache_line(c.pc_start + c.pc_cur - 1, c.pc_start + c0.pc_end - 1)
                 THEN c0 ELSE emit_icache_access(c0, c0.pc_end - 1)
           c2 == before_side_effect(after_instruction(before_instruction(Fetched(c1), b), b))
           x == [c2 EXCEPT !.code = <<>>, !.pc_cur = @ + b.len]
           t == At(emit(x, <<"instret", 1>>), i)
           t2 == before_side_effect(after_instruction(emit_op(before_instruction(Fetched(t), i), i), i))
           s == t2.code
           r == c2.code \o <<<<"jcc", Len(s)>>>> \o s
           n == c.instret + 1
           d == Counters(WithCode(t2, r), c0.pc_end, n)
<1>0. compile_cond_op(c, b, i) = [t2 EXCEPT !.code = r, !.pc_cur = c0.pc_end, !.instret = n]
  BY Zenon DEF compile_cond_op, WithEnd
<1>a. /\ c \in Compiler /\ b.len \in {1, 2} /\ i.len \in {1, 2} /\ b.imm \in Int
      /\ c.pc_start \in Int /\ c.pc_cur \in Int /\ c.instret \in Int
  BY CompilerFields, Zenon DEF Gen, Insn
<1>b. /\ l \in Int /\ n \in Int
      /\ c.pc_start + l - 1 = c.pc_start + c.pc_cur + b.len + i.len - 1
  BY <1>a
<1>c. c0.pc_end = l
  <2>1. a \in Compiler
    <3>1. <<"at", c.pc_start + c.pc_cur, b>> \in Host
      BY <1>a DEF Host
    <3> QED BY <3>1, <1>a, EmitFields, Zenon DEF At
  <2> HIDE DEF a, l
  <2> QED BY <2>1, Zenon DEF WithEnd, Compiler
<1>d. PageOf(c.pc_start + l - 1) = PageOf(c.pc_start)
  BY <1>b, Zenon
<1>e. l = (c.pc_cur + b.len) + i.len
  BY Zenon
<1>1. c1 = WithEnd(a, l) \/ c1 = emit_icache_access(WithEnd(a, l), l - 1)
  BY <1>c, Zenon
<1> HIDE DEF c1, c0, l, n
<1>2. /\ c2.pc_start = c.pc_start /\ c2.pc_cur = c.pc_cur /\ c2.pc_end = l
      /\ c2.instret = c.instret /\ c2.cycles = 0
      /\ \E w : /\ Gen(c2, u, w) /\ w.mode = "in" /\ w.inst = b
                /\ w.cur = c.pc_start + c.pc_cur /\ w.pc = c.pc_start
                /\ w.lag = c.instret + 1 /\ w.page = PageOf(c.pc_start)
  BY <1>1, <1>b, <1>d, CondBranch
<1> HIDE DEF a, c2
<1>3. PICK v2 : /\ Gen(c2, u, v2) /\ v2.mode = "in" /\ v2.inst = b
                /\ v2.cur = c.pc_start + c.pc_cur /\ v2.pc = c.pc_start
                /\ v2.lag = c.instret + 1 /\ v2.page = PageOf(c.pc_start)
  BY <1>2, Zenon
<1>4. c2 \in Compiler /\ v2 \in View /\ v2.due = 0
  BY <1>2, <1>3, Zenon DEF Gen
<1> DEFINE f == IdleAt(v2, v2.cur + v2.inst.len)
           h == IdleAt(v2, v2.cur + v2.inst.imm)
<1>5. /\ f \in View /\ f.mode = "idle" /\ f.nxt = c.pc_start + (c.pc_cur + b.len) /\ f.pc = c.pc_start
      /\ f.lag = c.instret + 1 /\ f.due = 0 /\ f.page = PageOf(c.pc_start)
  <2>1. v2.cur + v2.inst.len \in Int /\ v2.cur + v2.inst.len = c.pc_start + (c.pc_cur + b.len)
    BY <1>3, <1>a
  <2> QED BY <1>3, <1>4, <2>1, IdleAtFields, Zenon
<1>6. /\ h \in View /\ h.mode = "idle" /\ h.nxt = c.pc_start + (c.pc_cur + b.len) + i.len
      /\ h.pc = c.pc_start
      /\ h.lag = c.instret + 1 /\ h.due = 0 /\ h.page = PageOf(c.pc_start)
  <2>1. /\ v2.cur + v2.inst.imm \in Int
        /\ v2.cur + v2.inst.imm = c.pc_start + (c.pc_cur + b.len) + i.len
    BY <1>3, <1>a
  <2> QED BY <1>3, <1>4, <2>1, IdleAtFields, Zenon
<1>7. Fall(<<"jcc", Len(s)>>, v2) = f /\ Hop(<<"jcc", Len(s)>>, v2) = h
  BY Zenon DEF Fall, Hop
<1> HIDE DEF f, h
<1>8. /\ x \in Compiler /\ x.code = <<>> /\ x.pc_cur = c.pc_cur + b.len
      /\ x.pc_start = c.pc_start /\ x.pc_end = l /\ x.instret = c.instret /\ x.cycles = 0
  <2>1. b.len \in Int
    BY <1>a
  <2> QED BY <1>2, <1>4, <2>1, SplitFields, Zenon
<1> HIDE DEF x
<1>9. PageOf(x.pc_start + x.pc_cur + i.len - 1) = PageOf(x.pc_start)
  <2>1. x.pc_start + x.pc_cur + i.len - 1 = c.pc_start + c.pc_cur + b.len + i.len - 1
    BY <1>8, <1>a, SMTT(20)
  <2> QED BY <1>8, <2>1, Zenon
<1>10. /\ Kept(x, t2) /\ t2.cycles = 0
       /\ \E w : /\ Gen(t2, f, w)
                 /\ w.mode # "dead" =>
                       /\ Follows(w, x.pc_start + x.pc_cur + i.len)
                       /\ w.pc = x.pc_start /\ w.lag = x.instret + 1 /\ w.due = 0
                       /\ w.page = PageOf(x.pc_start)
  BY <1>5, <1>8, <1>9, <1>e, CondOp
<1> HIDE DEF t, t2
<1>11. PICK w : /\ Gen(t2, f, w)
                /\ w.mode # "dead" =>
                      /\ Follows(w, h.nxt)
                      /\ w.pc = h.pc /\ w.lag = h.lag /\ w.due = h.due /\ w.page = h.page
  BY <1>6, <1>8, <1>10, Zenon
<1>12. Sub(w, h) /\ Sub(h, h) /\ Branching(v2) /\ "jcc" \in Jumps
  BY <1>3, <1>6, <1>11, Zenon DEF Sub, Branching, Jumps
<1>13. s \in Seq(Host) /\ Flows(s, f, w) /\ t2 \in Compiler
  BY <1>11, CompilerFields, Zenon DEF Gen
<1> HIDE DEF s
<1>14. r \in Seq(Host) /\ Flows(r, u, h)
  BY <1>3, <1>6, <1>7, <1>12, <1>13, GenJump, Zenon
<1> HIDE DEF r
<1>15. Gen(WithCode(t2, r), u, h) /\ Kept(t2, WithCode(t2, r))
  BY <1>6, <1>10, <1>13, <1>14, GenWithCode, Zenon
<1>16. compile_cond_op(c, b, i) = d
  <2>1. compile_cond_op(c, b, i) = [t2 EXCEPT !.code = r, !.pc_cur = l, !.instret = n]
    BY <1>0, <1>c, Zenon
  <2>2. d = [[t2 EXCEPT !.code = r] EXCEPT !.pc_cur = l, !.instret = n]
    BY <1>c, Zenon DEF Counters, WithCode
  <2>3. [[t2 EXCEPT !.code = r] EXCEPT !.pc_cur = l, !.instret = n]
          = [t2 EXCEPT !.code = r, !.pc_cur = l, !.instret = n]
    BY <1>13, Zenon DEF Compiler
  <2> QED BY <2>1, <2>2, <2>3, Zenon
<1>17. Gen(d, u, h) /\ d.pc_cur = l /\ d.instret = n /\ d.pc_start = c.pc_start
  <2> DEFINE y == WithCode(t2, r)
  <2>1. Gen(y, u, h) /\ y.pc_start = c.pc_start
    BY <1>8, <1>10, <1>15, Zenon DEF Kept
  <2> HIDE DEF y
  <2>2. d = Counters(y, l, n)
    BY <1>c, Zenon DEF y
  <2> HIDE DEF d
  <2> QED BY <1>b, <2>1, <2>2, SetCounters
<1> HIDE DEF d
<1>18. Ready(d, h)
  <2>1. h.nxt = d.pc_start + d.pc_cur
    BY <1>6, <1>17, <1>a, <1>e
  <2> QED BY <1>6, <1>17, <2>1, Zenon DEF Ready, Follows, n
<1> QED BY <1>16, <1>17, <1>18, Zenon DEF l

\* end: the jump to the next block is direct only within a line.
LEMMA EndFlows ==
  ASSUME NEW c, NEW u, NEW v, Gen(c, u, v), Ready(c, v),
         PageOf(c.pc_start + c.pc_cur - 1) = PageOf(c.pc_start)
  PROVE  Kept(c, end(c)) /\ \E w : Gen(end(c), u, w) /\ w.mode = "dead"
<1> DEFINE e == c.pc_start + c.pc_cur
           b1 == emit(c, <<"pc", c.pc_cur>>)
           b2 == emit(b1, <<"instret", c.instret>>)
           c1 == emit_interrupt_check(b2)
           d == IF same_cache_line(e - 1, e) THEN emit_direct_jump(c1) ELSE emit_chain_tail(c1)
<1>0. end(c) = d
  <2>1. post_adjust_pc_instret(c) = b2
    BY Zenon DEF post_adjust_pc_instret
  <2> QED BY <2>1, Zenon DEF end
<1>a. /\ c \in Compiler /\ v \in View /\ c.pc_start \in Int /\ c.pc_cur \in Int
      /\ c.instret \in Int /\ e \in Int
  BY CompilerFields DEF Gen
<1>b. Follows(v, e) /\ v.pc = c.pc_start /\ v.lag = c.instret /\ v.page = PageOf(e - 1)
  BY <1>a DEF Ready
<1>c. v.mode \in {"idle", "in", "taken"}
  BY <1>b, Zenon DEF Follows
<1> HIDE DEF e
<1>1. Kept(c, b1) /\ \E w : Gen(b1, u, w) /\ Near(v, w) /\ w.pc = v.pc + c.pc_cur /\ w.lag = v.lag
  BY <1>a, <1>c, EmitPc
<1> HIDE DEF b1
<1>2. PICK v1 : Gen(b1, u, v1) /\ Near(v, v1) /\ v1.pc = e /\ v1.lag = c.instret
  BY <1>1, <1>b, Zenon DEF e
<1>3. Kept(b1, b2) /\ \E w : Gen(b2, u, w) /\ Near(v1, w) /\ w.pc = v1.pc /\ w.lag = v1.lag - c.instret
  BY <1>2, <1>a, EmitInstret
<1> HIDE DEF b2
<1>4. PICK v2 : Gen(b2, u, v2) /\ Near(v, v2) /\ v2.pc = e /\ v2.lag = 0
  BY <1>2, <1>3, <1>a DEF Near
<1>5. Follows(v2, v2.pc)
  BY <1>4, <1>b, Zenon DEF Follows, Near
<1>6. Kept(b2, c1) /\ \E w : Gen(c1, u, w) /\ Like(v2, w) /\ Settled(w)
  BY <1>4, <1>5, EmitCheck, Zenon
<1> HIDE DEF c1
<1>7. PICK v3 : Gen(c1, u, v3) /\ Near(v, v3) /\ v3.pc = e /\ Settled(v3)
  BY <1>4, <1>6, Zenon DEF Like, Near
<1>k. Kept(c, c1)
  BY <1>1, <1>3, <1>6, Zenon DEF Kept
<1>8. CASE ~same_cache_line(e - 1, e)
  <2>1. Kept(c1, emit_chain_tail(c1)) /\ \E w : Gen(emit_chain_tail(c1), u, w) /\ w.mode = "dead"
    BY <1>7, EmitTail, Zenon
  <2> QED BY <1>0, <1>8, <1>k, <2>1, Zenon DEF Kept
<1>9. CASE same_cache_line(e - 1, e)
  <2>1. e - 1 \in Int
    BY <1>a
  <2>2. v3.page = PageOf(v3.pc)
    BY <1>7, <1>9, <1>a, <1>b, <2>1, SameLineSamePage DEF Near
  <2>3. v3.mode # "out"
    BY <1>7, <1>c, Zenon DEF Near
  <2>4. Kept(c1, emit_direct_jump(c1)) /\ \E w : Gen(emit_direct_jump(c1), u, w) /\ w.mode = "dead"
    BY <1>7, <2>2, <2>3, EmitDirect
  <2> QED BY <1>0, <1>9, <1>k, <2>4, Zenon DEF Kept
<1> QED BY <1>8, <1>9, Zenon
\* A compiler that goes on with the same code from another address.
Moved(c, e) == [c EXCEPT !.pc_start = e, !.pc_end = 0, !.stall = FALSE, !.cycles = 0]

LEMMA MoveFields ==
  ASSUME NEW c, NEW u, NEW v, Gen(c, u, v), c.cycles = 0, NEW e \in Int
  PROVE  LET d == Moved(c, e)
         IN  /\ Gen(d, u, v) /\ d.pc_start = e /\ d.pc_end = 0
             /\ d.pc_cur = c.pc_cur /\ d.instret = c.instret
<1> DEFINE n == 0
           f == FALSE
           x == [c EXCEPT !.pc_start = e, !.pc_end = n]
           d == [x EXCEPT !.stall = f, !.cycles = n]
<1>1. c \in Compiler /\ c.cycles = n /\ n \in Nat /\ f \in BOOLEAN
  BY Zenon DEF Gen
<1>2. Moved(c, e) = d
  BY Zenon DEF Compiler, Moved
<1>3. n = 0
  BY Zenon
<1> HIDE DEF n, f
<1>4. /\ x \in Compiler /\ x.pc_start = e /\ x.pc_end = n /\ x.pc_cur = c.pc_cur
      /\ x.instret = c.instret /\ x.cycles = n /\ x.code = c.code
  <2>1. n \in Int
    BY <1>1
  <2> QED BY <1>1, <2>1, Zenon DEF Compiler
<1> HIDE DEF x
<1>5. /\ d \in Compiler /\ d.pc_start = x.pc_start /\ d.pc_end = x.pc_end /\ d.pc_cur = x.pc_cur
      /\ d.instret = x.instret /\ d.cycles = n /\ d.code = x.code
  BY <1>1, <1>4, Zenon DEF Compiler
<1> HIDE DEF d
<1> QED BY <1>1, <1>2, <1>3, <1>4, <1>5 DEF Gen

\* The instruction at the end of the page has been fetched, in both pages, and
\* the pc moved past it.
LEMMA CrossFetch ==
  ASSUME NEW c, NEW u, NEW v, Gen(c, u, v), Ready(c, v), NEW i \in Insn, i.len = 2
  PROVE  LET e == c.pc_start + c.pc_cur + i.len
             d == emit_icache_access(Counters(pre_adjust_pc_instret(At(c, i), i), -2, -1), -1)
         IN  /\ d.pc_cur = -2 /\ d.instret = -1 /\ d.cycles = 0
             /\ \E w : /\ Gen(d, u, w) /\ w.mode = "in" /\ w.inst = i /\ w.cur = e - 2
                       /\ w.pc = e /\ w.lag = 0 /\ w.page = PageOf(e - 1)
<1> DEFINE a == c.pc_start + c.pc_cur
           e == a + i.len
           b1 == At(c, i)
           b2 == pre_adjust_pc_instret(b1, i)
           b3 == Counters(b2, -2, -1)
           d == emit_icache_access(b3, -1)
<1>a. /\ c.pc_start \in Int /\ c.pc_cur \in Int /\ c.instret \in Int /\ i.len \in Int
      /\ a \in Int /\ e \in Int
  BY CompilerFields DEF Gen, Insn
<1>b. e - 2 = a /\ e = c.pc_start + (c.pc_cur + i.len) /\ e + (-1) = e - 1 /\ e + (-2) = a
  BY <1>a
<1> HIDE DEF a, e
<1>1. /\ Kept(c, b1)
      /\ \E w : /\ Gen(b1, u, w) /\ w.mode = "in" /\ w.cur = a /\ w.inst = i
                /\ w.pc = v.pc /\ w.lag = v.lag + 1 /\ w.page = v.page
  <2>1. Follows(v, a) /\ b1 = emit(c, <<"at", a, i>>)
    BY Zenon DEF Ready, At, a
  <2> HIDE DEF b1
  <2> QED BY <1>a, <2>1, EmitAt
<1> HIDE DEF b1
<1>2. PICK v1 : /\ Gen(b1, u, v1) /\ v1.mode = "in" /\ v1.cur = a /\ v1.inst = i
                /\ v1.pc = c.pc_start /\ v1.lag = b1.instret + 1
  BY <1>1, Zenon DEF Ready, Kept
<1>3. \E w : Gen(b2, u, w) /\ Near(v1, w) /\ w.pc = v1.pc + (b1.pc_cur + i.len) /\ w.lag = 0
  BY <1>2, PrePcInstret
<1> HIDE DEF b2
<1>4. PICK v2 : /\ Gen(b2, u, v2) /\ v2.mode = "in" /\ v2.cur = a /\ v2.inst = i
                /\ v2.pc = e /\ v2.lag = 0
  BY <1>1, <1>2, <1>3, <1>b, Zenon DEF Near, Kept
<1>5. Gen(b3, u, v2) /\ b3.pc_cur = -2 /\ b3.instret = -1
  BY <1>4, SetCounters
<1> HIDE DEF b3
<1>6. v2.pc + b3.pc_cur = v2.cur /\ v2.lag = b3.instret + 1
  BY <1>4, <1>5, <1>b
<1>7. /\ Kept(b3, d) /\ d.cycles = 0
      /\ \E w : /\ Gen(d, u, w) /\ w.mode = v2.mode /\ w.cur = v2.cur /\ w.inst = v2.inst
                /\ w.pc = v2.pc /\ w.lag = v2.lag /\ w.page = PageOf(v2.pc + (-1))
  BY <1>4, <1>5, <1>6, EmitFetch
<1> HIDE DEF d
<1>8. /\ d.pc_cur = -2 /\ d.instret = -1 /\ d.cycles = 0
      /\ \E w : /\ Gen(d, u, w) /\ w.mode = "in" /\ w.inst = i /\ w.cur = e - 2
                /\ w.pc = e /\ w.lag = 0 /\ w.page = PageOf(e - 1)
  BY <1>4, <1>5, <1>7, <1>b, Zenon DEF Kept
<1> QED BY <1>8, Zenon DEF d, b3, b2, b1, e, a

\* end_cross
LEMMA EndCrossFlows ==
  ASSUME NEW c, NEW u, NEW v, Gen(c, u, v), Ready(c, v), NEW i \in Insn, i.len = 2,
         model \in Models
  PROVE  LET d == end_cross(c, i)
         IN  /\ d.pc_start = c.pc_start + c.pc_cur + i.len /\ d.pc_cur = -2
             /\ \E w : Gen(d, u, w) /\ w.mode = "dead"
<1> DEFINE e == c.pc_start + c.pc_cur + i.len
           c1 == emit_icache_access(Counters(pre_adjust_pc_instret(At(c, i), i), -2, -1), -1)
           m == Moved(c1, e)
           d0 == begin_block(m, e - 1)
           f == Fetched(d0)
           d1 == emit_op(before_instruction(f, i), i)
           d2 == after_instruction(d1, i)
           d3 == emit_interrupt_check(d2)
<1>0. end_cross(c, i) = IF i.k \in Leaving THEN d1 ELSE emit_chain_tail(d3)
  BY Zenon DEF end_cross, Counters, Moved, Leaving
<1>a. c.pc_start \in Int /\ c.pc_cur \in Int /\ i.len \in Int /\ e \in Int
  BY CompilerFields DEF Gen, Insn
<1>b. e = (e - 2) + i.len /\ e - 2 = e + (-2) /\ e + 0 = e /\ e - 2 \in Int
  BY <1>a
<1>1. /\ c1.pc_cur = -2 /\ c1.instret = -1 /\ c1.cycles = 0
      /\ \E w : /\ Gen(c1, u, w) /\ w.mode = "in" /\ w.inst = i /\ w.cur = e - 2
                /\ w.pc = e /\ w.lag = 0 /\ w.page = PageOf(e - 1)
  BY CrossFetch
<1> HIDE DEF c1, e
<1>2. PICK v1 : /\ Gen(c1, u, v1) /\ v1.mode = "in" /\ v1.inst = i /\ v1.cur = e - 2
                /\ v1.pc = e /\ v1.lag = 0 /\ v1.page = PageOf(e - 1)
  BY <1>1, Zenon
<1>3. Gen(m, u, v1) /\ m.pc_start = e /\ m.pc_end = 0 /\ m.pc_cur = -2 /\ m.instret = -1
  BY <1>a, <1>1, <1>2, MoveFields
<1> HIDE DEF m
<1>4. Kept(m, d0) /\ \E w : Gen(d0, u, w) /\ Like(v1, w)
  BY <1>3, BeginBlock, Zenon DEF Charged
<1> HIDE DEF d0
<1>5. PICK v2 : Gen(d0, u, v2) /\ Like(v1, v2)
  BY <1>4, Zenon
<1>6. v2.mode = "in" /\ v2.page = PageOf(v2.cur + v2.inst.len - 1)
  BY <1>2, <1>5, <1>b DEF Like, Near
<1>7. Kept(d0, f) /\ Gen(f, u, v2)
  BY <1>5, <1>6, EmitExec, Zenon
<1> HIDE DEF f
<1>8. Body(f, v2, i)
  BY <1>2, <1>3, <1>4, <1>5, <1>6, <1>7, <1>b DEF Body, Like, Near, Kept
<1>k. f.pc_start = e /\ f.pc_cur = -2
  BY <1>3, <1>4, <1>7, Zenon DEF Kept
<1>9. CASE i.k \in Leaving
  <2> DEFINE g == before_instruction(f, i)
  <2>1. Kept(f, g) /\ \E w : Gen(g, u, w) /\ Like(v2, w)
    BY <1>7, BeforeInstruction, Zenon DEF Charged
  <2> HIDE DEF g
  <2>2. PICK v3 : Gen(g, u, v3) /\ Like(v2, v3)
    BY <2>1, Zenon
  <2>3. Body(g, v3, i)
    BY <1>8, <2>1, <2>2, Zenon DEF Body, Kept, Like, Near
  <2>4. Kept(g, emit_op(g, i)) /\ \E w : Gen(emit_op(g, i), u, w) /\ w.mode = "dead"
    BY <1>9, <2>2, <2>3, EmitOp
  <2>5. d1 = emit_op(g, i)
    BY Zenon DEF g
  <2> HIDE DEF d1
  <2>6. d1.pc_start = e /\ d1.pc_cur = -2
    BY <1>k, <2>1, <2>4, <2>5 DEF Kept
  <2> QED BY <1>0, <1>9, <2>4, <2>5, <2>6, Zenon DEF e
<1>10. CASE i.k \notin Leaving
  <2>0. Kept(f, d2) /\ \E w : Gen(d2, u, w) /\ Passed(v2, w)
    BY <1>7, <1>8, <1>10, Operate
  <2> HIDE DEF d2
  <2>1. PICK w : Gen(d2, u, w) /\ Passed(v2, w)
    BY <2>0, Zenon
  <2>2. w.lag = 0 /\ Follows(w, w.pc)
    <3>1. v2.cur + v2.inst.len = e /\ v2.pc = e /\ v2.lag = 0
      BY <1>2, <1>5, <1>b, Zenon DEF Like, Near
    <3> QED BY <2>1, <3>1, Zenon DEF Passed
  <2>3. Kept(d2, d3) /\ \E x : Gen(d3, u, x) /\ Settled(x)
    BY <2>1, <2>2, EmitCheck, Zenon
  <2> HIDE DEF d3
  <2>4. /\ Kept(d3, emit_chain_tail(d3))
        /\ \E x : Gen(emit_chain_tail(d3), u, x) /\ x.mode = "dead"
    BY <2>3, EmitTail, Zenon
  <2>5. emit_chain_tail(d3).pc_start = e /\ emit_chain_tail(d3).pc_cur = -2
    BY <1>k, <2>0, <2>3, <2>4 DEF Kept
  <2> QED BY <1>0, <1>10, <2>4, <2>5, Zenon DEF e
<1> QED BY <1>9, <1>10, Zenon

-----------------------------------------------------------------------------
(* A block is entered *)

\* What is known at the entry of the block at a.
Entry(a) ==
  [mode |-> "idle", pc |-> a, cur |-> 0,
   inst |-> [k |-> "alu", len |-> 1, imm |-> 0, dep |-> FALSE],
   nxt |-> a, lag |-> 0, due |-> 0, page |-> PageOf(a)]

LEMMA EntryFields ==
  ASSUME NEW a \in Int
  PROVE  /\ Entry(a) \in View /\ Entry(a).mode = "idle" /\ Entry(a).pc = a /\ Entry(a).nxt = a
         /\ Entry(a).lag = 0 /\ Entry(a).due = 0 /\ Entry(a).page = PageOf(a)
<1> DEFINE i == [k |-> "alu", len |-> 1, imm |-> 0, dep |-> FALSE]
           p == PageOf(a)
<1>1. i \in Insn
  BY DEF Insn
<1>2. p \in Int
  <2>1. PageSize \in Int /\ PageSize > 0
    BY SizeAssumption
  <2> QED BY <2>1 DEF PageOf
<1>3. Entry(a) = [mode |-> "idle", pc |-> a, cur |-> 0, inst |-> i, nxt |-> a,
                  lag |-> 0, due |-> 0, page |-> p]
  BY Zenon DEF Entry
<1> HIDE DEF i, p
<1>4. /\ Entry(a) \in View /\ Entry(a).mode = "idle" /\ Entry(a).pc = a /\ Entry(a).nxt = a
      /\ Entry(a).lag = 0 /\ Entry(a).due = 0 /\ Entry(a).page = p
  BY <1>1, <1>2, <1>3 DEF View
<1> QED BY <1>4, Zenon DEF p

LEMMA BeginFlows ==
  ASSUME NEW a \in Int
  PROVE  LET d == begin(a)
         IN  /\ d.pc_start = a /\ d.pc_cur = 0
             /\ \E w : Gen(d, Entry(a), w) /\ Ready(d, w)
<1> DEFINE s == <<>>
           c == [pc_start |-> a, pc_cur |-> 0, pc_end |-> 0, instret |-> 0,
                 cycles |-> 0, stall |-> FALSE, code |-> s]
           d == begin_block(c, a)
<1>0. begin(a) = d
  BY Zenon DEF begin
<1>a. s \in Seq(Host)
  OBVIOUS
<1>1. /\ c \in Compiler /\ c.code = <<>> /\ c.pc_start = a /\ c.pc_cur = 0
      /\ c.instret = 0 /\ c.cycles = 0
  <2>1. /\ c \in Compiler /\ c.code = s /\ c.pc_start = a /\ c.pc_cur = 0
        /\ c.instret = 0 /\ c.cycles = 0
    <3> HIDE DEF s
    <3> QED BY <1>a DEF Compiler
  <2> QED BY <2>1, Zenon
<1> HIDE DEF c
<1>2. Gen(c, Entry(a), Entry(a))
  BY <1>1, EntryFields, GenEmpty, Zenon
<1>3. Kept(c, d) /\ \E w : Gen(d, Entry(a), w) /\ Like(Entry(a), w)
  BY <1>2, BeginBlock, Zenon DEF Charged
<1> HIDE DEF d
<1>4. PICK w : Gen(d, Entry(a), w) /\ Like(Entry(a), w)
  BY <1>3, Zenon
<1>5. d.pc_start = a /\ d.pc_cur = 0 /\ d.instret = 0 /\ a + 0 = a
  BY <1>1, <1>3 DEF Kept
<1>6. Ready(d, w)
  BY <1>4, <1>5, EntryFields, Zenon DEF Ready, Like, Near, Follows
<1> QED BY <1>0, <1>4, <1>5, <1>6, Zenon
=============================================================================
