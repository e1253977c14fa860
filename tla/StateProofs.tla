----------------------------- MODULE StateProofs ----------------------------
(***************************************************************************)
(* What a hart caches stays right: translated code (CodeProt) and the      *)
(* lines of its L0 caches (L0).                                            *)
(*                                                                         *)
(* In lockstep mode the guarantee of CODE_PROT holds for any number of     *)
(* harts.  The argument goes through Covered: code that a hart can jump to *)
(* is of a page of CODE_PROT, or its removal is queued.  A store is then   *)
(* harmless if its page is not in CODE_PROT (StoresOutside), which is what *)
(* the write-protection of lines is for (Protected).                       *)
(*                                                                         *)
(* The lines of L0 need Walked as well: what a walk has found stays right  *)
(* until its line is inserted.                                             *)
(*                                                                         *)
(* Its CSRs (Csr) change as they should: floating-point state only when FS *)
(* says so, nothing that a higher level owns, a pending software interrupt *)
(* only on request, and whatever makes an interrupt one to be taken alerts *)
(* the hart.  This argument is about outcomes.  Frame says what an access  *)
(* to a register may change; Reads and Writes show that every arm of       *)
(* read_csr and write_csr stays within it, StepCsrShape and EmittedShape   *)
(* that the interpreter and the emitted code do, and FrameGood draws the   *)
(* properties from it.  CsrInv is what the next step needs of the state.   *)
(***************************************************************************)
EXTENDS CodeProt, L0, Csr, TLAPS

-----------------------------------------------------------------------------
(* Translated code (CodeProt).                                             *)

\* The mode, and that None is none of the values it stands beside.
InLockstep == Lockstep /\ None \notin Harts /\ None \notin Page

Line == [v : Page \cup {None}, ro : BOOLEAN, x : Page]

TypeOK ==
    /\ map \in [Page -> Page] /\ ram \in [Page -> Content]
    /\ lines \in [Harts -> Line]
    /\ prot \in SUBSET Page /\ lock \in Harts \cup {None}
    /\ blocks \in [Harts -> SUBSET Page]
    /\ code \in [Harts -> [Page -> Content \cup {None}]]
    /\ tasks \in [Harts -> SUBSET Page]
    /\ pc \in [Harts -> {"idle", "tag", "xor", "invalidate", "store", "protect", "translate"}]
    /\ arg \in [Harts -> Page]
    /\ left \in SUBSET Harts /\ dma \in Page \cup {None}

\* One hart at a time is inside an instruction.
OneBusy == \A h, k \in Harts : pc[h] # "idle" /\ pc[k] # "idle" => h = k

\* The lock is held by the hart that protects lines, whose page is in CODE_PROT.
LockHeld ==
    /\ lock # None => pc[lock] = "protect"
    /\ \A h \in Harts : pc[h] = "protect" => lock = h /\ arg[h] \in prot

\* A page about to be translated is in CODE_PROT, unless a device wrote to it.
Registered ==
    \A h \in Harts : pc[h] = "translate" => arg[h] \in prot \/ arg[h] \in tasks[h]

\* How far the insertion of a line has come.
Inserting ==
    \A h \in Harts :
      /\ pc[h] = "xor" => lines[h].v = arg[h]
      /\ pc[h] = "invalidate" => lines[h].v # None /\ paddr(lines[h]) = arg[h]

\* No complete line lets its hart write to a page of CODE_PROT, but for those
\* of the page just added that protect_code has yet to visit.
Protected ==
    \A h \in Harts :
      /\ lines[h].v # None /\ ~lines[h].ro /\ pc[h] \notin {"xor", "invalidate"}
      /\ paddr(lines[h]) \in prot
      => lock # None /\ h \in left /\ paddr(lines[h]) = arg[lock]

StoresOutside == \A h \in Harts : pc[h] = "store" => arg[h] \notin prot

\* Code is that of a block of the map: what empties the map forgets the code.
InMap == \A h \in Harts, p \in Page : code[h][p] # None => p \in blocks[h]

Covered == \A h \in Harts, p \in Page : code[h][p] # None => p \in prot \/ p \in tasks[h]

Control == TypeOK /\ OneBusy /\ LockHeld
IInv == /\ Control /\ Registered /\ Inserting /\ Protected /\ StoresOutside
        /\ InMap /\ Covered /\ CodeTrue

-----------------------------------------------------------------------------
\* The XOR a line keeps gives the physical page back.
LEMMA XorPage ==
    \A a, b \in Page : Xor(a, b) \in Page /\ Xor(a, Xor(a, b)) = b
<1>1. (0 + 0) % 2 = 0 /\ (0 + 1) % 2 = 1 /\ (1 + 0) % 2 = 1 /\ (1 + 1) % 2 = 0
  OBVIOUS
<1> QED BY <1>1, Zenon DEF Page, Xor

LEMMA InitIInv == InLockstep /\ CodeInit => IInv
<1> SUFFICES ASSUME InLockstep, CodeInit PROVE IInv
  BY Zenon
<1> USE DEF CodeInit, InLockstep
<1>1. TypeOK
  BY Zenon DEF TypeOK, Line, Empty, Page, Content
<1>2. OneBusy /\ LockHeld /\ Registered /\ Inserting /\ StoresOutside
  BY Zenon DEF OneBusy, LockHeld, Registered, Inserting, StoresOutside
<1>3. Protected
  BY Zenon DEF Protected, Empty
<1>4. InMap /\ Covered /\ CodeTrue
  BY Zenon DEF InMap, Covered, CodeTrue
<1> QED BY <1>1, <1>2, <1>3, <1>4, Zenon DEF IInv, Control

\* A step of a hart finds every other hart idle, and no lock but its own.
LEMMA Alone ==
    ASSUME InLockstep, Control, NEW h \in Harts, CanStep(h)
    PROVE  /\ \A k \in Harts : k # h => pc[k] = "idle"
           /\ pc[h] # "protect" => lock = None
BY Zenon DEF InLockstep, Control, CanStep, LockHeld, TypeOK

-----------------------------------------------------------------------------
(* One lemma per action.                                                   *)

LEMMA TranslateWriteStep ==
    ASSUME InLockstep, IInv, NEW h \in Harts, NEW v \in Page, TranslateWrite(h, v)
    PROVE  IInv'
<1> USE DEF TranslateWrite, Goto, IInv
<1>1. (\A k \in Harts : k # h => pc[k] = "idle") /\ lock = None /\ pc[h] = "idle"
  BY Alone, Zenon
<1>2. paddr(lines[h]) \in Page \/ lines[h].v = None
  BY XorPage, Zenon DEF Control, TypeOK, Line, paddr
<1>3. TypeOK'
  <2>1. pc' \in [Harts -> {"idle", "tag", "xor", "invalidate", "store", "protect", "translate"}]
    BY Zenon DEF Control, TypeOK
  <2>2. arg' \in [Harts -> Page]
    <3>1. PICK a \in Page : arg' = [arg EXCEPT ![h] = a]
      BY <1>2, Zenon DEF InLockstep
    <3>2. arg \in [Harts -> Page]
      BY Zenon DEF Control, TypeOK
    <3> HIDE DEF TranslateWrite, IInv
    <3> QED BY <3>1, <3>2, Zenon
  <2> QED BY <2>1, <2>2 DEF Control, TypeOK
<1>4. \A k \in Harts : k # h => pc'[k] = pc[k] /\ arg'[k] = arg[k]
  BY DEF Control, TypeOK
<1>5. \/ pc'[h] = "tag"
      \/ pc'[h] = "store" /\ arg'[h] = paddr(lines[h]) /\ lines[h].v = v /\ ~lines[h].ro
  BY Zenon DEF Control, TypeOK
<1>6. OneBusy' /\ LockHeld' /\ Registered' /\ Inserting'
  BY <1>1, <1>4, <1>5, Zenon DEF OneBusy, LockHeld, Registered, Inserting
<1>7. StoresOutside'
  BY <1>1, <1>4, <1>5 DEF StoresOutside, Protected, InLockstep
<1>8. Protected'
  BY <1>1, <1>4, <1>5, Zenon DEF Protected, paddr
<1>9. InMap' /\ Covered' /\ CodeTrue'
  BY Zenon DEF InMap, Covered, CodeTrue
<1> QED BY <1>3, <1>6, <1>7, <1>8, <1>9, Zenon DEF Control

LEMMA TranslateReadStep ==
    ASSUME InLockstep, IInv, NEW h \in Harts, NEW v \in Page, TranslateRead(h, v)
    PROVE  IInv'
<1> USE DEF TranslateRead, IInv
<1>1. Xor(v, map[v]) \in Page
  BY XorPage, Zenon DEF Control, TypeOK
<1>2. TypeOK'
  <2>1. [v |-> v, ro |-> TRUE, x |-> Xor(v, map[v])] \in Line
    BY <1>1, Zenon DEF Line
  <2>2. lines' \in [Harts -> Line]
    BY <2>1, Zenon DEF Control, TypeOK
  <2> QED BY <2>2, Zenon DEF Control, TypeOK
<1>3. \A k \in Harts : lines'[k] = IF k = h THEN [v |-> v, ro |-> TRUE, x |-> Xor(v, map[v])]
                                  ELSE lines[k]
  BY Zenon DEF Control, TypeOK
<1>4. Inserting' /\ Protected'
  BY <1>3 DEF Inserting, Protected, paddr
<1>5. OneBusy' /\ LockHeld' /\ Registered' /\ StoresOutside'
  BY Zenon DEF Control, OneBusy, LockHeld, Registered, StoresOutside
<1>6. InMap' /\ Covered' /\ CodeTrue'
  BY Zenon DEF InMap, Covered, CodeTrue
<1> QED BY <1>2, <1>4, <1>5, <1>6, Zenon DEF Control

LEMMA InsertTagStep ==
    ASSUME InLockstep, IInv, NEW h \in Harts, InsertTag(h)
    PROVE  IInv'
<1> USE DEF InsertTag, Goto, IInv
<1>1. TypeOK'
  <2>1. lines[h] \in Line /\ arg[h] \in Page /\ arg[h] \in Page \cup {None}
    BY Zenon DEF Control, TypeOK
  <2>2. [lines[h] EXCEPT !.v = arg[h], !.ro = FALSE] \in Line
    BY <2>1, Zenon DEF Line
  <2>3. lines' = [lines EXCEPT ![h] = [lines[h] EXCEPT !.v = arg[h], !.ro = FALSE]]
    BY Zenon DEF Control, TypeOK
  <2>4. lines' \in [Harts -> Line]
    BY <2>2, <2>3, Zenon DEF Control, TypeOK
  <2>5. pc' = [pc EXCEPT ![h] = "xor"]
    BY Zenon
  <2> QED BY <2>4, <2>5, Zenon DEF Control, TypeOK
<1>2. \A k \in Harts : k # h => pc'[k] = pc[k] /\ lines'[k] = lines[k]
  BY Zenon DEF Control, TypeOK
<1>3. pc'[h] = "xor" /\ lines'[h].v = arg[h]
  BY Zenon DEF Control, TypeOK, Line
<1>4. Inserting' /\ Protected'
  <2>1. arg' = arg /\ prot' = prot /\ lock' = lock /\ left' = left
    BY Zenon
  <2>2. Inserting'
    BY <1>2, <1>3, <2>1, Zenon DEF Inserting, paddr
  <2>3. Protected'
    BY <1>2, <1>3, <2>1, Zenon DEF Protected, paddr
  <2> QED BY <2>2, <2>3, Zenon
<1>5. OneBusy' /\ LockHeld' /\ Registered' /\ StoresOutside'
  BY <1>2, <1>3, Zenon DEF Control, TypeOK, InLockstep, OneBusy, LockHeld, Registered, StoresOutside
<1>6. InMap' /\ Covered' /\ CodeTrue'
  BY Zenon DEF InMap, Covered, CodeTrue
<1> QED BY <1>1, <1>4, <1>5, <1>6, Zenon DEF Control

LEMMA InsertXorStep ==
    ASSUME InLockstep, IInv, NEW h \in Harts, InsertXor(h)
    PROVE  IInv'
<1> USE DEF InsertXor, Goto, IInv
<1>1. arg[h] \in Page /\ map[arg[h]] \in Page /\ Xor(arg[h], map[arg[h]]) \in Page
  BY XorPage, Zenon DEF Control, TypeOK
<1>2. TypeOK'
  <2>1. lines[h] \in Line /\ lines \in [Harts -> Line]
    BY Zenon DEF Control, TypeOK
  <2>2. [lines[h] EXCEPT !.x = Xor(arg[h], map[arg[h]])] \in Line
    BY <1>1, <2>1, Zenon DEF Line
  <2>3. lines' = [lines EXCEPT ![h] = [lines[h] EXCEPT !.x = Xor(arg[h], map[arg[h]])]]
    BY <2>1, Zenon
  <2>4. lines' \in [Harts -> Line]
    BY <2>1, <2>2, <2>3, Zenon
  <2>5. arg' \in [Harts -> Page]
    BY <1>1, Zenon DEF Control, TypeOK
  <2>6. pc' = [pc EXCEPT ![h] = "invalidate"]
    BY Zenon
  <2> QED BY <2>4, <2>5, <2>6, Zenon DEF Control, TypeOK
<1>3. \A k \in Harts : k # h => pc'[k] = pc[k] /\ lines'[k] = lines[k] /\ arg'[k] = arg[k]
  BY Zenon DEF Control, TypeOK
<1>4. pc'[h] = "invalidate" /\ arg'[h] = map[arg[h]] /\ lines'[h].v = arg[h]
      /\ lines'[h].x = Xor(arg[h], map[arg[h]])
  BY DEF Control, TypeOK, Line, Inserting
<1>5. paddr(lines'[h]) = arg'[h]
  BY <1>1, <1>4, XorPage, Zenon DEF paddr
<1>6. Inserting'
  BY <1>1, <1>3, <1>4, <1>5 DEF Inserting, InLockstep, paddr
<1>7. Protected'
  <2>1. lock = None
    BY Alone, Zenon
  <2> QED BY <1>3, <1>4, <2>1 DEF Protected, paddr
<1>8. OneBusy' /\ LockHeld' /\ Registered' /\ StoresOutside'
  BY <1>3, <1>4 DEF Control, TypeOK, InLockstep, OneBusy, LockHeld, Registered, StoresOutside
<1>9. InMap' /\ Covered' /\ CodeTrue'
  BY Zenon DEF InMap, Covered, CodeTrue
<1> QED BY <1>2, <1>6, <1>7, <1>8, <1>9, Zenon DEF Control

\* What icache_invalidate leaves: the page out of CODE_PROT, its blocks doomed.
LEMMA Invalidated ==
    ASSUME Control, NEW p \in Page, icache_invalidate(p)
    PROVE  /\ lock = None /\ prot' = prot \ {p} /\ prot' \in SUBSET Page
           /\ tasks' \in [Harts -> SUBSET Page]
           /\ \A k \in Harts : tasks[k] \subseteq tasks'[k] /\ (p \in prot => p \in tasks'[k])
BY Zenon DEF icache_invalidate, Control, TypeOK

LEMMA InvalidateStep ==
    ASSUME InLockstep, IInv, NEW h \in Harts, Invalidate(h)
    PROVE  IInv'
<1> USE DEF Invalidate, Goto, IInv
<1>1. (\A k \in Harts : k # h => pc[k] = "idle") /\ lock = None
  BY Alone, Zenon
<1>2. arg[h] \in Page
  BY Zenon DEF Control, TypeOK
<1>3. /\ prot' = prot \ {arg[h]} /\ prot' \in SUBSET Page /\ tasks' \in [Harts -> SUBSET Page]
      /\ \A k \in Harts : tasks[k] \subseteq tasks'[k] /\ (arg[h] \in prot => arg[h] \in tasks'[k])
  BY <1>2, Invalidated, Zenon
<1>4. TypeOK'
  BY <1>3, Zenon DEF Control, TypeOK
<1>5. pc'[h] = "store" /\ \A k \in Harts : k # h => pc'[k] = "idle"
  BY <1>1, Zenon DEF Control, TypeOK
<1>6. OneBusy' /\ LockHeld' /\ Registered' /\ StoresOutside'
  BY <1>1, <1>3, <1>5, Zenon DEF OneBusy, LockHeld, Registered, StoresOutside
<1>7. Inserting'
  BY <1>5, Zenon DEF Inserting
<1>8. paddr(lines[h]) = arg[h]
  BY Zenon DEF Inserting
<1>9. Protected'
  BY <1>1, <1>3, <1>5, <1>8, Zenon DEF Protected, paddr
<1>10. InMap' /\ Covered' /\ CodeTrue'
  BY <1>3, Zenon DEF InMap, Covered, CodeTrue
<1> QED BY <1>4, <1>6, <1>7, <1>9, <1>10, Zenon DEF Control

LEMMA StoreStep ==
    ASSUME InLockstep, IInv, NEW h \in Harts, Store(h)
    PROVE  IInv'
<1> USE DEF Store, Done, IInv
<1>1. (\A k \in Harts : k # h => pc[k] = "idle") /\ lock = None
  BY Alone, Zenon
<1>2. PICK c \in Content : ram' = [ram EXCEPT ![arg[h]] = c]
  BY Zenon
<1>3. TypeOK'
  BY <1>2, Zenon DEF Control, TypeOK, Page
<1>4. \A k \in Harts : pc'[k] = "idle"
  BY <1>1, Zenon DEF Control, TypeOK
<1>5. OneBusy' /\ LockHeld' /\ Registered' /\ Inserting' /\ StoresOutside'
  BY <1>1, <1>4, Zenon DEF OneBusy, LockHeld, Registered, Inserting, StoresOutside
<1>6. Protected'
  BY <1>1, <1>4, Zenon DEF Protected, paddr
<1>7. InMap' /\ Covered'
  BY Zenon DEF InMap, Covered
<1>8. arg[h] \notin prot
  BY Zenon DEF StoresOutside
<1>9. \A p \in Page : p # arg[h] => ram'[p] = ram[p]
  BY <1>2, Zenon DEF Control, TypeOK
<1>10. CodeTrue'
  BY <1>8, <1>9, Zenon DEF CodeTrue, Covered
<1> QED BY <1>3, <1>5, <1>6, <1>7, <1>10 DEF Control

LEMMA FindBlockStep ==
    ASSUME InLockstep, IInv, NEW h \in Harts, NEW p \in Page, FindBlock(h, p)
    PROVE  IInv'
<1> USE DEF FindBlock, Goto, IInv
<1>1. (\A k \in Harts : k # h => pc[k] = "idle") /\ lock = None /\ pc[h] = "idle"
  BY Alone, Zenon
<1>2. TypeOK'
  BY Zenon DEF Control, TypeOK
<1>3. \A k \in Harts : k # h => pc'[k] = "idle"
  BY <1>1, Zenon DEF Control, TypeOK
<1>4. /\ arg'[h] = p /\ prot' = prot \cup {p}
      /\ \/ pc'[h] = "translate" /\ lock' = lock /\ prot' = prot
         \/ pc'[h] = "protect" /\ lock' = h /\ left' = Harts
  BY DEF Control, TypeOK
<1>5. h # None
  BY Zenon DEF InLockstep
<1>6. OneBusy' /\ LockHeld' /\ Registered' /\ Inserting' /\ StoresOutside'
  BY <1>1, <1>3, <1>4, <1>5, Zenon DEF OneBusy, LockHeld, Registered, Inserting, StoresOutside
<1>7. Protected'
  BY <1>1, <1>4, <1>5, Zenon DEF Protected, paddr
<1>8. InMap' /\ Covered' /\ CodeTrue'
  BY <1>4, Zenon DEF InMap, Covered, CodeTrue
<1> QED BY <1>2, <1>6, <1>7, <1>8, Zenon DEF Control

LEMMA ProtectOneStep ==
    ASSUME InLockstep, IInv, NEW h \in Harts, ProtectOne(h)
    PROVE  IInv'
<1> USE DEF ProtectOne, Goto, IInv
<1>1. (\A k \in Harts : k # h => pc[k] = "idle") /\ lock = h /\ pc[h] = "protect"
  BY Alone, Zenon DEF Control, LockHeld
<1>2. PICK k \in left : /\ lines' = [lines EXCEPT ![k] = protect_code(@, k, arg[h])]
                        /\ left' = left \ {k}
  BY Zenon
<1>3. k \in Harts /\ lines[k] \in Line
  BY Zenon DEF Control, TypeOK
<1>4. /\ protect_code(lines[k], k, arg[h]) \in Line
      /\ protect_code(lines[k], k, arg[h]).v = lines[k].v
      /\ paddr(protect_code(lines[k], k, arg[h])) = paddr(lines[k])
  BY <1>3, Zenon DEF protect_code, Line, paddr
<1>5. TypeOK'
  BY <1>2, <1>4, Zenon DEF Control, TypeOK
<1>6. /\ arg' = arg /\ prot' = prot /\ tasks' = tasks
      /\ \/ pc' = pc /\ lock' = lock
         \/ lock' = None /\ left' = {} /\ pc'[h] = "translate" /\ \A j \in Harts : j # h => pc'[j] = pc[j]
  BY Zenon DEF Control, TypeOK
<1>7. OneBusy' /\ LockHeld' /\ Registered' /\ StoresOutside'
  BY <1>1, <1>6, Zenon DEF Control, OneBusy, LockHeld, Registered, StoresOutside
<1>8. Inserting'
  BY <1>1, <1>6, Zenon DEF Inserting
<1>9. Protected'
  <2> SUFFICES ASSUME NEW j \in Harts, lines'[j].v # None, ~lines'[j].ro, paddr(lines'[j]) \in prot
               PROVE  lock' # None /\ j \in left' /\ paddr(lines'[j]) = arg[h] /\ lock' = h
    BY <1>6, Zenon DEF Protected, paddr
  <2>1. j # k
    <3> SUFFICES ASSUME j = k PROVE FALSE
      BY Zenon
    <3>1. lines'[k] = protect_code(lines[k], k, arg[h])
      BY <1>2, <1>3, Zenon DEF Control, TypeOK
    <3>2. lines'[k] = lines[k] /\ paddr(lines[k]) # arg[h]
      BY <1>3, <3>1, Zenon DEF protect_code, Line
    <3> QED BY <1>1, <3>2, Zenon DEF Protected
  <2>2. lines'[j] = lines[j] /\ (j \in left => j \in left')
    BY <1>2, <1>3, <2>1, Zenon DEF Control, TypeOK
  <2>3. j \in left /\ paddr(lines[j]) = arg[h]
    BY <1>1, <2>2, Zenon DEF Protected
  <2> QED BY <1>1, <1>6, <2>2, <2>3 DEF InLockstep
<1>10. InMap' /\ Covered' /\ CodeTrue'
  BY Zenon DEF InMap, Covered, CodeTrue
<1> QED BY <1>5, <1>7, <1>8, <1>9, <1>10, Zenon DEF Control

LEMMA TranslateCodeStep ==
    ASSUME InLockstep, IInv, NEW h \in Harts, TranslateCode(h)
    PROVE  IInv'
<1> USE DEF TranslateCode, Done, IInv
<1>1. (\A k \in Harts : k # h => pc[k] = "idle") /\ lock = None
  BY Alone, Zenon
<1>2. arg[h] \in Page /\ ram[arg[h]] \in Content /\ (arg[h] \in prot \/ arg[h] \in tasks[h])
  BY Zenon DEF Control, TypeOK, Registered, Page
<1>3. PICK rollover \in BOOLEAN :
        LET old == IF rollover THEN [p \in Page |-> None] ELSE code[h]
        IN  /\ code' = [code EXCEPT ![h] = [old EXCEPT ![arg[h]] = ram[arg[h]]]]
            /\ blocks' = [blocks EXCEPT ![h] = (IF rollover THEN {} ELSE @) \cup {arg[h]}]
  BY Zenon
<1>4. TypeOK'
  <2>1. code' \in [Harts -> [Page -> Content \cup {None}]]
    BY <1>2, <1>3, Zenon DEF Control, TypeOK
  <2>2. blocks' \in [Harts -> SUBSET Page]
    BY <1>2, <1>3 DEF Control, TypeOK
  <2>3. /\ pc' \in [Harts -> {"idle", "tag", "xor", "invalidate", "store", "protect", "translate"}]
        /\ arg' \in [Harts -> Page]
    BY Zenon DEF Control, TypeOK, Page
  <2> QED BY <2>1, <2>2, <2>3, Zenon DEF Control, TypeOK
<1>5. \A k \in Harts : pc'[k] = "idle"
  BY <1>1, Zenon DEF Control, TypeOK
<1>6. OneBusy' /\ LockHeld' /\ Registered' /\ Inserting' /\ StoresOutside'
  BY <1>1, <1>5, Zenon DEF OneBusy, LockHeld, Registered, Inserting, StoresOutside
<1>7. Protected'
  BY <1>1, <1>5, Zenon DEF Protected, paddr
<1>8. \A k \in Harts : k # h => code'[k] = code[k] /\ blocks'[k] = blocks[k]
  BY <1>3, Zenon DEF Control, TypeOK
<1>9. code'[h][arg[h]] = ram[arg[h]] /\ arg[h] \in blocks'[h]
  BY <1>2, <1>3, Zenon DEF Control, TypeOK
<1>10. \A p \in Page : p # arg[h] /\ code'[h][p] # None => code'[h][p] = code[h][p] /\ (p \in blocks[h] => p \in blocks'[h])
  BY <1>2, <1>3, Zenon DEF Control, TypeOK
<1>11. InMap'
  BY <1>8, <1>9, <1>10, Zenon DEF InMap
<1>12. Covered'
  BY <1>2, <1>8, <1>9, <1>10 DEF Covered
<1>13. CodeTrue'
  BY <1>8, <1>9, <1>10, Zenon DEF CodeTrue
<1> QED BY <1>4, <1>6, <1>7, <1>11, <1>12, <1>13, Zenon DEF Control

LEMMA RunTasksStep ==
    ASSUME InLockstep, IInv, NEW h \in Harts, RunTasks(h)
    PROVE  IInv'
<1> USE DEF RunTasks, remove_blocks, IInv
<1>1. TypeOK'
  BY Zenon DEF Control, TypeOK
<1>2. OneBusy' /\ LockHeld' /\ Inserting' /\ StoresOutside' /\ Protected'
  BY Zenon DEF Control, OneBusy, LockHeld, Inserting, StoresOutside, Protected, paddr
<1>3. \A k \in Harts : k # h => code'[k] = code[k] /\ blocks'[k] = blocks[k] /\ tasks'[k] = tasks[k]
  BY Zenon DEF Control, TypeOK
<1>4. Registered'
  BY <1>3, Zenon DEF Registered
<1>5. blocks'[h] = blocks[h] \ tasks[h]
  BY Zenon DEF Control, TypeOK
<1>6. \A p \in Page : code'[h][p] # None => code'[h][p] = code[h][p] /\ p \notin tasks[h]
  BY Zenon DEF Control, TypeOK, InMap
<1>7. InMap' /\ Covered'
  BY <1>3, <1>5, <1>6 DEF InMap, Covered
<1>8. CodeTrue'
  BY <1>3, <1>6, Zenon DEF CodeTrue
<1> QED BY <1>1, <1>2, <1>4, <1>7, <1>8 DEF Control

LEMMA DmaCopyStep ==
    ASSUME InLockstep, IInv, NEW p \in Page, DmaCopy(p)
    PROVE  IInv'
<1> USE DEF DmaCopy, IInv
<1>1. PICK c \in Content : ram' = [ram EXCEPT ![p] = c]
  BY Zenon
<1>2. TypeOK'
  BY <1>1, Zenon DEF Control, TypeOK
<1>3. OneBusy' /\ LockHeld' /\ Registered' /\ Inserting' /\ StoresOutside' /\ Protected'
  BY Zenon DEF Control, OneBusy, LockHeld, Registered, Inserting, StoresOutside, Protected, paddr
<1>4. InMap' /\ Covered'
  BY Zenon DEF InMap, Covered
<1>5. \A q \in Page : q # p => ram'[q] = ram[q]
  BY <1>1, Zenon DEF Control, TypeOK
<1>6. CodeTrue'
  BY <1>5, Zenon DEF CodeTrue, InLockstep
<1> QED BY <1>2, <1>3, <1>4, <1>6, Zenon DEF Control

LEMMA DmaInvalidateStep ==
    ASSUME InLockstep, IInv, DmaInvalidate
    PROVE  IInv'
<1> USE DEF DmaInvalidate, IInv
<1>1. dma \in Page
  BY Zenon DEF Control, TypeOK
<1>2. /\ lock = None /\ prot' = prot \ {dma} /\ prot' \in SUBSET Page
      /\ tasks' \in [Harts -> SUBSET Page]
      /\ \A k \in Harts : tasks[k] \subseteq tasks'[k] /\ (dma \in prot => dma \in tasks'[k])
  BY <1>1, Invalidated, Zenon
<1>3. TypeOK'
  BY <1>2, Zenon DEF Control, TypeOK
<1>4. OneBusy' /\ Inserting'
  BY Zenon DEF Control, OneBusy, Inserting, paddr
<1>5. LockHeld' /\ Registered' /\ StoresOutside'
  BY <1>2, Zenon DEF Control, LockHeld, Registered, StoresOutside, InLockstep
<1>6. Protected'
  BY <1>2, Zenon DEF Protected, paddr
<1>7. InMap' /\ Covered'
  BY <1>2, Zenon DEF InMap, Covered
<1>8. CodeTrue'
  BY <1>2, Zenon DEF CodeTrue, Covered
<1> QED BY <1>3, <1>4, <1>5, <1>6, <1>7, <1>8 DEF Control

LEMMA SwitchModelStep ==
    ASSUME InLockstep, IInv, SwitchModel
    PROVE  IInv'
<1> USE DEF SwitchModel, IInv
<1>1. TypeOK'
  BY Zenon DEF Control, TypeOK, Line, Empty, Page
<1>2. OneBusy' /\ LockHeld' /\ Registered' /\ Inserting' /\ StoresOutside'
  BY Zenon DEF Control, OneBusy, LockHeld, Registered, Inserting, StoresOutside
<1>3. Protected'
  BY Zenon DEF Protected, Empty
<1>4. InMap' /\ Covered' /\ CodeTrue'
  BY Zenon DEF InMap, Covered, CodeTrue
<1> QED BY <1>1, <1>2, <1>3, <1>4, Zenon DEF Control

LEMMA StepIInv == InLockstep /\ IInv /\ [CodeNext]_codeVars => IInv'
<1> SUFFICES ASSUME InLockstep, IInv, [CodeNext]_codeVars PROVE IInv'
  BY Zenon
<1>1. CASE UNCHANGED codeVars
  <2>1. Control' /\ Registered' /\ StoresOutside' /\ InMap' /\ Covered' /\ CodeTrue'
    BY <1>1, Zenon DEF codeVars, IInv, Control, TypeOK, OneBusy, LockHeld, Registered, StoresOutside,
                InMap, Covered, CodeTrue
  <2>2. Inserting' /\ Protected'
    BY <1>1, Zenon DEF codeVars, IInv, Inserting, Protected, paddr
  <2> QED BY <2>1, <2>2, Zenon DEF IInv
<1>2. CASE CodeNext
  BY <1>2, TranslateWriteStep, TranslateReadStep, InsertTagStep, InsertXorStep, InvalidateStep,
     StoreStep, FindBlockStep, ProtectOneStep, TranslateCodeStep, RunTasksStep, DmaCopyStep,
     DmaInvalidateStep, SwitchModelStep DEF CodeNext
<1> QED BY <1>1, <1>2, Zenon

LEMMA Invariance == ASSUME InLockstep PROVE CodeSpec => []IInv
<1>1. CodeInit => IInv
  BY InitIInv, Zenon
<1>2. IInv /\ [CodeNext]_codeVars => IInv'
  BY StepIInv, Zenon
<1> QED BY <1>1, <1>2, PTL DEF CodeSpec

\* In lockstep mode the code a hart can jump to was translated from what memory
\* holds, or its removal is queued on that hart, for any number of harts.
THEOREM CodeIsTrue == ASSUME InLockstep PROVE CodeSpec => []CodeTrue
<1>1. IInv => CodeTrue
  BY Zenon DEF IInv
<1> QED BY <1>1, Invariance, PTL

\* In lockstep mode no line lets a hart write unnoticed to a page of CODE_PROT.
THEOREM CodeIsReadOnly == ASSUME InLockstep PROVE CodeSpec => []ProtectedIsReadOnly
<1>1. IInv => ProtectedIsReadOnly
  BY Zenon DEF IInv, Protected, ProtectedIsReadOnly
<1> QED BY <1>1, Invariance, PTL

-----------------------------------------------------------------------------
(* The L0 lines (L0).                                                      *)

L0TypeOK ==
    /\ threaded \in BOOLEAN /\ max \in {1, 3}
    /\ prv \in {0, 1, 3} /\ mpp \in {0, 1, 3} /\ spp \in {0, 1}
    /\ sum \in BOOLEAN /\ mxr \in BOOLEAN /\ mprv \in BOOLEAN
    /\ dirty \in BOOLEAN /\ slip \in BOOLEAN

\* A walk whose line is not inserted yet has found what the page table says,
\* unless the page table was changed or the hart was fenced meanwhile.
Walked ==
    pend # Nil =>
       /\ pend.access \in Access /\ pend.p # Fault
       /\ ~dirty /\ ~slip => translate_vaddr(pend.v, pend.access) = pend.p

L0Inv == L0TypeOK /\ Walked /\ LinesValid

LEMMA L0InitInv == L0Init => L0Inv
BY Zenon DEF L0Init, L0Inv, L0TypeOK, Walked, LinesValid

\* No entry that walk_page lets through can be written and not read.
LEMMA WritableReadable ==
    ASSUME NEW root, NEW v, NEW mem, "W" \in walk_page(root, v, mem).f
    PROVE  "R" \in walk_page(root, v, mem).f
<1> DEFINE pte == walk_loop(root, v, mem).pte
           end == walk_loop(root, v, mem)
           leaf == [ppn |-> pte.ppn + (v % end.unit),
                    f |-> pte.f \cup (IF end.g THEN {"G"} ELSE {})]
<1>1. walk_page(root, v, mem) # Invalid
  BY DEF Invalid
<1>2. /\ walk_page(root, v, mem) = leaf
      /\ pte.f \cap {"R", "W", "X"} \notin {{}, {"W"}, {"W", "X"}}
  BY <1>1, Zenon DEF walk_page
<1>3. leaf.f = pte.f \cup (IF end.g THEN {"G"} ELSE {})
  BY Zenon
<1> HIDE DEF leaf, end, pte
<1>4. "W" \in pte.f
  BY <1>2, <1>3, Zenon
<1>5. CASE "R" \notin pte.f
  <2>1. CASE "X" \in pte.f
    <3>1. pte.f \cap {"R", "W", "X"} = {"W", "X"}
      BY <1>4, <1>5, <2>1, Zenon
    <3> QED BY <3>1, <1>2, Zenon
  <2>2. CASE "X" \notin pte.f
    <3>1. pte.f \cap {"R", "W", "X"} = {"W"}
      BY <1>4, <1>5, <2>2, Zenon
    <3> QED BY <3>1, <1>2, Zenon
  <2> QED BY <2>1, <2>2, Zenon
<1> QED BY <1>2, <1>3, <1>5, Zenon

\* Where a store may go, a load may go, and to the same page.
LEMMA WriteReads ==
    ASSUME NEW v, translate_vaddr(v, "Write") # Fault
    PROVE  translate_vaddr(v, "Read") = translate_vaddr(v, "Write")
<1> DEFINE pte == walk_page(satp, v, ptm)
           p == IF prv = 3 /\ mprv THEN mpp ELSE prv
           T(a) == IF satp = Nil \/ p = 3 THEN v
                   ELSE IF check_permission(pte, a, p) THEN pte.ppn ELSE Fault
<1>1. translate_vaddr(v, "Write") = T("Write") /\ translate_vaddr(v, "Read") = T("Read")
  BY Zenon DEF translate_vaddr
<1>2. "W" \in pte.f => "R" \in pte.f
  BY WritableReadable, Zenon
<1> HIDE DEF pte, p
<1>3. check_permission(pte, "Write", p) => check_permission(pte, "Read", p)
  BY <1>2, Zenon DEF check_permission
<1> QED BY <1>1, <1>3, Zenon

\* What the lines depend on.
LEMMA SameTranslation ==
    ASSUME UNCHANGED <<ptm, satp, sum, mxr, mprv, prv>>,
           mpp' = mpp \/ ~mprv \/ prv # 3,
           NEW v, NEW a
    PROVE  translate_vaddr(v, a)' = translate_vaddr(v, a)
BY Zenon DEF translate_vaddr, check_permission

LEMMA KeptLines ==
    ASSUME L0Inv, NEW s \in BOOLEAN, KeepLines(s), dirty' = dirty,
           ~s => \A v, a : translate_vaddr(v, a)' = translate_vaddr(v, a)
    PROVE  LinesValid' /\ slip' \in BOOLEAN
<1>1. slip' \in BOOLEAN /\ (~slip' => ~s /\ ~slip) /\ line' = line /\ iline' = iline
  BY Zenon DEF KeepLines, L0Inv, L0TypeOK
<1>2. CASE slip' \/ dirty'
  BY <1>1, <1>2, Zenon DEF LinesValid
<1>3. CASE ~slip' /\ ~dirty'
  <2>1. \A v, a : translate_vaddr(v, a)' = translate_vaddr(v, a)
    BY <1>1, <1>3, Zenon
  <2>2. translate_vaddr(iline.v, "Execute")' = translate_vaddr(iline.v, "Execute")
    <3>1. \A v : translate_vaddr(v, "Execute")' = translate_vaddr(v, "Execute")
      BY <2>1, Zenon
    <3> QED BY <3>1, <1>1, Zenon DEF translate_vaddr, check_permission
  <2> QED BY <1>1, <1>3, <2>1, Zenon DEF LinesValid, L0Inv
<1> QED BY <1>2, <1>3, Zenon

LEMMA Inserted ==
    ASSUME L0Inv, NEW v, NEW access \in Access, NEW p, p # Fault,
           Insert(v, access, p),
           UNCHANGED <<mode, ptm, prv, satp, mstatus, dirty, slip>>,
           ~dirty /\ ~slip => translate_vaddr(v, access) = p
    PROVE  LinesValid'
<1>1. \A w, a : translate_vaddr(w, a)' = translate_vaddr(w, a)
  BY SameTranslation, Zenon DEF mstatus
<1>2. CASE slip' \/ dirty'
  BY <1>2, Zenon DEF LinesValid
<1>3. CASE ~slip' /\ ~dirty'
  <2>1. translate_vaddr(v, access) = p /\ ~slip /\ ~dirty
    BY <1>3, Zenon
  <2>2. CASE access = "Execute"
    <3>1. iline' = [v |-> v, p |-> p, ro |-> TRUE] /\ line' = line
      BY <2>2, Zenon DEF Insert
    <3>2. iline'.v = v /\ iline'.p = p
      BY <3>1, Zenon
    <3> QED BY <1>1, <2>1, <2>2, <3>1, <3>2 DEF LinesValid, L0Inv
  <2>3. CASE access = "Write"
    <3>1. line' = [v |-> v, p |-> p, ro |-> FALSE] /\ iline' = iline
      BY <2>3, Zenon DEF Insert
    <3>2. line'.v = v /\ line'.p = p
      BY <3>1, Zenon
    <3>3. translate_vaddr(v, "Write") = p /\ translate_vaddr(v, "Read") = p
      BY <2>1, <2>3, WriteReads, Zenon
    <3> QED BY <1>1, <2>1, <3>1, <3>2, <3>3 DEF LinesValid, L0Inv
  <2>4. CASE access = "Read"
    <3>1. line' = [v |-> v, p |-> p, ro |-> TRUE] /\ iline' = iline
      BY <2>4, Zenon DEF Insert
    <3>2. line'.v = v /\ line'.p = p /\ line'.ro
      BY <3>1, Zenon
    <3> QED BY <1>1, <2>1, <2>4, <3>1, <3>2 DEF LinesValid, L0Inv
  <2> QED BY <2>2, <2>3, <2>4, Zenon DEF Access
<1> QED BY <1>2, <1>3, Zenon

LEMMA MissStep == ASSUME L0Inv, NEW v \in Vpn, NEW a \in Access, Miss(v, a) PROVE L0Inv'
<1> DEFINE p == translate_vaddr(v, a)
<1>1. p # Fault /\ pend = Nil /\ UNCHANGED <<mode, ptm, prv, satp, mstatus, dirty, slip>>
  BY Zenon DEF Miss
<1>2. L0TypeOK'
  BY <1>1 DEF L0Inv, L0TypeOK, mode, mstatus
<1>3. \A w, b : translate_vaddr(w, b)' = translate_vaddr(w, b)
  BY <1>1, SameTranslation, Zenon DEF mstatus
<1>4. CASE ~threaded
  <2>1. Insert(v, a, p) /\ pend' = pend
    BY <1>4, Zenon DEF Miss
  <2>2. LinesValid'
    BY <1>1, <2>1, Inserted, Zenon
  <2> QED BY <1>1, <1>2, <2>1, <2>2, Zenon DEF L0Inv, Walked
<1>5. CASE threaded
  <2>1. pend' = [v |-> v, access |-> a, p |-> p] /\ line' = line /\ iline' = iline
    BY <1>5, Zenon DEF Miss
  <2>2. pend'.v = v /\ pend'.access = a /\ pend'.p = p
    BY <2>1, Zenon
  <2>3. Walked'
    BY <1>1, <1>3, <2>2, Zenon DEF Walked
  <2>4. LinesValid'
    BY <1>1, <1>3, <2>1, Zenon DEF LinesValid, L0Inv
  <2> QED BY <1>2, <2>3, <2>4, Zenon DEF L0Inv
<1> QED BY <1>4, <1>5, Zenon

LEMMA InsertPendingStep == L0Inv /\ InsertPending => L0Inv'
<1> SUFFICES ASSUME L0Inv, InsertPending PROVE L0Inv'
  BY Zenon
<1>1. /\ pend # Nil /\ Insert(pend.v, pend.access, pend.p) /\ pend' = Nil
      /\ UNCHANGED <<mode, ptm, prv, satp, mstatus, dirty, slip>>
  BY Zenon DEF InsertPending
<1>2. L0TypeOK'
  BY <1>1 DEF L0Inv, L0TypeOK, mode, mstatus
<1>3. pend.access \in Access /\ pend.p # Fault
      /\ (~dirty /\ ~slip => translate_vaddr(pend.v, pend.access) = pend.p)
  BY <1>1, Zenon DEF L0Inv, Walked
<1>4. LinesValid'
  BY <1>1, <1>3, Inserted, Zenon
<1> QED BY <1>1, <1>2, <1>4, Zenon DEF L0Inv, Walked

\* The lines are gone.
LEMMA ClearedLines == clear_local_cache => LinesValid' /\ slip' = FALSE
BY Zenon DEF clear_local_cache, LinesValid

\* The steps of the hart itself, which no walk is under way in.
LEMMA OwnStep ==
    ASSUME L0Inv, pend = Nil, pend' = pend, dirty' = dirty, UNCHANGED mode,
           prv' \in {0, 1, 3}, mpp' \in {0, 1, 3}, spp' \in {0, 1},
           sum' \in BOOLEAN, mxr' \in BOOLEAN, mprv' \in BOOLEAN,
           \/ clear_local_cache
           \/ /\ UNCHANGED <<ptm, satp, sum, mxr, mprv, prv>>
              /\ \E s \in BOOLEAN : KeepLines(s) /\ (mpp' = mpp \/ ~mprv \/ prv # 3 \/ s)
           \/ \E s \in BOOLEAN : KeepLines(s) /\ s
    PROVE  L0Inv'
<1>1. LinesValid' /\ slip' \in BOOLEAN
  <2>1. CASE clear_local_cache
    BY <2>1, ClearedLines, Zenon
  <2>2. CASE UNCHANGED <<ptm, satp, sum, mxr, mprv, prv>>
             /\ \E s \in BOOLEAN : KeepLines(s) /\ (mpp' = mpp \/ ~mprv \/ prv # 3 \/ s)
    <3>1. PICK s \in BOOLEAN : KeepLines(s) /\ (mpp' = mpp \/ ~mprv \/ prv # 3 \/ s)
      BY <2>2, Zenon
    <3>2. ~s => \A v, a : translate_vaddr(v, a)' = translate_vaddr(v, a)
      BY <2>2, <3>1, SameTranslation, Zenon
    <3> QED BY <3>1, <3>2, KeptLines, Zenon
  <2>3. CASE \E s \in BOOLEAN : KeepLines(s) /\ s
    <3>1. PICK s \in BOOLEAN : KeepLines(s) /\ s
      BY <2>3, Zenon
    <3> QED BY <3>1, KeptLines, Zenon
  <2> QED BY <2>1, <2>2, <2>3, Zenon
<1>2. L0TypeOK'
  BY <1>1, Zenon DEF L0Inv, L0TypeOK, mode
<1> QED BY <1>1, <1>2, Zenon DEF L0Inv, Walked

LEMMA TrapStep == ASSUME L0Inv, NEW deleg \in BOOLEAN, trap(deleg) PROVE L0Inv'
<1>1. /\ pend = Nil /\ UNCHANGED <<mode, ptm, satp, sum, mxr, mprv, pend, dirty>>
      /\ sum' \in BOOLEAN /\ mxr' \in BOOLEAN /\ mprv' \in BOOLEAN /\ mprv \in BOOLEAN
  BY Zenon DEF trap, L0Inv, L0TypeOK
<1>2. CASE prv # 3 /\ deleg
  <2>1. /\ spp' = prv /\ prv' = 1 /\ mpp' = mpp
        /\ IF prv = 0 THEN clear_local_cache ELSE KeepLines(FALSE)
    BY <1>2, Zenon DEF trap
  <2>2. prv' \in {0, 1, 3} /\ mpp' \in {0, 1, 3} /\ spp' \in {0, 1} /\ (prv # 0 => prv' = prv)
    BY <1>2, <2>1, Zenon DEF L0Inv, L0TypeOK
  <2> QED BY <1>1, <2>1, <2>2, OwnStep, Zenon
<1>3. CASE ~(prv # 3 /\ deleg)
  <2>1. /\ mpp' = prv /\ prv' = 3 /\ spp' = spp
        /\ IF prv # 3 THEN clear_local_cache ELSE KeepLines(mprv)
    BY <1>3, Zenon DEF trap
  <2>2. prv' \in {0, 1, 3} /\ mpp' \in {0, 1, 3} /\ spp' \in {0, 1}
    BY <2>1, Zenon DEF L0Inv, L0TypeOK
  <2> QED BY <1>1, <2>1, <2>2, OwnStep, Zenon
<1> QED BY <1>2, <1>3, Zenon

LEMMA ReturnStep == L0Inv /\ (Mret \/ Sret) => L0Inv'
<1>1. ASSUME L0Inv, Mret PROVE L0Inv'
  <2>1. /\ pend = Nil /\ prv' = mpp /\ mpp' = 0
        /\ IF mpp # 3 THEN clear_local_cache ELSE KeepLines(prv # 3 \/ mprv)
        /\ UNCHANGED <<mode, ptm, satp, sum, mxr, mprv, spp, pend, dirty>>
    BY <1>1, Zenon DEF Mret
  <2>2. /\ prv' \in {0, 1, 3} /\ mpp' \in {0, 1, 3} /\ spp' \in {0, 1}
        /\ sum' \in BOOLEAN /\ mxr' \in BOOLEAN /\ mprv' \in BOOLEAN
    BY <1>1, <2>1, Zenon DEF L0Inv, L0TypeOK
  <2>3. CASE mpp = 3 /\ (prv # 3 \/ mprv)
    <3>1. KeepLines(TRUE)
      BY <2>1, <2>3, Zenon DEF KeepLines
    <3> QED BY <1>1, <2>1, <2>2, <3>1, OwnStep, Zenon
  <2>4. CASE mpp = 3 /\ prv = 3 /\ ~mprv
    <3>1. KeepLines(FALSE) /\ prv' = prv
      BY <2>1, <2>4, Zenon DEF KeepLines
    <3> QED BY <1>1, <2>1, <2>2, <2>4, <3>1, OwnStep, Zenon
  <2>5. CASE mpp # 3
    BY <1>1, <2>1, <2>2, <2>5, OwnStep, Zenon
  <2> QED BY <2>3, <2>4, <2>5, Zenon
<1>2. ASSUME L0Inv, Sret PROVE L0Inv'
  <2>1. /\ pend = Nil /\ prv' = spp /\ spp' = 0
        /\ IF spp = 0 THEN clear_local_cache ELSE KeepLines(prv # 1)
        /\ UNCHANGED <<mode, ptm, satp, sum, mxr, mprv, mpp, pend, dirty>>
    BY <1>2, Zenon DEF Sret
  <2>2. /\ prv' \in {0, 1, 3} /\ mpp' \in {0, 1, 3} /\ spp' \in {0, 1}
        /\ sum' \in BOOLEAN /\ mxr' \in BOOLEAN /\ mprv' \in BOOLEAN
        /\ spp # 0 /\ prv = 1 => prv' = prv
    BY <1>2, <2>1 DEF L0Inv, L0TypeOK
  <2>3. CASE spp # 0 /\ prv # 1
    <3>1. KeepLines(TRUE)
      BY <2>1, <2>3, Zenon DEF KeepLines
    <3> QED BY <1>2, <2>1, <2>2, <3>1, OwnStep, Zenon
  <2>4. CASE spp # 0 /\ prv = 1
    <3>1. KeepLines(FALSE) /\ prv' = prv
      BY <2>1, <2>2, <2>4, Zenon DEF KeepLines
    <3> QED BY <1>2, <2>1, <2>2, <2>4, <3>1, OwnStep, Zenon
  <2>5. CASE spp = 0
    BY <1>2, <2>1, <2>2, <2>5, OwnStep, Zenon
  <2> QED BY <2>3, <2>4, <2>5, Zenon
<1> QED BY <1>1, <1>2, Zenon

LEMMA WriteStep == L0Inv /\ (WriteSatp \/ WriteSstatus \/ WriteMstatus) => L0Inv'
<1>1. ASSUME L0Inv, WriteSatp PROVE L0Inv'
  BY <1>1, OwnStep DEF WriteSatp, L0Inv, L0TypeOK, mstatus
<1>2. ASSUME L0Inv, WriteSstatus PROVE L0Inv'
  <2>1. /\ pend = Nil /\ UNCHANGED <<mode, ptm, prv, satp, mprv, mpp, pend, dirty>>
        /\ sum' \in BOOLEAN /\ mxr' \in BOOLEAN /\ spp' \in {0, 1}
        /\ clear_local_cache \/ (sum' = sum /\ mxr' = mxr /\ KeepLines(FALSE))
    BY <1>2, Zenon DEF WriteSstatus
  <2>2. prv' \in {0, 1, 3} /\ mpp' \in {0, 1, 3} /\ mprv' \in BOOLEAN
    BY <1>2, <2>1, Zenon DEF L0Inv, L0TypeOK
  <2> QED BY <1>2, <2>1, <2>2, OwnStep, Zenon
<1>3. ASSUME L0Inv, WriteMstatus PROVE L0Inv'
  <2>1. /\ pend = Nil /\ UNCHANGED <<mode, ptm, prv, satp, pend, dirty>>
        /\ sum' \in BOOLEAN /\ mxr' \in BOOLEAN /\ spp' \in {0, 1}
        /\ mprv' \in BOOLEAN /\ mpp' \in {0, 1, 3}
        /\ \/ clear_local_cache
           \/ UNCHANGED <<sum, mxr, mprv, mpp>> /\ KeepLines(FALSE)
    BY <1>3, Zenon DEF WriteMstatus
  <2>2. prv' \in {0, 1, 3}
    BY <1>3, <2>1 DEF L0Inv, L0TypeOK
  <2> QED BY <1>3, <2>1, <2>2, OwnStep, Zenon
<1> QED BY <1>1, <1>2, <1>3, Zenon

LEMMA FenceStep == L0Inv /\ (Sfence \/ FenceI \/ WritePte) => L0Inv'
<1>1. ASSUME L0Inv, Sfence PROVE L0Inv'
  BY <1>1, Zenon DEF Sfence, L0Inv, L0TypeOK, Walked, LinesValid, mode, mstatus
<1>2. ASSUME L0Inv, FenceI PROVE L0Inv'
  <2>1. /\ pend = Nil /\ iline' = Nil
        /\ UNCHANGED <<mode, ptm, prv, satp, mstatus, line, pend, dirty, slip>>
    BY <1>2, Zenon DEF FenceI
  <2>2. \A v, a : translate_vaddr(v, a)' = translate_vaddr(v, a)
    BY <2>1, SameTranslation, Zenon DEF mstatus
  <2>3. LinesValid'
    BY <1>2, <2>1, <2>2, Zenon DEF L0Inv, LinesValid
  <2> QED BY <1>2, <2>1, <2>3 DEF L0Inv, L0TypeOK, Walked, mode, mstatus
<1>3. ASSUME L0Inv, WritePte PROVE L0Inv'
  BY <1>3 DEF WritePte, L0Inv, L0TypeOK, Walked, LinesValid, mode, mstatus
<1> QED BY <1>1, <1>2, <1>3, Zenon

LEMMA L0StepInv == L0Inv /\ [L0Next]_l0Vars => L0Inv'
<1> SUFFICES ASSUME L0Inv, [L0Next]_l0Vars PROVE L0Inv'
  BY Zenon
<1>1. CASE UNCHANGED l0Vars
  <2>1. UNCHANGED <<mode, ptm, prv, satp, mstatus, line, iline, pend, dirty, slip>>
    BY <1>1, Zenon DEF l0Vars
  <2>2. \A v, a : translate_vaddr(v, a)' = translate_vaddr(v, a)
    BY <2>1, SameTranslation, Zenon DEF mstatus
  <2>3. LinesValid' /\ Walked'
    BY <2>1, <2>2, Zenon DEF L0Inv, LinesValid, Walked
  <2> QED BY <2>1, <2>3 DEF L0Inv, L0TypeOK, mode, mstatus
<1>2. CASE L0Next
  BY <1>2, MissStep, InsertPendingStep, TrapStep, ReturnStep, WriteStep, FenceStep DEF L0Next
<1> QED BY <1>1, <1>2, Zenon

\* Whatever sequence of misses, traps, returns, CSR writes and fences a hart goes
\* through, in both modes, a line that hits translates as the page table does for
\* the privilege and the mstatus of now, unless a fence is missing or one of the
\* changes has happened that the code keeps the lines over: for page tables of
\* any depth and content.
THEOREM LinesStayValid == L0Spec => []LinesValid
<1>1. L0Inv => LinesValid
  BY DEF L0Inv
<1> QED BY <1>1, L0InitInv, L0StepInv, PTL DEF L0Spec

-----------------------------------------------------------------------------
(* The CSRs (Csr).                                                          *)

FpCsr == {"Fflags", "Frm", "Fcsr"}
StatusCsr == {"Sstatus", "Mstatus"}
ReadOnlyCsr == {"Cycle", "Time", "Instret", "Mvendorid", "Mhartid"}

\* The registers that a write reaches; decode refuses the others.
WritableCsr ==
    FpCsr \cup StatusCsr \cup Supervisor \cup Machine
    \cup {"Sie", "Mie", "Sip", "Mip", "Mideleg", "Misa", "Minstret", "SwitchModel", "Stats",
          "Mcycle", "Mtime", "Unknown"}

LEMMA Names == CsrNames = WritableCsr \cup ReadOnlyCsr
BY DEF CsrNames, Number, WritableCsr, ReadOnlyCsr, FpCsr, StatusCsr, Supervisor, Machine

\* The bits of its number say which level a register belongs to.
LEMMA MachineLevels ==
    ASSUME NEW csr \in Machine \cup {"Mstatus", "Mideleg", "Mie", "Mip"}
    PROVE  min_prv_level(csr) = 3
BY DEF min_prv_level, Number, Machine
LEMMA SupervisorLevels ==
    ASSUME NEW csr \in Supervisor \cup {"Sstatus", "Sie", "Sip"}
    PROVE  min_prv_level(csr) = 1
BY DEF min_prv_level, Number, Supervisor

LEMMA ReadOnlyNumbers == ASSUME NEW csr \in ReadOnlyCsr PROVE readonly(csr)
BY DEF readonly, Number, ReadOnlyCsr

-----------------------------------------------------------------------------
(* The registers and the outcomes of instructions.                         *)

Reg == Supervisor \cup Machine
Bits == 0..63
Events == {"alert", "flush", "wake", "stop"}

Ctx == [prv : {0, 1, 3}, boot : {0, 1, 3}, mstatus : SUBSET MstatusMask,
        mie : SUBSET Interrupts, mip : SUBSET Interrupts, mideleg : SUBSET SLevel,
        reg : [Reg -> SUBSET Bits], frm : 0..4, fflags : SUBSET (0..4), f : Results, rm : 0..4]

Dirty(c) == [c EXCEPT !.mstatus = @ \cup FS]

LEMMA DirtyCtx ==
    ASSUME NEW c \in Ctx
    PROVE  /\ Dirty(c) \in Ctx /\ Dirty(c).mstatus = c.mstatus \cup FS
           /\ Dirty(c).prv = c.prv /\ Dirty(c).boot = c.boot /\ Dirty(c).mie = c.mie
           /\ Dirty(c).mip = c.mip /\ Dirty(c).mideleg = c.mideleg /\ Dirty(c).reg = c.reg
           /\ Dirty(c).frm = c.frm /\ Dirty(c).fflags = c.fflags /\ Dirty(c).f = c.f
           /\ Dirty(c).rm = c.rm
<1>1. c.mstatus \cup FS \in SUBSET MstatusMask
  BY Zenon DEF Ctx, FS, MstatusMask, SstatusMask
<1> QED BY <1>1, Zenon DEF Dirty, Ctx

LEMMA TestAndSet ==
    ASSUME NEW c \in Ctx
    PROVE  \/ test_and_set_fs(c) = [ok |-> FALSE, c |-> c, v |-> {}, did |-> {}]
           \/ test_and_set_fs(c) = [ok |-> TRUE, c |-> Dirty(c), v |-> {}, did |-> {}]
BY Zenon DEF test_and_set_fs, Fail, Wrote, Outcome, Dirty

\* What read_csr makes of the registers: nothing, or FS becomes Dirty.
ReadShape(c, csr, r) ==
    /\ r.v \in SUBSET Bits /\ r.did = {}
    /\ r.c = c \/ (csr \in FpCsr /\ r.c = Dirty(c))
    /\ csr = "Sip" => r.v = c.mip \cap c.mideleg
    /\ csr = "Mip" => r.v = c.mip

LEMMA Valued ==
    ASSUME NEW c, NEW v
    PROVE  /\ Value(c, v).c = c /\ Value(c, v).v = v
           /\ Value(c, v).did = {}
           /\ Fail(c).c = c /\ Fail(c).v = {} /\ Fail(c).did = {}
BY Zenon DEF Value, Fail, Outcome

LEMMA ReadFp ==
    ASSUME NEW c \in Ctx, NEW csr \in FpCsr
    PROVE  ReadShape(c, csr, read_csr(c, csr))
<1> DEFINE r == read_csr(c, csr)
           t == test_and_set_fs(c)
           d == Dirty(c)
           value == CASE csr = "Fflags" -> d.fflags [] csr = "Frm" -> ToBits(d.frm)
                      [] csr = "Fcsr" -> d.fflags \cup {k + 5 : k \in ToBits(d.frm)}
<1>1. CASE t = [ok |-> FALSE, c |-> c, v |-> {}, did |-> {}]
  <2>1. r = t
    BY <1>1 DEF read_csr, WithFs, FpCsr, Supervisor, Machine
  <2> QED BY <1>1, <2>1 DEF ReadShape, FpCsr
<1>2. CASE t = [ok |-> TRUE, c |-> d, v |-> {}, did |-> {}]
  <2>1. r = Value(d, value)
    BY <1>2 DEF read_csr, WithFs, FpCsr, Supervisor, Machine
  <2>2. value \in SUBSET Bits
    BY DirtyCtx DEF Ctx, ToBits, Bits, FpCsr
  <2> HIDE DEF value, r, d
  <2>3. r.c = d /\ r.v = value /\ r.did = {}
    BY <2>1, Valued
  <2> QED BY <2>2, <2>3, Zenon DEF ReadShape, FpCsr, r, d
<1> QED BY <1>1, <1>2, TestAndSet, Zenon DEF Fail, Outcome

LEMMA ReadOther ==
    ASSUME NEW c \in Ctx, NEW csr \in CsrNames \ (FpCsr \cup {"Misa"})
    PROVE  ReadShape(c, csr, read_csr(c, csr))
<1> DEFINE r == read_csr(c, csr)
<1>1. CASE csr \in {"Cycle", "Time", "Instret"}
  <2>1. r \in {Value(c, {}), Fail(c)}
    BY <1>1, Zenon DEF read_csr, Counter, Supervisor, Machine
  <2> QED BY <1>1, <2>1, Valued DEF ReadShape
<1>2. CASE csr \in {"Mvendorid", "Mhartid", "Mcycle", "Mtime", "Minstret"}
  <2>1. r = Value(c, {})
    BY <1>2, Zenon DEF read_csr, Supervisor, Machine
  <2> QED BY <1>2, <2>1, Valued DEF ReadShape
<1>3. CASE csr \in {"SwitchModel", "Stats", "Unknown"}
  <2>1. r = Fail(c)
    BY <1>3, Zenon DEF read_csr, Supervisor, Machine
  <2> QED BY <1>3, <2>1, Valued, Zenon DEF ReadShape
<1>4. CASE csr \in Reg
  <2>1. r = Value(c, c.reg[csr])
    BY <1>4, Zenon DEF read_csr, Supervisor, Machine, Reg
  <2>2. c.reg[csr] \in SUBSET Bits
    BY <1>4, Zenon DEF Ctx
  <2>3. csr \notin {"Sip", "Mip"}
    BY <1>4, Zenon DEF Supervisor, Machine, Reg
  <2> QED BY <2>1, <2>2, <2>3, Valued DEF ReadShape
<1>5. CASE csr \in StatusCsr
  <2> DEFINE bits == IF csr = "Sstatus" THEN c.mstatus \cap SstatusMask ELSE c.mstatus
  <2>1. r = Value(c, Status(bits))
    BY <1>5, Zenon DEF read_csr, StatusCsr, Supervisor, Machine
  <2>2. bits \in SUBSET Bits
    BY DEF Ctx, MstatusMask, SstatusMask, FS, Bits
  <2> HIDE DEF bits
  <2>3. Status(bits) \in SUBSET Bits
    BY <2>2 DEF Status, Bits
  <2>4. r.c = c /\ r.v \in SUBSET Bits /\ r.did = {}
    <3> HIDE DEF r
    <3> QED BY <2>1, <2>3, Valued
  <2> QED BY <1>5, <2>4, Zenon DEF ReadShape, StatusCsr
<1>6. CASE csr \in {"Sie", "Mie", "Mideleg"}
  <2>1. r \in {Value(c, c.mie \cap c.mideleg), Value(c, c.mie), Value(c, c.mideleg)}
    BY <1>6, Zenon DEF read_csr, Supervisor, Machine
  <2>2. c.mie \in SUBSET Bits /\ c.mideleg \in SUBSET Bits
    BY DEF Ctx, Interrupts, SLevel, Bits
  <2> QED BY <1>6, <2>1, <2>2, Valued DEF ReadShape
<1>7. CASE csr \in {"Sip", "Mip"}
  <2>1. r = Value(c, IF csr = "Sip" THEN c.mip \cap c.mideleg ELSE c.mip)
    BY <1>7, Zenon DEF read_csr, Supervisor, Machine
  <2>2. c.mip \in SUBSET Bits
    BY DEF Ctx, Interrupts, Bits
  <2>3. r.c = c /\ r.v = (IF csr = "Sip" THEN c.mip \cap c.mideleg ELSE c.mip) /\ r.did = {}
    <3> HIDE DEF r
    <3> QED BY <2>1, Valued
  <2> QED BY <1>7, <2>2, <2>3, Zenon DEF ReadShape
<1> QED BY <1>1, <1>2, <1>3, <1>4, <1>5, <1>6, <1>7, Names, Zenon
        DEF WritableCsr, ReadOnlyCsr, Reg

LEMMA Reads ==
    ASSUME NEW c \in Ctx, NEW csr \in CsrNames \ {"Misa"}
    PROVE  ReadShape(c, csr, read_csr(c, csr))
BY ReadFp, ReadOther, Zenon

-----------------------------------------------------------------------------
(* Interrupts.                                                             *)

\* An interrupt that becomes one to be taken is announced.
Told(c, d, did_) ==
    interrupt_pending(c) = {} /\ interrupt_pending(d) # {} => "alert" \in did_

\* Fewer interrupts are asserted, and nothing else changes that matters to them.
LEMMA PendingLess ==
    ASSUME NEW c \in Ctx, NEW d \in Ctx, d.prv = c.prv, d.mip \subseteq c.mip,
           d.mie = c.mie, d.mideleg = c.mideleg,
           3 \in d.mstatus <=> 3 \in c.mstatus, 1 \in d.mstatus <=> 1 \in c.mstatus
    PROVE  interrupt_pending(d) \subseteq interrupt_pending(c)
BY Zenon DEF interrupt_pending

LEMMA LessTold ==
    ASSUME NEW c \in Ctx, NEW d \in Ctx, d.prv = c.prv, d.mip \subseteq c.mip,
           d.mie = c.mie, d.mideleg = c.mideleg,
           3 \in d.mstatus <=> 3 \in c.mstatus, 1 \in d.mstatus <=> 1 \in c.mstatus,
           NEW e
    PROVE  Told(c, d, e)
BY PendingLess, Zenon DEF Told

LEMMA AlertTold ==
    ASSUME NEW c, NEW d, NEW e, Alert(d) \subseteq e
    PROVE  Told(c, d, e)
BY Zenon DEF Told, Alert

LEMMA RecheckTold ==
    ASSUME NEW c, NEW d
    PROVE  Told(c, d, recheck_interrupt(d)) /\ recheck_interrupt(d) \subseteq Events
BY Zenon DEF Told, recheck_interrupt, interrupt_pending, Events

-----------------------------------------------------------------------------
(* Numbers in fields of words.                                             *)

LEMMA RoundingMode == ASSUME NEW S PROVE AtMost4(ToNumber(S)) \in 0..4
BY DEF AtMost4, ToNumber

-----------------------------------------------------------------------------
(* Writes.                                                                 *)

\* What an instruction on csr may change.
Frame(c, csr, d) ==
    /\ d \in Ctx /\ d.prv = c.prv /\ d.boot = c.boot
    /\ csr \notin {"Sie", "Mie"} => d.mie = c.mie
    /\ csr \notin {"Sip", "Mip"} => d.mip = c.mip
    /\ csr # "Mideleg" => d.mideleg = c.mideleg
    /\ \A r \in Reg \ {csr} : d.reg[r] = c.reg[r]
    /\ csr \notin StatusCsr \cup FpCsr => d.mstatus = c.mstatus
    /\ csr \in FpCsr => d.mstatus \in {c.mstatus, c.mstatus \cup FS}
    /\ csr = "Sstatus" => d.mstatus \ SstatusMask = c.mstatus \ SstatusMask
    /\ csr = "Sie" => d.mie \ c.mideleg = c.mie \ c.mideleg
    /\ csr = "Sip" => d.mip \ ({1} \cap c.mideleg) = c.mip \ ({1} \cap c.mideleg)
    /\ FS \subseteq d.mstatus \/ FpState(d) = FpState(c) \/ csr \in StatusCsr

WriteShape(c, csr, v, w) ==
    /\ Frame(c, csr, w.c)
    /\ w.did \subseteq Events /\ Told(c, w.c, w.did)
    /\ 1 \in c.mip \ w.c.mip => 1 \notin v /\ (csr = "Sip" => 1 \in c.mideleg)

LEMMA FrameSame == ASSUME NEW c \in Ctx, NEW csr PROVE Frame(c, csr, c)
BY Zenon DEF Frame

LEMMA SameTold == ASSUME NEW c \in Ctx, NEW e PROVE Told(c, c, e)
BY Zenon DEF Told

LEMMA Out ==
    ASSUME NEW c, NEW e
    PROVE  /\ Outcome(TRUE, c, {}, e).c = c /\ Outcome(TRUE, c, {}, e).did = e
           /\ Wrote(c).c = c /\ Wrote(c).did = {}
BY Zenon DEF Outcome, Wrote

LEMMA WriteNothing ==
    ASSUME NEW c \in Ctx, NEW csr, NEW v, NEW w, w.c = c, w.did \subseteq Events
    PROVE  WriteShape(c, csr, v, w)
BY FrameSame, SameTold, Zenon DEF WriteShape

LEMMA WriteFp ==
    ASSUME NEW c \in Ctx, NEW csr \in FpCsr, NEW v \in SUBSET Bits
    PROVE  WriteShape(c, csr, v, write_fp(c, csr, v))
<1> DEFINE w == write_fp(c, csr, v)
           t == test_and_set_fs(c)
           d == Dirty(c)
           rounding(low) == AtMost4(ToNumber({k - low : k \in v}))
           flags == v \cap 0..4
           new(u) == CASE csr = "Fflags" -> [u EXCEPT !.fflags = flags]
                       [] csr = "Frm" -> [u EXCEPT !.frm = rounding(0)]
                       [] csr = "Fcsr" -> [[u EXCEPT !.fflags = flags] EXCEPT !.frm = rounding(5)]
           n == new(d)
<1>0. w = IF t.ok THEN Wrote(new(t.c)) ELSE t
  BY Zenon DEF write_fp, WithFs
<1> HIDE DEF w, t, new
<1>1. CASE t = [ok |-> FALSE, c |-> c, v |-> {}, did |-> {}]
  <2>1. w = t
    BY <1>0, <1>1, Zenon
  <2>2. w.c = c /\ w.did \subseteq Events
    BY <1>1, <2>1, Zenon
  <2> QED BY <2>2, WriteNothing, Zenon DEF w
<1>2. CASE t = [ok |-> TRUE, c |-> d, v |-> {}, did |-> {}]
  <2>1. w = Wrote(n)
    BY <1>0, <1>2, Zenon
  <2>2. rounding(0) \in 0..4 /\ rounding(5) \in 0..4 /\ flags \in SUBSET (0..4)
    BY RoundingMode, Zenon
  <2> HIDE DEF rounding, flags, d
  <2>3. d \in Ctx
    BY DirtyCtx, Zenon DEF d
  <2>4. /\ n \in Ctx /\ n.mstatus = d.mstatus /\ n.prv = d.prv /\ n.boot = d.boot
        /\ n.mie = d.mie /\ n.mip = d.mip /\ n.mideleg = d.mideleg /\ n.reg = d.reg
    BY <2>2, <2>3, Zenon DEF Ctx, FpCsr, new
  <2> HIDE DEF n
  <2>5. /\ n \in Ctx /\ n.mstatus = c.mstatus \cup FS /\ n.prv = c.prv /\ n.boot = c.boot
        /\ n.mie = c.mie /\ n.mip = c.mip /\ n.mideleg = c.mideleg /\ n.reg = c.reg
    BY <2>4, DirtyCtx, Zenon DEF d
  <2>6. Frame(c, csr, n)
    BY <2>5, Zenon DEF Frame, FpCsr, StatusCsr
  <2>7. Told(c, n, {})
    BY <2>5, LessTold DEF FS
  <2>8. w.c = n /\ w.did = {}
    BY <2>1, Out, Zenon
  <2>9. w.c.mip = c.mip
    BY <2>5, <2>8, Zenon
  <2> QED BY <2>6, <2>7, <2>8, <2>9, Zenon DEF WriteShape, w
<1> QED BY <1>1, <1>2, TestAndSet, Zenon DEF t

LEMMA WriteStatus ==
    ASSUME NEW c \in Ctx, NEW v \in SUBSET Bits, NEW flushes,
           NEW csr, NEW mask,
           \/ csr = "Sstatus" /\ mask = SstatusMask
           \/ csr = "Mstatus" /\ mask = MstatusMask
    PROVE  WriteShape(c, csr, v, write_status(c, v, mask, flushes))
<1> DEFINE w == write_status(c, v, mask, flushes)
           bits == Replace(c.mstatus, mask, v)
           n == [c EXCEPT !.mstatus = bits]
           e == Alert(n) \cup IF n.mstatus \cap flushes = c.mstatus \cap flushes THEN {}
                              ELSE {"flush"}
<1>1. w = Outcome(TRUE, n, {}, e)
  BY Zenon DEF write_status
<1>2. mask \subseteq MstatusMask
  BY Zenon DEF MstatusMask, SstatusMask
<1>3. bits \in SUBSET MstatusMask /\ bits \ mask = c.mstatus \ mask
  BY <1>2, Zenon DEF Replace, Ctx
<1> HIDE DEF bits
<1>4. /\ n \in Ctx /\ n.mstatus = bits /\ n.prv = c.prv /\ n.boot = c.boot
      /\ n.mie = c.mie /\ n.mip = c.mip /\ n.mideleg = c.mideleg /\ n.reg = c.reg
  BY <1>3, Zenon DEF Ctx
<1>5. Told(c, n, e)
  BY AlertTold, Zenon
<1>6. e \subseteq Events
  BY Zenon DEF Alert, Events
<1> HIDE DEF n, e, w
<1>7. w.c = n /\ w.did = e
  BY <1>1, Out, Zenon
<1>8. Frame(c, csr, n)
  BY <1>3, <1>4, Zenon DEF Frame, FpCsr, StatusCsr
<1>9. w.c.mip = c.mip
  BY <1>4, <1>7, Zenon
<1> QED BY <1>5, <1>6, <1>7, <1>8, <1>9, Zenon DEF WriteShape, w

LEMMA WriteIe ==
    ASSUME NEW c \in Ctx, NEW v \in SUBSET Bits, NEW csr, NEW mie \in SUBSET Interrupts,
           csr = "Mie" \/ (csr = "Sie" /\ mie \ c.mideleg = c.mie \ c.mideleg)
    PROVE  WriteShape(c, csr, v, Rechecked([c EXCEPT !.mie = mie]))
<1> DEFINE n == [c EXCEPT !.mie = mie]
           w == Rechecked(n)
<1>1. w.c = n /\ w.did = recheck_interrupt(n)
  BY Out, Zenon DEF Rechecked
<1>2. /\ n \in Ctx /\ n.mstatus = c.mstatus /\ n.prv = c.prv /\ n.boot = c.boot
      /\ n.mie = mie /\ n.mip = c.mip /\ n.mideleg = c.mideleg /\ n.reg = c.reg
      /\ FpState(n) = FpState(c)
  BY Zenon DEF Ctx, FpState
<1> HIDE DEF n
<1>3. Told(c, n, recheck_interrupt(n)) /\ recheck_interrupt(n) \subseteq Events
  BY RecheckTold, Zenon
<1> HIDE DEF w
<1>4. Frame(c, csr, n)
  BY <1>2, Zenon DEF Frame, FpCsr, StatusCsr
<1>5. w.c.mip = c.mip
  BY <1>1, <1>2, Zenon
<1> QED BY <1>1, <1>3, <1>4, <1>5, Zenon DEF WriteShape, w, n

LEMMA WriteMideleg ==
    ASSUME NEW c \in Ctx, NEW v \in SUBSET Bits
    PROVE  WriteShape(c, "Mideleg", v, write_mideleg(c, v))
<1> DEFINE n == [c EXCEPT !.mideleg = v \cap SLevel]
           w == write_mideleg(c, v)
<1>1. w = Outcome(TRUE, n, {}, Alert(n))
  BY Zenon DEF write_mideleg
<1>2. /\ n \in Ctx /\ n.mstatus = c.mstatus /\ n.prv = c.prv /\ n.boot = c.boot
      /\ n.mie = c.mie /\ n.mip = c.mip /\ n.reg = c.reg /\ FpState(n) = FpState(c)
  BY Zenon DEF Ctx, FpState
<1>3. Told(c, n, Alert(n)) /\ Alert(n) \subseteq Events
  BY AlertTold, Zenon DEF Alert, Events
<1> HIDE DEF n, w
<1>4. w.c = n /\ w.did = Alert(n)
  BY <1>1, Out, Zenon
<1>5. Frame(c, "Mideleg", n)
  BY <1>2, Zenon DEF Frame, FpCsr, StatusCsr
<1>6. w.c.mip = c.mip
  BY <1>2, <1>4, Zenon
<1> QED BY <1>3, <1>4, <1>5, <1>6, Zenon DEF WriteShape, w

LEMMA WriteReg ==
    ASSUME NEW c \in Ctx, NEW csr \in Reg, NEW v \in SUBSET Bits
    PROVE  WriteShape(c, csr, v, write_reg(c, csr, v))
<1> DEFINE x == Legalise(csr, c.reg[csr], v)
           n == [c EXCEPT !.reg = [c.reg EXCEPT ![csr] = x]]
           e == IF csr = "Satp" THEN {"flush"} ELSE {}
           w == write_reg(c, csr, v)
<1>1. w = Outcome(TRUE, n, {}, e)
  BY Zenon DEF write_reg
<1>2. x \in SUBSET Bits
  BY Zenon DEF Legalise, Ctx, Reg
<1> HIDE DEF x
<1>3. /\ n \in Ctx /\ n.mstatus = c.mstatus /\ n.prv = c.prv /\ n.boot = c.boot
      /\ n.mie = c.mie /\ n.mip = c.mip /\ n.mideleg = c.mideleg
      /\ n.reg = [c.reg EXCEPT ![csr] = x] /\ FpState(n) = FpState(c)
  BY <1>2, Zenon DEF Ctx, FpState
<1>4. \A r \in Reg \ {csr} : n.reg[r] = c.reg[r]
  BY <1>3, Zenon DEF Ctx
<1>5. e \subseteq Events
  BY Zenon DEF Events
<1> HIDE DEF n, e, w
<1>6. w.c = n /\ w.did = e
  BY <1>1, Out, Zenon
<1>7. Told(c, n, e)
  BY <1>3, LessTold, Zenon
<1>8. Frame(c, csr, n)
  BY <1>3, <1>4, Zenon DEF Frame, FpCsr, StatusCsr, Reg, Supervisor, Machine
<1>9. w.c.mip = c.mip
  BY <1>3, <1>6, Zenon
<1> QED BY <1>5, <1>6, <1>7, <1>8, <1>9, Zenon DEF WriteShape, w

\* Nothing but mip differs.
MipOnly(c, d) ==
    /\ d \in Ctx /\ d.prv = c.prv /\ d.boot = c.boot /\ d.mstatus = c.mstatus
    /\ d.mie = c.mie /\ d.mideleg = c.mideleg /\ d.reg = c.reg /\ FpState(d) = FpState(c)

LEMMA Asserted ==
    ASSUME NEW c \in Ctx, NEW bits \in SUBSET Interrupts
    PROVE  LET w == assert(c, bits)
           IN  /\ MipOnly(c, w.c) /\ w.c.mip = c.mip \cup bits
               /\ w.did = IF bits \subseteq c.mip THEN {} ELSE {"alert"}
<1> DEFINE n == [c EXCEPT !.mip = @ \cup bits]
           e == IF bits \subseteq c.mip THEN {} ELSE {"alert"}
           w == assert(c, bits)
<1>1. w = Outcome(TRUE, n, {}, e)
  BY Zenon DEF assert
<1>2. MipOnly(c, n) /\ n.mip = c.mip \cup bits
  BY Zenon DEF MipOnly, Ctx, FpState
<1> HIDE DEF n, e, w
<1>3. w.c = n /\ w.did = e
  BY <1>1, Out, Zenon
<1> QED BY <1>2, <1>3, Zenon DEF w, e

LEMMA Deasserted ==
    ASSUME NEW c \in Ctx, NEW bits
    PROVE  LET w == deassert(c, bits)
           IN  MipOnly(c, w.c) /\ w.c.mip = c.mip \ bits /\ w.did = {}
<1> DEFINE n == [c EXCEPT !.mip = @ \ bits]
           w == deassert(c, bits)
<1>1. w = Wrote(n)
  BY Zenon DEF deassert
<1>2. MipOnly(c, n) /\ n.mip = c.mip \ bits
  BY Zenon DEF MipOnly, Ctx, FpState
<1> HIDE DEF n, w
<1>3. w.c = n /\ w.did = {}
  BY <1>1, Out, Zenon
<1> QED BY <1>2, <1>3, Zenon DEF w

\* mip alone changes: less is pending, or the hart is alerted.
LEMMA MipTold ==
    ASSUME NEW c \in Ctx, NEW d, NEW e, MipOnly(c, d),
           d.mip \subseteq c.mip \/ "alert" \in e
    PROVE  Told(c, d, e)
<1>1. CASE d.mip \subseteq c.mip
  BY <1>1, LessTold, Zenon DEF MipOnly
<1>2. CASE "alert" \in e
  BY <1>2, Zenon DEF Told
<1> QED BY <1>1, <1>2, Zenon

LEMMA MipFrame ==
    ASSUME NEW c \in Ctx, NEW d, MipOnly(c, d), NEW csr \in {"Sip", "Mip"},
           csr = "Sip" => d.mip \ ({1} \cap c.mideleg) = c.mip \ ({1} \cap c.mideleg)
    PROVE  Frame(c, csr, d)
BY Zenon DEF MipOnly, Frame, FpCsr, StatusCsr

LEMMA WriteSip ==
    ASSUME NEW c \in Ctx, NEW v \in SUBSET Bits
    PROVE  WriteShape(c, "Sip", v, write_sip(c, v))
<1> DEFINE w == write_sip(c, v)
<1>1. {1} \in SUBSET Interrupts
  BY Zenon DEF Interrupts
<1>2. CASE 1 \notin c.mideleg
  <2>1. w = Wrote(c)
    BY <1>2, Zenon DEF write_sip
  <2>2. w.c = c /\ w.did \subseteq Events
    BY <2>1, Out, Zenon
  <2> QED BY <2>2, WriteNothing, Zenon
<1>3. CASE 1 \in c.mideleg /\ 1 \in v
  <2>1. w = assert(c, {1})
    BY <1>3, Zenon DEF write_sip
  <2> HIDE DEF w
  <2>2. /\ MipOnly(c, w.c) /\ w.c.mip = c.mip \cup {1}
        /\ w.did = IF {1} \subseteq c.mip THEN {} ELSE {"alert"}
    BY <1>1, <2>1, Asserted, Zenon
  <2>3. Told(c, w.c, w.did)
    BY <2>2, MipTold, Zenon
  <2>4. w.did \subseteq Events /\ 1 \in w.c.mip
    BY <2>2, Zenon DEF Events
  <2>5. w.c.mip \ ({1} \cap c.mideleg) = c.mip \ ({1} \cap c.mideleg)
    BY <1>3, <2>2
  <2> QED BY <2>2, <2>3, <2>4, <2>5, MipFrame, Zenon DEF WriteShape, w
<1>4. CASE 1 \in c.mideleg /\ 1 \notin v
  <2>1. w = deassert(c, {1})
    BY <1>4, Zenon DEF write_sip
  <2> HIDE DEF w
  <2>2. MipOnly(c, w.c) /\ w.c.mip = c.mip \ {1} /\ w.did = {}
    BY <2>1, Deasserted, Zenon
  <2>3. Told(c, w.c, w.did)
    BY <2>2, MipTold, Zenon
  <2>4. w.c.mip \ ({1} \cap c.mideleg) = c.mip \ ({1} \cap c.mideleg)
    BY <1>4, <2>2
  <2> QED BY <1>4, <2>2, <2>3, <2>4, MipFrame, Zenon DEF WriteShape, w
<1> QED BY <1>2, <1>3, <1>4, Zenon

LEMMA WriteMip ==
    ASSUME NEW c \in Ctx, NEW v \in SUBSET Bits
    PROVE  WriteShape(c, "Mip", v, write_mip(c, v))
<1> DEFINE a == deassert(c, SLevel \ v).c
           w == write_mip(c, v)
           bits == SLevel \cap v
<1>1. MipOnly(c, a) /\ a.mip = c.mip \ (SLevel \ v)
  BY Deasserted, Zenon
<1>2. w = assert(a, bits)
  BY Zenon DEF write_mip
<1>3. bits \in SUBSET Interrupts /\ (1 \in v => 1 \in bits)
  BY Zenon DEF SLevel, Interrupts
<1> HIDE DEF a, w, bits
<1>4. a \in Ctx
  BY <1>1, Zenon DEF MipOnly
<1>5. /\ MipOnly(a, w.c) /\ w.c.mip = a.mip \cup bits
      /\ w.did = IF bits \subseteq a.mip THEN {} ELSE {"alert"}
  BY <1>2, <1>3, <1>4, Asserted, Zenon
<1>6. MipOnly(c, w.c)
  BY <1>1, <1>5, Zenon DEF MipOnly
<1>7. w.c.mip \subseteq c.mip \/ "alert" \in w.did
  BY <1>1, <1>5, Zenon
<1>8. Told(c, w.c, w.did)
  BY <1>6, <1>7, MipTold, Zenon
<1>9. w.did \subseteq Events /\ (1 \in v => 1 \in w.c.mip)
  BY <1>3, <1>5, Zenon DEF Events
<1> QED BY <1>6, <1>8, <1>9, MipFrame, Zenon DEF WriteShape, w

LEMMA Writes ==
    ASSUME NEW c \in Ctx, NEW csr \in WritableCsr, NEW v \in SUBSET Bits
    PROVE  WriteShape(c, csr, v, write_csr(c, csr, v))
<1> DEFINE w == write_csr(c, csr, v)
<1>1. CASE csr \in FpCsr
  <2>1. w = write_fp(c, csr, v)
    BY <1>1, Zenon DEF write_csr, FpCsr, Supervisor, Machine
  <2> QED BY <1>1, <2>1, WriteFp, Zenon
<1>2. CASE csr = "Sstatus"
  <2>1. w = write_status(c, v, SstatusMask, {18, 19})
    BY <1>2, Zenon DEF write_csr, Supervisor, Machine
  <2> QED BY <1>2, <2>1, WriteStatus, Zenon
<1>3. CASE csr = "Mstatus"
  <2>1. w = write_status(c, v, MstatusMask, {11, 12, 17, 18, 19})
    BY <1>3, Zenon DEF write_csr, Supervisor, Machine
  <2> QED BY <1>3, <2>1, WriteStatus
<1>4. CASE csr = "Sie"
  <2> DEFINE mie == Replace(c.mie, c.mideleg, v)
  <2>1. w = Rechecked(write_sie(c, v)) /\ write_sie(c, v) = [c EXCEPT !.mie = mie]
    BY <1>4, Zenon DEF write_csr, write_sie, Supervisor, Machine
  <2>2. mie \in SUBSET Interrupts /\ mie \ c.mideleg = c.mie \ c.mideleg
    BY Zenon DEF Replace, Ctx, Interrupts, SLevel
  <2> HIDE DEF mie
  <2> QED BY <1>4, <2>1, <2>2, WriteIe
<1>5. CASE csr = "Mie"
  <2>1. w = Rechecked([c EXCEPT !.mie = v \cap Interrupts])
    BY <1>5, Zenon DEF write_csr, Supervisor, Machine
  <2> QED BY <1>5, <2>1, WriteIe, Zenon
<1>6. CASE csr \in {"Sip", "Mip"}
  <2>1. w = IF csr = "Sip" THEN write_sip(c, v) ELSE write_mip(c, v)
    BY <1>6, Zenon DEF write_csr, Supervisor, Machine
  <2> QED BY <1>6, <2>1, WriteSip, WriteMip, Zenon
<1>7. CASE csr \in Reg
  <2>1. w = write_reg(c, csr, v)
    BY <1>7, Zenon DEF write_csr, Reg, Supervisor, Machine
  <2> QED BY <1>7, <2>1, WriteReg, Zenon
<1>8. CASE csr = "Mideleg"
  <2>1. w = write_mideleg(c, v)
    BY <1>8, Zenon DEF write_csr, Supervisor, Machine
  <2> QED BY <1>8, <2>1, WriteMideleg, Zenon
<1>9. CASE csr \in {"Misa", "Minstret", "SwitchModel", "Stats", "Mcycle", "Mtime", "Unknown"}
  <2>1. w \in {Wrote(c), Outcome(TRUE, c, {}, {"stop"}), Fail(c)}
    BY <1>9, Zenon DEF write_csr, Supervisor, Machine
  <2>2. w.c = c /\ w.did \subseteq Events
    <3> HIDE DEF w
    <3>1. CASE w = Wrote(c)
      BY <3>1, Out, Zenon
    <3>2. CASE w = Fail(c)
      BY <3>2, Valued, Zenon
    <3>3. CASE w = Outcome(TRUE, c, {}, {"stop"})
      BY <3>3, Zenon DEF Outcome, Events
    <3> QED BY <2>1, <3>1, <3>2, <3>3, Zenon
  <2> QED BY <2>2, WriteNothing, Zenon
<1> QED BY <1>1, <1>2, <1>3, <1>4, <1>5, <1>6, <1>7, <1>8, <1>9, Zenon
        DEF WritableCsr, StatusCsr, Reg

-----------------------------------------------------------------------------
(* CSR instructions.                                                       *)

LEMMA DirtyPending == ASSUME NEW c \in Ctx PROVE interrupt_pending(Dirty(c)) = interrupt_pending(c)
<1>1. (3 \in c.mstatus \cup FS <=> 3 \in c.mstatus) /\ (1 \in c.mstatus \cup FS <=> 1 \in c.mstatus)
  BY DEF FS
<1>2. interrupt_pending(Dirty(c)) \subseteq interrupt_pending(c)
  BY <1>1, DirtyCtx, PendingLess, Zenon
<1>3. interrupt_pending(c) \subseteq interrupt_pending(Dirty(c))
  BY <1>1, DirtyCtx, PendingLess, Zenon
<1> QED BY <1>2, <1>3, Zenon

LEMMA DirtyShape ==
    ASSUME NEW c \in Ctx, NEW csr \in FpCsr, NEW v, NEW w, WriteShape(Dirty(c), csr, v, w)
    PROVE  WriteShape(c, csr, v, w)
<1>1. Told(c, w.c, w.did)
  BY DirtyPending, Zenon DEF WriteShape, Told
<1> DEFINE d == Dirty(c)
           n == w.c
<1>2. /\ n \in Ctx /\ n.prv = d.prv /\ n.boot = d.boot /\ n.mie = d.mie /\ n.mip = d.mip
      /\ n.mideleg = d.mideleg /\ (\A r \in Reg \ {csr} : n.reg[r] = d.reg[r])
      /\ n.mstatus \in {d.mstatus, d.mstatus \cup FS}
  BY Zenon DEF WriteShape, Frame, FpCsr
<1> HIDE DEF n
<1>3. /\ n \in Ctx /\ n.prv = c.prv /\ n.boot = c.boot /\ n.mie = c.mie /\ n.mip = c.mip
      /\ n.mideleg = c.mideleg /\ (\A r \in Reg \ {csr} : n.reg[r] = c.reg[r])
      /\ n.mstatus = c.mstatus \cup FS
  BY <1>2, DirtyCtx, Zenon
<1>4. Frame(c, csr, n)
  BY <1>3, Zenon DEF Frame, FpCsr, StatusCsr
<1> QED BY <1>1, <1>3, <1>4, Zenon DEF WriteShape, n

LEMMA ReadKeeps ==
    ASSUME NEW c \in Ctx, NEW csr, NEW v, NEW r, ReadShape(c, csr, r)
    PROVE  WriteShape(c, csr, v, r) /\ r.c.mip = c.mip
<1>1. r.did \subseteq Events
  BY Zenon DEF ReadShape
<1>2. CASE r.c = c
  BY <1>1, <1>2, WriteNothing, Zenon
<1>3. CASE csr \in FpCsr /\ r.c = Dirty(c)
  <2>1. WriteShape(Dirty(c), csr, v, r)
    BY <1>1, <1>3, DirtyCtx, WriteNothing, Zenon
  <2> QED BY <1>3, <2>1, DirtyShape, DirtyCtx, Zenon
<1> QED BY <1>2, <1>3, Zenon DEF ReadShape

\* A read, which may make FS Dirty, and then a write.
LEMMA ThenShape ==
    ASSUME NEW c \in Ctx, NEW csr \in WritableCsr, NEW v \in SUBSET Bits, NEW r,
           ReadShape(c, csr, r)
    PROVE  WriteShape(c, csr, v, Then(r, csr, v))
<1>1. CASE ~r.ok
  <2>1. Then(r, csr, v) = r
    BY <1>1, Zenon DEF Then
  <2> QED BY <2>1, ReadKeeps, Zenon
<1>2. CASE r.ok
  <2>1. Then(r, csr, v) = write_csr(r.c, csr, v)
    BY <1>2, Zenon DEF Then
  <2>2. CASE r.c = c
    BY <2>1, <2>2, Writes, Zenon
  <2>3. CASE csr \in FpCsr /\ r.c = Dirty(c)
    <3>1. WriteShape(Dirty(c), csr, v, write_csr(Dirty(c), csr, v))
      BY DirtyCtx, Writes, Zenon
    <3> QED BY <2>1, <2>3, <3>1, DirtyShape, Zenon
  <2> QED BY <2>2, <2>3, Zenon DEF ReadShape
<1> QED BY <1>1, <1>2, Zenon

Instruction ==
    [op : {"rw", "rs", "rc"}, rd : BOOLEAN, src : BOOLEAN, csr : CsrNames, v : SUBSET Bits]

\* The instruction asks for SSIP to be cleared.
Clears(i) == (i.op = "rw" /\ 1 \notin i.v) \/ (i.op = "rc" /\ 1 \in i.v)

StepShape(c, i, o) ==
    /\ Frame(c, i.csr, o.c)
    /\ o.did \subseteq Events /\ Told(c, o.c, o.did)
    /\ 1 \in c.mip \ o.c.mip => i.csr \in {"Sip", "Mip"} /\ Clears(i)

LEMMA Accessible ==
    ASSUME NEW i \in Instruction, Legal(i)
    PROVE  /\ i.op = "rw" \/ i.src => i.csr \in WritableCsr
           /\ i.op # "rw" \/ i.rd => i.csr \in CsrNames \ {"Misa"}
<1>1. i.csr \in CsrNames
  BY Zenon DEF Instruction
<1>2. ASSUME i.op = "rw" \/ i.src PROVE i.csr \in WritableCsr
  <2>1. ~readonly(i.csr)
    BY <1>2, Zenon DEF Legal
  <2>2. i.csr \notin ReadOnlyCsr
    BY <2>1, ReadOnlyNumbers, Zenon
  <2> QED BY <1>1, <2>2, Names, Zenon
<1>3. ASSUME i.op # "rw" \/ i.rd PROVE i.csr # "Misa"
  BY <1>3, Zenon DEF Legal
<1> QED BY <1>1, <1>2, <1>3, Zenon

\* A write alone.
LEMMA WriteAlone ==
    ASSUME NEW c \in Ctx, NEW i \in Instruction, i.csr \in WritableCsr, i.op = "rw",
           NEW o, WriteShape(c, i.csr, i.v, o)
    PROVE  StepShape(c, i, o)
BY Zenon DEF WriteShape, StepShape, Clears, Frame

\* A read alone.
LEMMA ReadAlone ==
    ASSUME NEW c \in Ctx, NEW i \in Instruction, i.csr \in CsrNames \ {"Misa"}
    PROVE  StepShape(c, i, read_csr(c, i.csr))
<1> DEFINE r == read_csr(c, i.csr)
<1>1. ReadShape(c, i.csr, r)
  BY Reads, Zenon
<1> HIDE DEF r
<1>2. WriteShape(c, i.csr, {}, r) /\ r.c.mip = c.mip
  BY <1>1, ReadKeeps, Zenon
<1> QED BY <1>2, Zenon DEF WriteShape, StepShape, r

\* A write of what was read, with bits set or cleared.
LEMMA WriteBack ==
    ASSUME NEW c \in Ctx, NEW i \in Instruction, Legal(i), i.op # "rw", i.src
    PROVE  LET r == read_csr(c, i.csr)
           IN  StepShape(c, i, Then(r, i.csr, IF i.op = "rs" THEN r.v \cup i.v ELSE r.v \ i.v))
<1> DEFINE r == read_csr(c, i.csr)
           v == IF i.op = "rs" THEN r.v \cup i.v ELSE r.v \ i.v
           o == Then(r, i.csr, v)
<1>1. i.csr \in WritableCsr /\ i.csr \in CsrNames \ {"Misa"}
  BY Accessible, Zenon
<1>2. ReadShape(c, i.csr, r)
  BY <1>1, Reads, Zenon
<1> HIDE DEF r
<1>3. v \in SUBSET Bits
  BY <1>2, Zenon DEF ReadShape, Instruction
<1>4. 1 \in v \/ 1 \notin r.v \/ (i.op = "rc" /\ 1 \in i.v)
  BY Zenon DEF Instruction
<1> HIDE DEF v
<1>5. WriteShape(c, i.csr, v, o)
  BY <1>1, <1>2, <1>3, ThenShape, Zenon
<1> HIDE DEF o
<1>6. ASSUME 1 \in c.mip \ o.c.mip PROVE i.csr \in {"Sip", "Mip"} /\ Clears(i)
  <2>1. i.csr \in {"Sip", "Mip"}
    BY <1>5, <1>6, Zenon DEF WriteShape, Frame
  <2>2. 1 \notin v /\ (i.csr = "Sip" => 1 \in c.mideleg)
    BY <1>5, <1>6, Zenon DEF WriteShape
  <2>3. 1 \in r.v
    BY <1>2, <1>6, <2>1, <2>2, Zenon DEF ReadShape
  <2> QED BY <1>4, <2>1, <2>2, <2>3, Zenon DEF Clears
<1> QED BY <1>5, <1>6, Zenon DEF WriteShape, StepShape, o, v, r

\* The interpreter's CSR instructions, and below those of the emitted code.
LEMMA StepCsrShape ==
    ASSUME NEW c \in Ctx, NEW i \in Instruction, Legal(i)
    PROVE  StepShape(c, i, step_csr(c, i))
<1>1. CASE i.op = "rw"
  <2>1. i.csr \in WritableCsr
    BY <1>1, Accessible, Zenon
  <2>2. CASE i.rd
    <3>1. step_csr(c, i) = Then(read_csr(c, i.csr), i.csr, i.v)
      BY <1>1, <2>2, Zenon DEF step_csr
    <3>2. ReadShape(c, i.csr, read_csr(c, i.csr))
      BY <2>2, Accessible, Reads, Zenon
    <3>3. WriteShape(c, i.csr, i.v, step_csr(c, i))
      BY <2>1, <3>1, <3>2, ThenShape DEF Instruction
    <3> QED BY <1>1, <2>1, <3>3, WriteAlone, Zenon
  <2>3. CASE ~i.rd
    <3>1. step_csr(c, i) = Then(Value(c, {}), i.csr, i.v)
      BY <1>1, <2>3, Zenon DEF step_csr
    <3>2. Then(Value(c, {}), i.csr, i.v) = write_csr(c, i.csr, i.v)
      BY Zenon DEF Then, Value, Outcome
    <3>3. WriteShape(c, i.csr, i.v, step_csr(c, i))
      BY <2>1, <3>1, <3>2, Writes, Zenon DEF Instruction
    <3> QED BY <1>1, <2>1, <3>3, WriteAlone, Zenon
  <2> QED BY <2>2, <2>3, Zenon
<1>2. CASE i.op # "rw"
  <2>1. CASE ~i.src
    <3>1. step_csr(c, i) = read_csr(c, i.csr)
      BY <1>2, <2>1, Zenon DEF step_csr
    <3>2. i.csr \in CsrNames \ {"Misa"}
      BY <1>2, Accessible, Zenon
    <3> QED BY <3>1, <3>2, ReadAlone, Zenon
  <2>2. CASE i.src
    <3> DEFINE r == read_csr(c, i.csr)
    <3>1. step_csr(c, i) = Then(r, i.csr, IF i.op = "rs" THEN r.v \cup i.v ELSE r.v \ i.v)
      BY <1>2, <2>2, Zenon DEF step_csr
    <3> QED BY <1>2, <2>2, <3>1, WriteBack, Zenon
  <2> QED BY <2>1, <2>2, Zenon
<1> QED BY <1>1, <1>2, Zenon

LEMMA EmittedShape ==
    ASSUME NEW c \in Ctx, NEW i \in Instruction, Legal(i)
    PROVE  StepShape(c, i, emit_csr(c, i))
<1>1. CASE i.op = "rw" /\ ~i.rd /\ emit_csr(c, i) = write_csr(c, i.csr, i.v)
  <2>1. i.csr \in WritableCsr
    BY <1>1, Accessible, Zenon
  <2>2. WriteShape(c, i.csr, i.v, emit_csr(c, i))
    BY <1>1, <2>1, Writes, Zenon DEF Instruction
  <2> QED BY <1>1, <2>1, <2>2, WriteAlone, Zenon
<1>2. CASE i.op # "rw" /\ ~i.src /\ emit_csr(c, i) = read_csr(c, i.csr)
  <2>1. i.csr \in CsrNames \ {"Misa"}
    BY <1>2, Accessible, Zenon
  <2> QED BY <1>2, <2>1, ReadAlone, Zenon
<1>3. CASE emit_csr(c, i) = step_csr(c, i)
  BY <1>3, StepCsrShape, Zenon
<1> QED BY <1>1, <1>2, <1>3, Zenon DEF emit_csr

-----------------------------------------------------------------------------
(* Every step.                                                             *)

\* The inductive invariant.  The ranges in Ctx are needed by the numbers (MPP,
\* frm) that instructions take from the registers; the rest is FsTracks itself.
Who == {"allowed", "fused", "outside"}
CsrInv ==
    ctx \in Ctx /\ focus \subseteq CsrNames /\ did \subseteq Events /\ by \in Who /\ FsTracks

\* What every step does.
StepGood ==
    /\ ctx' \in Ctx /\ focus' = focus /\ did' \subseteq Events /\ by' \in Who /\ FsTracks'
    /\ by' = "allowed" => SupervisorConfined
    /\ SsipKept /\ Noticed

\* The registers whose state a higher level owns.
MachineCsr == Machine \cup {"Mstatus", "Mideleg", "Mie", "Mip"}
SupervisorCsr == Supervisor \cup {"Sstatus", "Sie", "Sip"}

\* A change within the frame of a register that the level may access is good.
LEMMA FrameGood ==
    ASSUME CsrInv, NEW csr, Frame(ctx, csr, ctx'), focus' = focus,
           did' \subseteq Events, Told(ctx, ctx', did'), by' \in Who,
           \/ FS \subseteq ctx'.mstatus
           \/ saved' = FpState(ctx')
           \/ csr \notin StatusCsr /\ saved' = saved,
           by' = "allowed" /\ ctx.prv < 3 => csr \notin MachineCsr,
           by' = "allowed" /\ ctx.prv < 1 => csr \notin SupervisorCsr,
           1 \in ctx.mip \ ctx'.mip => clears'
    PROVE  StepGood
<1> DEFINE c == ctx
           d == ctx'
<1>1. FsTracks'
  <2>1. CASE csr \notin StatusCsr /\ saved' = saved /\ ~(FS \subseteq d.mstatus)
    <3>1. FpState(d) = FpState(c)
      BY <2>1, Zenon DEF Frame
    <3>2. d.mstatus = c.mstatus
      BY <2>1, Zenon DEF Frame
    <3>3. FpState(c) = saved
      BY <2>1, <3>2, Zenon DEF CsrInv, FsTracks
    <3> QED BY <2>1, <3>1, <3>3, Zenon DEF FsTracks
  <2> QED BY <2>1, Zenon DEF FsTracks
<1>2. c.prv \in {0, 1, 3}
  BY Zenon DEF CsrInv, Ctx
<1>3. ASSUME by' = "allowed", c.prv < 3 PROVE MachineState(d) = MachineState(c)
  <2>1. csr \notin Machine \cup {"Mstatus", "Mideleg", "Mie", "Mip"}
    BY <1>3, Zenon DEF MachineCsr
  <2>2. d.mstatus \ SstatusMask = c.mstatus \ SstatusMask
    <3>1. FS \subseteq SstatusMask
      BY Zenon DEF SstatusMask
    <3>2. (c.mstatus \cup FS) \ SstatusMask = c.mstatus \ SstatusMask
      BY <3>1, Zenon
    <3> QED BY <2>1, <3>2, Zenon DEF Frame, StatusCsr
  <2>3. d.mideleg = c.mideleg /\ d.mie \ c.mideleg = c.mie \ c.mideleg
    BY <2>1, Zenon DEF Frame
  <2>4. \A r \in Machine : d.reg[r] = c.reg[r]
    BY <2>1, Zenon DEF Frame, Reg
  <2>5. [r \in Machine |-> d.reg[r]] = [r \in Machine |-> c.reg[r]]
    BY <2>4, Zenon
  <2>6. d.mip \ ({1} \cap c.mideleg) = c.mip \ ({1} \cap c.mideleg)
    BY <2>1, Zenon DEF Frame
  <2> QED BY <2>2, <2>3, <2>5, <2>6, Zenon DEF MachineState
<1>4. ASSUME by' = "allowed", c.prv < 1 PROVE SupervisorState(d) = SupervisorState(c)
  <2>1. csr \notin Supervisor \cup {"Sstatus", "Sie", "Sip", "Mstatus", "Mie", "Mip"}
    BY <1>2, <1>4 DEF MachineCsr, SupervisorCsr
  <2>2. d.mstatus \ FS = c.mstatus \ FS
    BY <2>1, Zenon DEF Frame, StatusCsr
  <2>3. d.mie = c.mie /\ d.mip = c.mip
    BY <2>1, Zenon DEF Frame
  <2>4. \A r \in Supervisor : d.reg[r] = c.reg[r]
    BY <2>1, Zenon DEF Frame, Reg
  <2>5. [r \in Supervisor |-> d.reg[r]] = [r \in Supervisor |-> c.reg[r]]
    BY <2>4, Zenon
  <2> QED BY <2>2, <2>3, <2>5, Zenon DEF SupervisorState
<1>5. by' = "allowed" => SupervisorConfined
  BY <1>3, <1>4, Zenon DEF SupervisorConfined
<1>6. SsipKept /\ Noticed
  BY Zenon DEF SsipKept, Noticed, Told
<1>7. d \in Ctx
  BY Zenon DEF Frame
<1> QED BY <1>1, <1>5, <1>6, <1>7, Zenon DEF StepGood

\* min_prv_level keeps instructions from the registers of a higher level.
LEMMA CsrStep ==
    ASSUME CsrInv, NEW i \in CsrOp, Legal(i), NEW o, StepShape(ctx, i, o),
           Apply(i, By(min_prv_level(i.csr)), o)
    PROVE  StepGood
<1>1. /\ ctx' = o.c /\ did' = o.did /\ focus' = focus
      /\ saved' = CASE FS \subseteq ctx'.mstatus -> <<>>
                    [] OTHER -> IF i.csr \in {"Sstatus", "Mstatus"} THEN FpState(ctx') ELSE saved
  BY Zenon DEF Apply
<1>2. i.csr \in {"Sip", "Mip"} /\ Clears(i) => clears'
  BY Zenon DEF Apply, Clears
<1>3. \/ FS \subseteq ctx'.mstatus \/ saved' = FpState(ctx')
      \/ i.csr \notin StatusCsr /\ saved' = saved
  BY <1>1, Zenon DEF StatusCsr
<1>4. /\ i.csr \in CsrNames /\ ctx.prv \in {0, 1, 3}
      /\ by' \in Who /\ (by' = "allowed" => ctx.prv >= min_prv_level(i.csr))
  <2>1. by' = IF ctx.prv >= min_prv_level(i.csr) THEN "allowed" ELSE "fused"
    BY Zenon DEF Apply, By
  <2> QED BY <2>1, Zenon DEF CsrInv, CsrOp, Ctx, Who
<1>5. by' = "allowed" /\ ctx.prv < 3 => i.csr \notin MachineCsr
  BY <1>4, MachineLevels DEF MachineCsr
<1>6. by' = "allowed" /\ ctx.prv < 1 => i.csr \notin SupervisorCsr
  BY <1>4, SupervisorLevels DEF SupervisorCsr
<1> QED BY <1>1, <1>2, <1>3, <1>4, <1>5, <1>6, FrameGood, Zenon DEF StepShape

LEMMA EmittedCsrGood == CsrInv /\ EmittedCsr => StepGood
<1> SUFFICES ASSUME CsrInv, EmittedCsr PROVE StepGood
  BY Zenon
<1>1. CsrOp \subseteq Instruction /\ ctx \in Ctx
  BY WordAssumption, Zenon DEF CsrInv, CsrOp, Instruction, Bits
<1>2. PICK i \in CsrOp : Legal(i) /\ Apply(i, By(min_prv_level(i.csr)), emit_csr(ctx, i))
  BY Zenon DEF EmittedCsr
<1>3. StepShape(ctx, i, emit_csr(ctx, i))
  BY <1>1, <1>2, EmittedShape, Zenon
<1> QED BY <1>2, <1>3, CsrStep, Zenon

\* What a step other than a CSR instruction does to saved.
LEMMA OtherSaved ==
    ASSUME NEW i, NEW who, NEW o, Apply(i, who, o), i.csr = ""
    PROVE  /\ ctx' = o.c /\ did' = o.did /\ focus' = focus /\ by' = who
           /\ FS \subseteq ctx'.mstatus \/ saved' = saved
BY Zenon DEF Apply

\* With FS Dirty, what an F or D instruction does is within the frame of fcsr.
LEMMA Computed ==
    ASSUME NEW c \in Ctx, NEW k, NEW rm \in {4, 7}, NEW value \in Results,
           NEW flags \in SUBSET (0..4), NEW faults \in BOOLEAN
    PROVE  WriteShape(c, "Fcsr", {}, Compute(c, k, rm, value, flags, faults))
                \/ ~(FS \subseteq c.mstatus)
<1> SUFFICES ASSUME FS \subseteq c.mstatus
             PROVE  WriteShape(c, "Fcsr", {}, Compute(c, k, rm, value, flags, faults))
  BY Zenon
<1> DEFINE a == IF k.rounds THEN set_rm(c, rm) ELSE c
           b == IF k.raises THEN set_exception_flags(a, flags) ELSE a
           n == IF k.to = "f" THEN [b EXCEPT !.f = value] ELSE b
           o == Compute(c, k, rm, value, flags, faults)
           Only(x, y) == /\ y \in Ctx /\ y.mstatus = x.mstatus /\ y.prv = x.prv
                         /\ y.boot = x.boot /\ y.mie = x.mie /\ y.mip = x.mip
                         /\ y.mideleg = x.mideleg /\ y.reg = x.reg
<1>1. CASE faults
  <2>1. o = Fail(c)
    BY <1>1, Zenon DEF Compute
  <2>2. o.c = c /\ o.did \subseteq Events
    BY <2>1, Valued, Zenon
  <2> QED BY <2>2, WriteNothing, Zenon
<1>2. CASE ~faults
  <2>1. o = Wrote(n)
    BY <1>2, Zenon DEF Compute
  <2>2. Only(c, set_rm(c, rm))
    BY DEF set_rm, Ctx
  <2>3. Only(c, a)
    BY <2>2, Zenon
  <2> HIDE DEF a
  <2>4. Only(a, set_exception_flags(a, flags))
    BY <2>3, Zenon DEF set_exception_flags, Ctx
  <2>5. Only(c, b)
    BY <2>3, <2>4, Zenon
  <2> HIDE DEF b
  <2>6. Only(b, [b EXCEPT !.f = value])
    BY <2>5, Zenon DEF Ctx
  <2>7. Only(c, n)
    BY <2>5, <2>6, Zenon
  <2> HIDE DEF n, o
  <2>8. o.c = n /\ o.did = {}
    BY <2>1, Out, Zenon
  <2>9. Frame(c, "Fcsr", n) /\ Told(c, n, {})
    BY <2>7, LessTold, Zenon DEF Frame, FpCsr, StatusCsr
  <2> QED BY <2>7, <2>8, <2>9, Zenon DEF WriteShape, o
<1> QED BY <1>1, <1>2, Zenon

\* An instruction that changes nothing but what Frame allows Fcsr or Sip.
LEMMA OtherGood ==
    ASSUME CsrInv, NEW i, NEW who \in Who, NEW o, Apply(i, who, o), i.csr = "",
           NEW csr \in {"Fcsr", "Mip"}, csr = "Mip" => who # "allowed",
           Frame(ctx, csr, o.c), o.did \subseteq Events, Told(ctx, o.c, o.did),
           1 \in ctx.mip \ o.c.mip => i = Sbi(3)
    PROVE  StepGood
<1>1. /\ ctx' = o.c /\ did' = o.did /\ focus' = focus /\ by' = who
      /\ FS \subseteq ctx'.mstatus \/ saved' = saved
  BY OtherSaved, Zenon
<1>2. i = Sbi(3) => clears'
  BY Zenon DEF Apply
<1>3. csr \notin StatusCsr /\ (csr = "Fcsr" => csr \notin MachineCsr \cup SupervisorCsr)
  BY Zenon DEF StatusCsr, MachineCsr, SupervisorCsr, Machine, Supervisor
<1> QED BY <1>1, <1>2, <1>3, FrameGood, Zenon

LEMMA FpOpGood == CsrInv /\ FpOp => StepGood
<1> SUFFICES ASSUME CsrInv, FpOp PROVE StepGood
  BY Zenon
<1>1. ctx \in Ctx /\ Dirty(ctx) \in Ctx /\ FS \subseteq Dirty(ctx).mstatus
  BY DirtyCtx, Zenon DEF CsrInv
<1>2. ctx.f \in Results
  BY <1>1, Zenon DEF Ctx
<1>3. PICK k \in Kinds :
         \E rm \in IF k.rounds THEN {4, 7} ELSE {7},
            value \in IF k.to = "f" THEN Results ELSE {ctx.f},
            flags \in IF k.raises THEN {{}, {4}} ELSE {{}},
            faults \in IF k.accesses THEN BOOLEAN ELSE {FALSE} :
           LET compute(c) == Compute(c, k, rm, value, flags, faults)
           IN  Apply(Other, By(0), WithFs(ctx, compute))
  BY Zenon DEF FpOp
<1>4. PICK rm \in IF k.rounds THEN {4, 7} ELSE {7},
           value \in IF k.to = "f" THEN Results ELSE {ctx.f},
           flags \in IF k.raises THEN {{}, {4}} ELSE {{}},
           faults \in IF k.accesses THEN BOOLEAN ELSE {FALSE} :
        LET compute(c) == Compute(c, k, rm, value, flags, faults)
        IN  Apply(Other, By(0), WithFs(ctx, compute))
  BY <1>3, Zenon
<1>a. rm \in {4, 7}
  BY Zenon
<1>b. value \in Results
  BY <1>2, Zenon
<1>c. flags \in SUBSET (0..4)
  <2>1. flags \in {{}, {4}}
    BY Zenon
  <2> QED BY <2>1
<1>d. faults \in BOOLEAN
  BY Zenon
<1> DEFINE t == test_and_set_fs(ctx)
           o == IF t.ok THEN Compute(t.c, k, rm, value, flags, faults) ELSE t
<1>5. Apply(Other, By(0), o) /\ By(0) \in Who
  BY <1>4, Zenon DEF WithFs, By, Who
<1>6. WriteShape(ctx, "Fcsr", {}, o) /\ o.c.mip = ctx.mip
  <2>1. CASE t = [ok |-> FALSE, c |-> ctx, v |-> {}, did |-> {}]
    <3>1. o = t
      BY <2>1
    <3>2. o.c = ctx /\ o.did \subseteq Events
      BY <2>1, <3>1
    <3> HIDE DEF o
    <3> QED BY <1>1, <3>2, WriteNothing, Zenon
  <2>2. CASE t = [ok |-> TRUE, c |-> Dirty(ctx), v |-> {}, did |-> {}]
    <3>1. o = Compute(Dirty(ctx), k, rm, value, flags, faults)
      BY <2>2
    <3> HIDE DEF o
    <3>2. WriteShape(Dirty(ctx), "Fcsr", {}, o)
      BY <1>1, <1>a, <1>b, <1>c, <1>d, <3>1, Computed, Zenon
    <3>3. WriteShape(ctx, "Fcsr", {}, o)
      BY <1>1, <3>2, DirtyShape, Zenon DEF FpCsr
    <3> QED BY <3>3, Zenon DEF WriteShape, Frame
  <2> QED BY <1>1, <2>1, <2>2, TestAndSet, Zenon
<1> HIDE DEF o
<1> QED BY <1>5, <1>6, OtherGood, Zenon DEF WriteShape, Other

\* A return touches prv and bits of mstatus other than FS.
LEMMA ReturnGood ==
    ASSUME CsrInv, NEW level \in {1, 3}, NEW to \in {0, 1, 3},
           NEW status \in SUBSET MstatusMask, NEW down,
           status \cap FS = ctx.mstatus \cap FS,
           level = 1 => status \ SstatusMask = ctx.mstatus \ SstatusMask,
           Return(level, [ctx EXCEPT !.prv = to, !.mstatus = status], down)
    PROVE  StepGood
<1> DEFINE n == [ctx EXCEPT !.prv = to, !.mstatus = status]
           e == Alert(n) \cup IF down THEN {"flush"} ELSE {}
           o == Outcome(TRUE, n, {}, e)
<1>1. /\ n \in Ctx /\ n.prv = to /\ n.mstatus = status /\ n.mie = ctx.mie /\ n.mip = ctx.mip
      /\ n.mideleg = ctx.mideleg /\ n.reg = ctx.reg /\ FpState(n) = FpState(ctx)
  BY Zenon DEF CsrInv, Ctx, FpState
<1>2. Apply(Other, By(level), o)
  BY Zenon DEF Return
<1>3. e \subseteq Events /\ Told(ctx, n, e)
  BY AlertTold, Zenon DEF Alert, Events
<1> HIDE DEF n, e
<1>4. o.c = n /\ o.did = e
  BY Zenon DEF Outcome
<1> HIDE DEF o
<1>5. /\ ctx' = n /\ did' = e /\ focus' = focus /\ by' = By(level)
      /\ FS \subseteq ctx'.mstatus \/ saved' = saved
  BY <1>2, <1>4, OtherSaved, Zenon DEF Other
<1>6. FsTracks'
  BY <1>1, <1>5, Zenon DEF CsrInv, FsTracks
<1>7. ASSUME by' = "allowed" PROVE SupervisorConfined
  <2>1. ctx.prv >= level /\ ctx.prv \in {0, 1, 3}
    <3>1. by' = IF ctx.prv >= level THEN "allowed" ELSE "fused"
      BY <1>5, Zenon DEF By
    <3> QED BY <1>7, <3>1, Zenon DEF CsrInv, Ctx
  <2>2. ~(ctx.prv < 1) /\ (ctx.prv < 3 => level = 1)
    BY <2>1
  <2>3. ASSUME ctx.prv < 3 PROVE MachineState(n) = MachineState(ctx)
    BY <1>1, <2>2, <2>3, Zenon DEF MachineState
  <2> QED BY <1>5, <2>2, <2>3, Zenon DEF SupervisorConfined
<1>8. SsipKept /\ Noticed
  BY <1>1, <1>3, <1>5, Zenon DEF SsipKept, Noticed, Told
<1>9. by' \in Who
  BY <1>5, Zenon DEF By, Who
<1> QED BY <1>1, <1>3, <1>5, <1>6, <1>7, <1>8, <1>9, Zenon DEF StepGood

LEMMA MretGood == CsrInv /\ CsrMret => StepGood
<1> SUFFICES ASSUME CsrInv, CsrMret PROVE StepGood
  BY Zenon
<1> DEFINE S == {b - 11 : b \in ctx.mstatus \cap {11, 12}}
           MPP == ToNumber(S)
           MPIE == IF 7 \in ctx.mstatus THEN {3} ELSE {}
           status == ((ctx.mstatus \ {3, 11, 12}) \cup MPIE) \cup {7}
<1>1. MPP # 2
  BY Zenon DEF CsrMret
<1>2. Return(3, [ctx EXCEPT !.prv = MPP, !.mstatus = status], MPP # 3)
  BY Zenon DEF CsrMret
<1>3. MPP \in {0, 1, 3}
  <2>1. 2 \notin S
    OBVIOUS
  <2> HIDE DEF S
  <2> QED BY <1>1, <2>1 DEF ToNumber
<1>4. status \in SUBSET MstatusMask /\ status \cap FS = ctx.mstatus \cap FS
  BY DEF CsrInv, Ctx, MstatusMask, FS
<1> HIDE DEF MPP, status, S, MPIE
<1>5. 3 # 1
  OBVIOUS
<1> QED BY <1>2, <1>3, <1>4, <1>5, ReturnGood, Zenon

LEMMA SretGood == CsrInv /\ CsrSret => StepGood
<1> SUFFICES ASSUME CsrInv, CsrSret PROVE StepGood
  BY Zenon
<1> DEFINE SPIE == IF 5 \in ctx.mstatus THEN {1} ELSE {}
           SPP == IF 8 \in ctx.mstatus THEN 1 ELSE 0
           status == ((ctx.mstatus \ {1, 8}) \cup SPIE) \cup {5}
<1>1. Return(1, [ctx EXCEPT !.prv = SPP, !.mstatus = status], SPP = 0)
  BY Zenon DEF CsrSret
<1>2. SPP \in {0, 1, 3}
  BY Zenon
<1>3. status \in SUBSET MstatusMask /\ status \cap FS = ctx.mstatus \cap FS
  BY DEF CsrInv, Ctx, MstatusMask, SstatusMask, FS
<1>4. status \ SstatusMask = ctx.mstatus \ SstatusMask
  BY Zenon DEF SstatusMask
<1> HIDE DEF SPP, status
<1> QED BY <1>1, <1>2, <1>3, <1>4, ReturnGood, Zenon

\* An interrupt is asserted or deasserted.
LEMMA PinGood ==
    ASSUME CsrInv, NEW i, NEW o, Apply(i, "outside", o), i.csr = "",
           \/ \E b \in Interrupts : o = assert(ctx, {b})
           \/ \E b \in Interrupts : o = deassert(ctx, {b}) /\ (b = 1 => i = Sbi(3))
    PROVE  StepGood
<1>1. ctx \in Ctx /\ "outside" \in Who /\ "outside" # "allowed" /\ "Mip" # "Sip"
  BY Zenon DEF CsrInv, Who
<1>2. CASE \E b \in Interrupts : o = assert(ctx, {b})
  <2>1. PICK b \in Interrupts : o = assert(ctx, {b})
    BY <1>2, Zenon
  <2>2. /\ MipOnly(ctx, o.c) /\ o.c.mip = ctx.mip \cup {b}
        /\ o.did = IF {b} \subseteq ctx.mip THEN {} ELSE {"alert"}
    <3>1. {b} \in SUBSET Interrupts
      BY Zenon
    <3> QED BY <1>1, <2>1, <3>1, Asserted, Zenon
  <2>3. o.did \subseteq Events /\ Told(ctx, o.c, o.did)
    BY <1>1, <2>2, MipTold, Zenon DEF Events
  <2>4. Frame(ctx, "Mip", o.c)
    BY <1>1, <2>2, MipFrame, Zenon
  <2> QED BY <1>1, <2>2, <2>3, <2>4, OtherGood, Zenon
<1>3. CASE \E b \in Interrupts : o = deassert(ctx, {b}) /\ (b = 1 => i = Sbi(3))
  <2>1. PICK b \in Interrupts : o = deassert(ctx, {b}) /\ (b = 1 => i = Sbi(3))
    BY <1>3, Zenon
  <2>2. MipOnly(ctx, o.c) /\ o.c.mip = ctx.mip \ {b} /\ o.did = {}
    BY <1>1, <2>1, Deasserted, Zenon
  <2>3. o.did \subseteq Events /\ Told(ctx, o.c, o.did)
    BY <1>1, <2>2, MipTold, Zenon DEF Events
  <2>4. Frame(ctx, "Mip", o.c)
    BY <1>1, <2>2, MipFrame, Zenon
  <2> QED BY <1>1, <2>1, <2>2, <2>3, <2>4, OtherGood, Zenon
<1> QED BY <1>2, <1>3, Zenon

LEMMA EcallGood == CsrInv /\ Ecall => StepGood
<1> SUFFICES ASSUME CsrInv, Ecall PROVE StepGood
  BY Zenon
<1>1. PICK nr \in 0..9, mine \in BOOLEAN : Apply(Sbi(nr), "outside", sbi_call(ctx, nr, mine))
  BY Zenon DEF Ecall
<1> DEFINE o == sbi_call(ctx, nr, mine)
<1>2. 1 \in Interrupts /\ Sbi(nr).csr = "" /\ ctx \in Ctx
  BY Zenon DEF Interrupts, Sbi, CsrInv
<1>3. CASE nr = 3
  <2>1. o = deassert(ctx, {1})
    BY <1>3 DEF sbi_call
  <2> HIDE DEF o
  <2> QED BY <1>1, <1>2, <1>3, <2>1, PinGood, Zenon DEF o
<1>4. CASE nr = 4 /\ mine
  <2>1. o = assert(ctx, {1})
    BY <1>4 DEF sbi_call
  <2> HIDE DEF o
  <2> QED BY <1>1, <1>2, <2>1, PinGood, Zenon DEF o
<1>5. CASE nr # 3 /\ ~(nr = 4 /\ mine)
  <2>1. \E e \in SUBSET Events : o = Outcome(TRUE, ctx, {}, e)
    <3>1. CASE nr \in 5..7 /\ mine
      <4>a. o = Outcome(TRUE, ctx, {}, IF mine THEN {"flush"} ELSE {})
        <5>1. nr # 3 /\ nr # 4 /\ nr # 8 /\ nr \in 3..8
          BY <3>1
        <5> QED BY <3>1, <5>1, Zenon DEF sbi_call
      <4>1. o = Outcome(TRUE, ctx, {}, {"flush"})
        BY <3>1, <4>a, Zenon
      <4> HIDE DEF o
      <4> QED BY <4>1, Zenon DEF Events
    <3>2. CASE nr \in 5..7 /\ ~mine
      <4>a. o = Outcome(TRUE, ctx, {}, IF mine THEN {"flush"} ELSE {})
        <5>1. nr # 3 /\ nr # 4 /\ nr # 8 /\ nr \in 3..8
          BY <3>2
        <5> QED BY <3>2, <5>1, Zenon DEF sbi_call
      <4>1. o = Outcome(TRUE, ctx, {}, {})
        BY <3>2, <4>a, Zenon
      <4> HIDE DEF o
      <4> QED BY <4>1, Zenon
    <3>3. CASE nr = 8
      <4>1. o = Outcome(TRUE, ctx, {}, {"stop"})
        BY <3>3 DEF sbi_call
      <4> HIDE DEF o
      <4> QED BY <4>1, Zenon DEF Events
    <3>4. CASE nr = 4 /\ ~mine
      <4>1. o = Outcome(TRUE, ctx, {}, {})
        BY <3>4 DEF sbi_call, Wrote
      <4> HIDE DEF o
      <4> QED BY <4>1, Zenon
    <3>5. CASE nr \notin 3..8
      <4>1. o = Outcome(TRUE, ctx, {}, {})
        BY <3>5 DEF sbi_call, Wrote
      <4> HIDE DEF o
      <4> QED BY <4>1, Zenon
    <3>6. nr \in 5..7 \/ nr = 8 \/ nr = 4 \/ nr \notin 3..8
      BY <1>5
    <3> QED BY <1>5, <3>1, <3>2, <3>3, <3>4, <3>5, <3>6, Zenon
  <2> HIDE DEF o
  <2>2. PICK e \in SUBSET Events : o = Outcome(TRUE, ctx, {}, e)
    BY <2>1, Zenon
  <2>3. o.c = ctx /\ o.did = e
    BY <2>2, Out, Zenon
  <2> QED BY <1>1, <1>2, <2>2, <2>3, FrameSame, SameTold, OtherGood, Zenon DEF o, Who
<1> QED BY <1>3, <1>4, <1>5, Zenon

LEMMA ExternalGood == CsrInv /\ External => StepGood
<1> SUFFICES ASSUME CsrInv, External PROVE StepGood
  BY Zenon
<1>1. PICK o \in {assert(ctx, {1}), assert(ctx, {7}), deassert(ctx, {7})} : Apply(Other, "outside", o)
  BY Zenon DEF External
<1>2. 1 \in Interrupts /\ 7 \in Interrupts /\ Other.csr = ""
  BY Zenon DEF Interrupts, Other
<1>3. CASE o = assert(ctx, {1})
  BY <1>1, <1>2, <1>3, PinGood, Zenon
<1>4. CASE o = assert(ctx, {7})
  BY <1>1, <1>2, <1>4, PinGood, Zenon
<1>5. CASE o = deassert(ctx, {7})
  <2>1. \E b \in Interrupts : o = deassert(ctx, {b}) /\ (b = 1 => Other = Sbi(3))
    <3>1. 7 = 1 => Other = Sbi(3)
      OBVIOUS
    <3> QED BY <1>2, <1>5, <3>1, Zenon
  <2> QED BY <1>1, <1>2, <2>1, PinGood, Zenon
<1> QED BY <1>1, <1>3, <1>4, <1>5, Zenon

LEMMA NextGood == CsrInv /\ CsrNext => StepGood
BY EmittedCsrGood, FpOpGood, MretGood, SretGood, EcallGood, ExternalGood, Zenon DEF CsrNext

LEMMA InitGood == CsrInit => CsrInv
<1> SUFFICES ASSUME CsrInit PROVE CsrInv
  BY Zenon
<1>1. focus \subseteq CsrNames
  BY Names DEF CsrInit, FocusSets, FpCsr, StatusCsr, ReadOnlyCsr, WritableCsr, Supervisor, Machine
<1>2. PICK level \in {0, 1, 3} :
         ctx = [prv |-> level, boot |-> level, mstatus |-> FS, mie |-> {}, mip |-> {},
                mideleg |-> IF level = 3 THEN {} ELSE SLevel,
                reg |-> [r \in Supervisor \cup Machine |->
                           CASE level # 3 /\ r = "Medeleg" -> Exceptions
                             [] level # 3 /\ r = "Mcounteren" -> {0, 1, 2}
                             [] OTHER -> {}],
                frm |-> 0, fflags |-> {}, f |-> CHOOSE v \in Results : TRUE, rm |-> 0]
  BY Zenon DEF CsrInit
<1> DEFINE f == CHOOSE v \in Results : TRUE
           reg == [r \in Supervisor \cup Machine |->
                     CASE level # 3 /\ r = "Medeleg" -> Exceptions
                       [] level # 3 /\ r = "Mcounteren" -> {0, 1, 2}
                       [] OTHER -> {}]
           mideleg == IF level = 3 THEN {} ELSE SLevel
<1>3. f \in Results
  BY WordAssumption, Zenon
<1>4. reg \in [Reg -> SUBSET Bits]
  BY DEF Reg, Bits, Exceptions
<1>5. mideleg \in SUBSET SLevel /\ FS \in SUBSET MstatusMask
  BY Zenon DEF MstatusMask, SstatusMask
<1>6. ctx = [prv |-> level, boot |-> level, mstatus |-> FS, mie |-> {}, mip |-> {},
             mideleg |-> mideleg, reg |-> reg, frm |-> 0, fflags |-> {}, f |-> f, rm |-> 0]
  BY <1>2, Zenon
<1> HIDE DEF f, reg, mideleg
<1>7. ctx \in Ctx /\ FS \subseteq ctx.mstatus
  BY <1>3, <1>4, <1>5, <1>6 DEF Ctx
<1>8. did \subseteq Events /\ by \in Who
  BY Zenon DEF CsrInit, Who
<1> QED BY <1>1, <1>7, <1>8, Zenon DEF CsrInv, FsTracks

LEMMA CsrInductive == CsrSpec => []CsrInv
<1>1. ASSUME CsrInv, [CsrNext]_csrVars PROVE CsrInv'
  <2>1. CASE CsrNext
    BY <1>1, <2>1, NextGood, Zenon DEF StepGood, CsrInv
  <2>2. CASE UNCHANGED csrVars
    BY <1>1, <2>2, Zenon DEF csrVars, CsrInv, FsTracks
  <2> QED BY <1>1, <2>1, <2>2, Zenon
<1> QED BY InitGood, <1>1, PTL DEF CsrSpec

\* The registers hold only values that write_csr lets through: frm never
\* outgrows the rounding modes, mstatus, mie, mip and mideleg their masks.
THEOREM CsrTyped == CsrSpec => []CsrTypeOK
<1>1. CsrInv => CsrTypeOK
  BY Zenon DEF CsrInv, CsrTypeOK, Ctx, Events, Who
<1> QED BY <1>1, CsrInductive, PTL

\* No sequence of instructions, interpreted or compiled, changes the
\* floating-point state while FS says it is not Dirty.
THEOREM CsrFsTracks == CsrSpec => []FsTracks
<1>1. CsrInv => FsTracks
  BY Zenon DEF CsrInv
<1> QED BY <1>1, CsrInductive, PTL

\* Every instruction that the hart's level permits leaves the state of higher
\* levels alone, mip included, whatever its operands.  This says nothing of an
\* instruction of a higher level that is executed because it was fused.
THEOREM CsrConfined == CsrSpec => Confined
<1>1. CsrInv /\ [CsrNext]_csrVars => [by' = "allowed" => SupervisorConfined]_csrVars
  BY NextGood, Zenon DEF StepGood
<1> QED BY <1>1, CsrInductive, PTL DEF CsrSpec, Confined

\* Only an instruction that asks for it clears a pending software interrupt.
THEOREM CsrSsipStays == CsrSpec => SsipStays
<1>1. CsrInv /\ [CsrNext]_csrVars => [SsipKept]_csrVars
  BY NextGood, Zenon DEF StepGood
<1> QED BY <1>1, CsrInductive, PTL DEF CsrSpec, SsipStays

\* Whatever makes an interrupt one to be taken alerts the hart.
THEOREM CsrInterruptsNoticed == CsrSpec => InterruptsNoticed
<1>1. CsrInv /\ [CsrNext]_csrVars => [ctx' # ctx => Noticed]_csrVars
  BY NextGood, Zenon DEF StepGood
<1> QED BY <1>1, CsrInductive, PTL DEF CsrSpec, InterruptsNoticed

=============================================================================
