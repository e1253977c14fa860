------------------------------ MODULE CodeProt ------------------------------
(***************************************************************************)
(* Translated code and the stores that change it: CODE_PROT, the write     *)
(* bits of the L0 data caches and the invalidations queued on the harts    *)
(* (src/src/emu/interp.rs), with the DMA of devices (src/src/emu/mod.rs).  *)
(*                                                                         *)
(* Memory is two pages, each holding one of two contents; the virtual page *)
(* v maps to the physical page map[v].  Each hart has one L0 line, kept as *)
(* the code keeps it: a tag (virtual page, write-protected or not) and the *)
(* XOR of the virtual and the physical page, stored after the tag.         *)
(*                                                                         *)
(* In lockstep mode the harts are fibers of one thread: a hart is          *)
(* interrupted by others only where it sleeps, between two instructions.   *)
(* In threaded mode every access to shared state is a step of its own.     *)
(* Devices run in threads of their own in both.                            *)
(***************************************************************************)
EXTENDS Naturals, FiniteSets, TLC

CONSTANTS Harts, Lockstep, None

Page == {0, 1}
Content == {0, 1}
Xor(a, b) == (a + b) % 2

VARIABLES map,     \* virtual to physical page; fixed
          ram,     \* content of each page
          lines,    \* the L0 data line of each hart: [v, ro, x]
          prot,    \* CODE_PROT: pages some hart has translated
          lock,    \* who holds it
          blocks,  \* per hart and page: in the ICache map
          code,    \* per hart and page: the content its block was made from
          tasks,   \* pages whose invalidation is queued on each hart
          pc, arg, \* what each hart is in the middle of
          left,    \* harts whose lines the translating hart has yet to protect
          dma      \* page a device has written and not yet invalidated

codeVars == <<map, ram, lines, prot, lock, blocks, code, tasks, pc, arg, left, dma>>

Empty == [v |-> None, ro |-> FALSE, x |-> 0]

CodeInit == /\ map \in [Page -> Page]
            /\ ram = [p \in Page |-> 0]
            /\ lines = [h \in Harts |-> Empty]
            /\ prot = {} /\ lock = None
            /\ blocks = [h \in Harts |-> {}]
            /\ code = [h \in Harts |-> [p \in Page |-> None]]
            /\ tasks = [h \in Harts |-> {}]
            /\ pc = [h \in Harts |-> "idle"]
            /\ arg = [h \in Harts |-> 0]
            /\ left = {} /\ dma = None

\* The page that line l of a hart translates to.
paddr(l) == Xor(l.v, l.x)

\* Other fibers do not run while this one is inside an instruction.
CanStep(h) == Lockstep => \A k \in Harts \ {h} : pc[k] = "idle"

Goto(h, l) == pc' = [pc EXCEPT ![h] = l]
Done(h) == pc' = [pc EXCEPT ![h] = "idle"] /\ arg' = [arg EXCEPT ![h] = 0]

-----------------------------------------------------------------------------
(* Stores and loads.                                                       *)

\* translate_write: the tag equals idx << 1 only if the line is writable.
TranslateWrite(h, v) ==
    /\ pc[h] = "idle" /\ CanStep(h)
    /\ IF lines[h].v = v /\ ~lines[h].ro
       THEN Goto(h, "store") /\ arg' = [arg EXCEPT ![h] = paddr(lines[h])]
       ELSE Goto(h, "tag") /\ arg' = [arg EXCEPT ![h] = v]
    /\ UNCHANGED <<map, ram, lines, prot, lock, blocks, code, tasks, left, dma>>

\* translate_read, with the line that a miss inserts; loads change nothing else.
TranslateRead(h, v) ==
    /\ pc[h] = "idle" /\ CanStep(h)
    /\ lines[h].v # v
    /\ lines' = [lines EXCEPT ![h] = [v |-> v, ro |-> TRUE, x |-> Xor(v, map[v])]]
    /\ UNCHANGED <<map, ram, prot, lock, blocks, code, tasks, pc, arg, left, dma>>

\* insert_data_cache_line: first the tag, then the XOR.
InsertTag(h) ==
    /\ pc[h] = "tag" /\ CanStep(h)
    /\ lines' = [lines EXCEPT ![h].v = arg[h], ![h].ro = FALSE]
    /\ Goto(h, "xor")
    /\ UNCHANGED <<map, ram, prot, lock, blocks, code, tasks, arg, left, dma>>

InsertXor(h) ==
    /\ pc[h] = "xor" /\ CanStep(h)
    /\ lines' = [lines EXCEPT ![h].x = Xor(arg[h], map[arg[h]])]
    /\ arg' = [arg EXCEPT ![h] = map[arg[h]]]
    /\ Goto(h, "invalidate")
    /\ UNCHANGED <<map, ram, prot, lock, blocks, code, tasks, left, dma>>

\* Mutant: only the hart that stores drops its blocks.
invalidate_local(p) ==
    /\ lock = None
    /\ prot' = prot \ {p}
    /\ tasks' = IF p \in prot
                THEN [h \in Harts |-> IF pc[h] = "invalidate" THEN tasks[h] \cup {p} ELSE tasks[h]]
                ELSE tasks

\* The page leaves CODE_PROT and its blocks are queued for removal.
icache_invalidate(p) ==
    /\ lock = None
    /\ prot' = prot \ {p}
    /\ tasks' = IF p \in prot THEN [h \in Harts |-> tasks[h] \cup {p}] ELSE tasks

\* The end of translate_cache_miss.
Invalidate(h) ==
    /\ pc[h] = "invalidate" /\ CanStep(h)
    /\ icache_invalidate(arg[h])
    /\ Goto(h, "store")
    /\ UNCHANGED <<map, ram, lines, lock, blocks, code, arg, left, dma>>

Store(h) ==
    /\ pc[h] = "store" /\ CanStep(h)
    /\ \E c \in Content : ram' = [ram EXCEPT ![arg[h]] = c]
    /\ Done(h)
    /\ UNCHANGED <<map, lines, prot, lock, blocks, code, tasks, left, dma>>

-----------------------------------------------------------------------------
(* Translation.                                                            *)

\* find_block for the page p, whose translation is in the instruction cache.
FindBlock(h, p) ==
    /\ pc[h] = "idle" /\ CanStep(h) /\ lock = None
    /\ p \notin blocks[h]
    /\ arg' = [arg EXCEPT ![h] = p]
    /\ prot' = prot \cup {p}
    /\ IF p \in prot THEN Goto(h, "translate") /\ UNCHANGED <<lock, left>>
       ELSE Goto(h, "protect") /\ lock' = h /\ left' = Harts
    /\ UNCHANGED <<map, ram, lines, blocks, code, tasks, dma>>

\* Mutant: the hart that translates protects its own line only.
protect_own(l, k, p) == IF l.v # None /\ paddr(l) = p /\ pc[k] = "protect" THEN [l EXCEPT !.ro = TRUE] ELSE l

\* What protect_code makes of the line l of hart k.
protect_code(l, k, p) == IF l.v # None /\ paddr(l) = p THEN [l EXCEPT !.ro = TRUE] ELSE l

\* The loop over the harts' lines, with CODE_PROT held.
ProtectOne(h) ==
    /\ pc[h] = "protect" /\ CanStep(h)
    /\ \E k \in left :
          /\ lines' = [lines EXCEPT ![k] = protect_code(@, k, arg[h])]
          /\ left' = left \ {k}
    /\ IF left' = {} THEN lock' = None /\ Goto(h, "translate")
       ELSE UNCHANGED <<lock, pc>>
    /\ UNCHANGED <<map, ram, prot, blocks, code, tasks, arg, dma>>

\* The page is read and the block inserted.  A full heap starts over: every
\* block is gone, and no jump to the old ones is left patched.
TranslateCode(h) ==
    /\ pc[h] = "translate" /\ CanStep(h)
    /\ \E rollover \in BOOLEAN :
          LET old == IF rollover THEN [p \in Page |-> None] ELSE code[h]
          IN  /\ code' = [code EXCEPT ![h] = [old EXCEPT ![arg[h]] = ram[arg[h]]]]
              /\ blocks' = [blocks EXCEPT ![h] = (IF rollover THEN {} ELSE @) \cup {arg[h]}]
    /\ Done(h)
    /\ UNCHANGED <<map, ram, lines, prot, lock, tasks, left, dma>>

\* The queued closures: the entries leave the map and their code becomes a
\* return, for the jumps that were patched to go straight to it.
remove_blocks(h) ==
    /\ blocks' = [blocks EXCEPT ![h] = @ \ tasks[h]]
    /\ code' = [code EXCEPT ![h] = [p \in Page |-> IF p \in tasks[h] /\ p \in blocks[h] THEN None ELSE @[p]]]

\* An interrupt check of the hart; fence.i ends its block with one.
RunTasks(h) ==
    /\ pc[h] = "idle" /\ CanStep(h)
    /\ tasks[h] # {}
    /\ remove_blocks(h)
    /\ tasks' = [tasks EXCEPT ![h] = {}]
    /\ UNCHANGED <<map, ram, lines, prot, lock, pc, arg, left, dma>>

-----------------------------------------------------------------------------
(* A device writes memory: dma_write copies, then invalidates.             *)

DmaCopy(p) ==
    /\ dma = None
    /\ \E c \in Content : ram' = [ram EXCEPT ![p] = c]
    /\ dma' = p
    /\ UNCHANGED <<map, lines, prot, lock, blocks, code, tasks, pc, arg, left>>

DmaInvalidate ==
    /\ dma # None
    /\ icache_invalidate(dma)
    /\ dma' = None
    /\ UNCHANGED <<map, ram, lines, lock, blocks, code, pc, arg, left>>

\* The harts have stopped to switch models: blocks and lines go, CODE_PROT stays.
SwitchModel ==
    /\ \A h \in Harts : pc[h] = "idle"
    /\ blocks' = [h \in Harts |-> {}]
    /\ code' = [h \in Harts |-> [p \in Page |-> None]]
    /\ lines' = [h \in Harts |-> Empty]
    /\ UNCHANGED <<map, ram, prot, lock, tasks, pc, arg, left, dma>>

CodeNext == \/ \E h \in Harts : \/ \E v \in Page : TranslateWrite(h, v) \/ TranslateRead(h, v)
                                \/ InsertTag(h) \/ InsertXor(h) \/ Invalidate(h) \/ Store(h)
                                \/ \E p \in Page : FindBlock(h, p)
                                \/ ProtectOne(h) \/ TranslateCode(h) \/ RunTasks(h)
            \/ \E p \in Page : DmaCopy(p)
            \/ DmaInvalidate \/ SwitchModel

CodeSpec == CodeInit /\ [][CodeNext]_codeVars

\* The harts are alike.
Symmetry == Permutations(Harts)

-----------------------------------------------------------------------------
(* The guarantee in the comment on CODE_PROT: the code a hart can jump to   *)
(* was translated from what memory holds, or its removal is queued on that  *)
(* hart (or a device that wrote the page is about to queue it).             *)
CodeTrue ==
    \A h \in Harts, p \in Page :
        code[h][p] \notin {None, ram[p]} => p \in tasks[h] \/ dma = p

(* What makes it so: between instructions, no line lets a hart write to a   *)
(* page of CODE_PROT without going through translate_cache_miss.            *)
ProtectedIsReadOnly ==
    \A h \in Harts :
        pc[h] = "idle" /\ lines[h].v # None /\ ~lines[h].ro /\ lock = None
            => paddr(lines[h]) \notin prot
=============================================================================
