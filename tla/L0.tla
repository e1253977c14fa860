--------------------------------- MODULE L0 ---------------------------------
(***************************************************************************)
(* The L0 caches of a hart (src/src/emu/interp.rs) over the page tables    *)
(* that walk_page and check_permission read (src/lib/riscv/src/mmu.rs).    *)
(* A line that hits is used without a look at the page table, the          *)
(* privilege or mstatus: whatever changes those must clear the lines.      *)
(*                                                                         *)
(* A page table has Levels levels of two entries; table t is the physical  *)
(* page t.  An entry is [ppn, f]: a page and a set of flags.  Lines are as *)
(* large as pages, and all addresses share one slot of each cache.         *)
(* In lockstep mode no other hart runs between the walk of a miss and the  *)
(* insertion of its line.                                                  *)
(***************************************************************************)
EXTENDS Integers, FiniteSets

CONSTANTS Levels, Roots, PageTables, Nil

VARIABLES threaded, max,  \* the mode; the privilege the guest is started with
          ptm,          \* page table memory: entry i of table t
          prv, satp, sum, mxr, mprv, mpp, spp,   \* satp: root table or Nil
          line, iline,  \* Nil or [v, p, ro]
          pend,         \* a walk whose line is not inserted yet
          dirty,        \* the page table changed since this hart was fenced
          slip          \* history: a change the code does not clear the lines for

mode == <<threaded, max>>
mstatus == <<sum, mxr, mprv, mpp, spp>>
l0Vars == <<mode, ptm, prv, satp, mstatus, line, iline, pend, dirty, slip>>

Vpn == 0..(2^Levels - 1)
Access == {"Read", "Write", "Execute"}
Fault == -1
Invalid == [ppn |-> 0, f |-> {}]

-----------------------------------------------------------------------------
\* The loop of walk_page ends at the first entry that is not a pointer, or at the
\* last level; g: this entry or one on the way to it is global.
walk_loop(root, v, mem) ==
    LET Level[i \in 0..(Levels - 1), t \in DOMAIN mem, global \in BOOLEAN] ==
            LET unit == 2^(Levels - 1 - i)
                pte == mem[t][(v \div unit) % 2]
                g == global \/ "G" \in pte.f
            IN  IF "V" \in pte.f /\ pte.f \cap {"R", "W", "X"} = {} /\ i + 1 < Levels
                THEN Level[i + 1, pte.ppn, g]
                ELSE [pte |-> pte, unit |-> unit, g |-> g]
    IN  Level[0, root, FALSE]

\* walk_page: a synthesised leaf, or Invalid.
walk_page(root, v, mem) ==
    LET end == walk_loop(root, v, mem)
        pte == end.pte
    IN  IF \/ "V" \notin pte.f
           \/ pte.f \cap {"R", "W", "X"} \in {{}, {"W"}, {"W", "X"}}
           \/ pte.ppn % end.unit # 0
        THEN Invalid
        ELSE [ppn |-> pte.ppn + (v % end.unit), f |-> pte.f \cup (IF end.g THEN {"G"} ELSE {})]

check_permission(pte, access, p) ==
    /\ "V" \in pte.f /\ "A" \in pte.f
    /\ IF p = 0 THEN "U" \in pte.f ELSE "U" \in pte.f => sum
    /\ CASE access = "Read"    -> "R" \in pte.f \/ ("X" \in pte.f /\ mxr)
         [] access = "Write"   -> {"W", "D"} \subseteq pte.f
         [] access = "Execute" -> "X" \in pte.f

translate_vaddr(v, access) ==
    LET p == IF prv = 3 /\ mprv /\ access # "Execute" THEN mpp ELSE prv
        pte == walk_page(satp, v, ptm)
    IN  IF satp = Nil \/ p = 3 THEN v
        ELSE IF check_permission(pte, access, p) THEN pte.ppn ELSE Fault

-----------------------------------------------------------------------------
L0Init == /\ ptm \in PageTables
          /\ threaded \in BOOLEAN /\ max \in {1, 3}
          /\ prv = max /\ satp = Nil
          /\ sum = FALSE /\ mxr = FALSE /\ mprv = FALSE /\ mpp = 0 /\ spp = 0
          /\ line = Nil /\ iline = Nil /\ pend = Nil /\ dirty = FALSE /\ slip = FALSE

clear_local_cache == line' = Nil /\ iline' = Nil /\ slip' = FALSE

\* The lines are kept; s: although they may no longer be right.
KeepLines(s) == slip' = (slip \/ s) /\ UNCHANGED <<line, iline>>

Hit(v, access) ==
    CASE access = "Execute" -> iline # Nil /\ iline.v = v
      [] access = "Write"   -> line # Nil /\ line.v = v /\ ~line.ro
      [] access = "Read"    -> line # Nil /\ line.v = v

Insert(v, access, p) ==
    LET l == [v |-> v, p |-> p, ro |-> access # "Write"]
    IN  IF access = "Execute" THEN iline' = l /\ UNCHANGED line ELSE line' = l /\ UNCHANGED iline

\* instruction_access and data_access, once the line is missing.
Miss(v, access) ==
    /\ pend = Nil /\ ~Hit(v, access)
    /\ LET p == translate_vaddr(v, access)
       IN  /\ p # Fault
           /\ IF ~threaded THEN Insert(v, access, p) /\ UNCHANGED pend
              ELSE pend' = [v |-> v, access |-> access, p |-> p] /\ UNCHANGED <<line, iline>>
    /\ UNCHANGED <<mode, ptm, prv, satp, mstatus, dirty, slip>>

InsertPending ==
    /\ pend # Nil
    /\ Insert(pend.v, pend.access, pend.p)
    /\ pend' = Nil
    /\ UNCHANGED <<mode, ptm, prv, satp, mstatus, dirty, slip>>

\* Mutant: a trap from U-mode to S-mode keeps the lines.
trap_keeps_lines(deleg) ==
    /\ pend = Nil /\ prv # 3 /\ deleg
    /\ spp' = prv /\ prv' = 1
    /\ KeepLines(FALSE)
    /\ UNCHANGED <<mode, ptm, satp, sum, mxr, mprv, mpp, pend, dirty>>

trap(deleg) ==
    /\ pend = Nil
    /\ IF prv # 3 /\ deleg
       THEN /\ spp' = prv /\ prv' = 1 /\ UNCHANGED mpp
            /\ IF prv = 0 THEN clear_local_cache ELSE KeepLines(FALSE)
       ELSE /\ max = 3
            /\ mpp' = prv /\ prv' = 3 /\ UNCHANGED spp
            /\ IF prv # 3 THEN clear_local_cache ELSE KeepLines(mprv)
    /\ UNCHANGED <<mode, ptm, satp, sum, mxr, mprv, pend, dirty>>

\* Returns and writes of CSRs at any level, see By in Csr.
Mret == /\ pend = Nil
        /\ prv' = mpp /\ mpp' = 0
        /\ IF mpp # 3 THEN clear_local_cache ELSE KeepLines(prv # 3 \/ mprv)
        /\ UNCHANGED <<mode, ptm, satp, sum, mxr, mprv, spp, pend, dirty>>

Sret == /\ pend = Nil
        /\ prv' = spp /\ spp' = 0
        /\ IF spp = 0 THEN clear_local_cache ELSE KeepLines(prv # 1)
        /\ UNCHANGED <<mode, ptm, satp, sum, mxr, mprv, mpp, pend, dirty>>

WriteSatp == /\ pend = Nil
             /\ satp' \in Roots \cup {Nil}
             /\ clear_local_cache
             /\ UNCHANGED <<mode, ptm, prv, mstatus, pend, dirty>>

WriteSstatus == /\ pend = Nil
                /\ sum' \in BOOLEAN /\ mxr' \in BOOLEAN /\ spp' \in {0, 1}
                /\ IF sum' # sum \/ mxr' # mxr THEN clear_local_cache ELSE KeepLines(FALSE)
                /\ UNCHANGED <<mode, ptm, prv, satp, mprv, mpp, pend, dirty>>

WriteMstatus == /\ pend = Nil
                /\ sum' \in BOOLEAN /\ mxr' \in BOOLEAN /\ spp' \in {0, 1}
                /\ mprv' \in BOOLEAN /\ mpp' \in {0, 1, 3}
                /\ IF <<sum, mxr, mprv, mpp>>' # <<sum, mxr, mprv, mpp>>
                   THEN clear_local_cache ELSE KeepLines(FALSE)
                /\ UNCHANGED <<mode, ptm, prv, satp, pend, dirty>>

\* SFENCE.VMA of this hart, or the fence another hart sends it (sbi_call);
\* the addresses that either names are not looked at.
Sfence == /\ ~threaded => pend = Nil
          /\ line' = Nil /\ iline' = Nil
          /\ slip' = (pend # Nil)
          /\ dirty' = FALSE
          /\ UNCHANGED <<mode, ptm, prv, satp, mstatus, pend>>

FenceI == /\ pend = Nil
          /\ iline' = Nil
          /\ UNCHANGED <<mode, ptm, prv, satp, mstatus, line, pend, dirty, slip>>

\* Some hart stores to a page table.
WritePte == /\ ~threaded => pend = Nil
            /\ ptm' \in PageTables \ {ptm}
            /\ dirty' = TRUE
            /\ UNCHANGED <<mode, prv, satp, mstatus, line, iline, pend, slip>>

L0Next == \/ \E v \in Vpn, a \in Access : Miss(v, a)
          \/ InsertPending
          \/ \E deleg \in BOOLEAN : trap(deleg)
          \/ Mret \/ Sret \/ WriteSatp \/ WriteSstatus \/ WriteMstatus
          \/ Sfence \/ FenceI \/ WritePte

L0Spec == L0Init /\ [][L0Next]_l0Vars

-----------------------------------------------------------------------------
(* "The cache line should only contain valid entries for the current        *)
(* privilege level and ASID": unless the page table was changed and not yet *)
(* fenced, a line translates as the page table does now, for the privilege  *)
(* and the mstatus of now, and a writable line only where a store may go.   *)
(* The exceptions, which the code does not provide for, are marked by slip: *)
(* a trap or an mret inside M-mode that changes MPP under MPRV, an sret to  *)
(* S-mode or an mret to M-mode at another level (the sret in M-mode, the    *)
(* others if fused with a branch), and a remote fence that comes between a  *)
(* walk and the insertion of its line in threaded mode.                     *)
LinesValid ==
    ~dirty /\ ~slip =>
       /\ iline # Nil => translate_vaddr(iline.v, "Execute") = iline.p
       /\ line # Nil  => /\ translate_vaddr(line.v, "Read") = line.p
                          /\ ~line.ro => translate_vaddr(line.v, "Write") = line.p
=============================================================================
