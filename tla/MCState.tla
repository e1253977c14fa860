------------------------------ MODULE MCState -------------------------------
(***************************************************************************)
(* The state of a hart that must stay in step with something else, in      *)
(* three parts: the translations in its L0 caches (L0), the code that was  *)
(* translated from pages of memory (CodeProt), and its control and status  *)
(* registers (Csr).  In a behaviour one part moves; the other two stay in  *)
(* an initial state.                                                       *)
(***************************************************************************)
EXTENDS L0, CodeProt, Csr

VARIABLE part  \* the part that moves: "l0", "code" or "csr"

all_vars == <<part, l0Vars, codeVars, csrVars>>

(***************************************************************************)
(* Two page tables for L0, in table 2 and, below it, table 3: a user page  *)
(* that can be written, executable user code, kernel code that can only be *)
(* run, a superpage of two pages, and one that is misaligned.              *)
(***************************************************************************)
Leaf(p, f) == [ppn |-> p, f |-> f \cup {"V", "A"}]
Ptr == [ppn |-> 3, f |-> {"V"}]
Both(a, b) == (0 :> a) @@ (1 :> b)

Table(l, r) == (2 :> Both(Ptr, r)) @@ (3 :> Both(l, Leaf(1, {"R", "X", "U"})))

SomeTables == {Table(Leaf(0, {"R", "W", "D", "U"}), Leaf(2, {"R", "W", "D"})),
               Table(Leaf(3, {"X"}), Leaf(1, {"R"}))}

\* The initial states of the parts that do not move.
L0Rests == L0Init /\ ptm = Table(Leaf(3, {"X"}), Leaf(1, {"R"})) /\ ~threaded /\ max = 1
CodeRests == CodeInit /\ map = [p \in Page |-> 0]
CsrRests == CsrInit /\ focus = {"Sip"} /\ ctx.prv = 1

\* A hart that starts in M-mode can come to every state that one that starts in
\* S-mode is in.  The other maps of two pages are these two with the physical
\* pages renamed.
MCInit == \/ part = "l0" /\ L0Init /\ max = 3 /\ CodeRests /\ CsrRests
          \/ part = "code" /\ CodeInit /\ map[0] = 0 /\ L0Rests /\ CsrRests
          \/ part = "csr" /\ CsrInit /\ (ctx.boot = 0 => Cardinality(focus) = 1) /\ L0Rests /\ CodeRests

MCNext == \/ part = "l0" /\ L0Next /\ UNCHANGED <<part, codeVars, csrVars>>
          \/ part = "code" /\ CodeNext /\ UNCHANGED <<part, l0Vars, csrVars>>
          \/ part = "csr" /\ CsrNext /\ UNCHANGED <<part, l0Vars, codeVars>>

MCSpec == MCInit /\ [][MCNext]_all_vars
=============================================================================
