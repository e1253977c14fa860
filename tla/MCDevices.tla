----------------------------- MODULE MCDevices ------------------------------
(***************************************************************************)
(* The devices for TLC.  One of three scenarios is chosen at the start: a  *)
(* virtio device with its driver, the PLIC under arbitrary register        *)
(* accesses and sources, or the CLINT.                                     *)
(***************************************************************************)
EXTENDS Virtio, Clint

VARIABLE part

vars == <<part, virtioVars, plicVars, clintVars>>

Init ==
    /\ part \in {"virtio", "plic", "clint"}
    /\ VirtioInit /\ ClintInit
    /\ IF part = "virtio" THEN Configured ELSE PlicInit
    /\ part # "virtio" => kind = "blk"
    /\ part # "clint" => ~threaded

Next ==
    \/ part = "virtio" /\ VirtioNext /\ UNCHANGED <<part, clintVars>>
    \/ part = "plic" /\ PlicNext /\ UNCHANGED <<part, virtioVars, clintVars>>
    \/ part = "clint" /\ ClintNext /\ UNCHANGED <<part, virtioVars, plicVars>>

Spec == Init /\ [][Next]_vars

TypeOK ==
    /\ PlicTypeOK
    /\ task \in [Gens -> [{0, 1} -> TaskState]]
    /\ avail_idx \in [{0, 1} -> Idx] /\ used_idx \in [{0, 1} -> Idx]
    /\ mtimecmp \in 0..Never /\ timers \subseteq 0..Never

=============================================================================
