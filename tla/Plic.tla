-------------------------------- MODULE Plic --------------------------------
(***************************************************************************)
(* The platform interrupt controller (src/lib/io/src/hw/intc/plic.rs): the *)
(* registers, under the mutex that makes each access one step, the pins of *)
(* the devices and the external-interrupt pins of the harts it drives.     *)
(* held is the guest's side: the interrupt each hart is servicing.         *)
(***************************************************************************)
EXTENDS Naturals, FiniteSets

CONSTANTS Irqs,    \* interrupt sources, positive numbers (1..31 in the code)
          Ctxs,    \* contexts, one a hart
          MaxPrio  \* largest priority (7 in the code)

ASSUME IrqsAssumption == Irqs \subseteq Nat \ {0} /\ MaxPrio \in Nat

VARIABLES plic,  \* PlicInner: [priority, pending, claimed, enable, threshold]
          prev,  \* PlicIrq.prev of each source
          pin,   \* the level of each hart's pin (CoreIrq)
          held   \* what each hart has claimed and not completed, 0 if nothing

plicVars == <<plic, prev, pin, held>>

Prio == 0..MaxPrio
NoIrq == 0

Registers == [priority : [Irqs -> Prio], pending : SUBSET Irqs,
              claimed : SUBSET Irqs, enable : [Ctxs -> SUBSET Irqs],
              threshold : [Ctxs -> Prio]]

PlicInit ==
    /\ plic = [priority |-> [i \in Irqs |-> 0], pending |-> {}, claimed |-> {},
               enable |-> [c \in Ctxs |-> {}], threshold |-> [c \in Ctxs |-> 0]]
    /\ prev = [i \in Irqs |-> FALSE]
    /\ pin = [c \in Ctxs |-> FALSE]
    /\ held = [c \in Ctxs |-> NoIrq]

\* Mutant: an interrupt in service can be claimed again.
claimable_again(p, c) == p.pending \cap p.enable[c]

claimable(p, c) == (p.pending \ p.claimed) \cap p.enable[c]

pending(p, c) == \E i \in claimable(p, c) : p.priority[i] > p.threshold[c]

recompute_pending(p) ==
    /\ plic' = p
    /\ pin' = [c \in Ctxs |-> pending(p, c)]

trigger(i) == recompute_pending([plic EXCEPT !.pending = @ \cup {i}])

\* Mutant: an edge is dropped while the interrupt is in service.
set_level_idle(i, level) ==
    /\ prev' = [prev EXCEPT ![i] = level]
    /\ IF level /\ ~prev[i] /\ i \notin plic.claimed
       THEN trigger(i) ELSE UNCHANGED <<plic, pin>>

\* PlicIrq::set_level: only a rising edge reaches the controller.
set_level(i, level) ==
    /\ prev' = [prev EXCEPT ![i] = level]
    /\ IF level /\ ~prev[i] THEN trigger(i) ELSE UNCHANGED <<plic, pin>>

\* The interrupt claim() takes: the first of those of the highest priority,
\* whatever the threshold; none whose priority is 0.
Best(c) ==
    LET S == {i \in claimable(plic, c) : plic.priority[i] > 0}
        T == {i \in S : \A j \in S : plic.priority[j] <= plic.priority[i]}
    IN IF S = {} THEN NoIrq ELSE CHOOSE i \in T : \A j \in T : i <= j

claim(c) ==
    /\ IF Best(c) # NoIrq
       THEN recompute_pending([plic EXCEPT !.pending = @ \ {Best(c)},
                                           !.claimed = @ \cup {Best(c)}])
       ELSE UNCHANGED <<plic, pin>>
    /\ held' = [held EXCEPT ![c] = Best(c)]

\* A hart reads the claim register, on an interrupt or without one.
Claim(c) == held[c] = NoIrq /\ claim(c) /\ UNCHANGED prev

\* Mutant: completion does not look for what became claimable.
complete_quietly(c) ==
    /\ plic' = [plic EXCEPT !.claimed = @ \ {held[c]}]
    /\ UNCHANGED pin

\* The write to the claim register, with the recomputation that ends write().
complete(c) == recompute_pending([plic EXCEPT !.claimed = @ \ {held[c]}])

Complete(c) == /\ held[c] # NoIrq
               /\ complete(c)
               /\ held' = [held EXCEPT ![c] = NoIrq]
               /\ UNCHANGED prev

WritePriority(i, v) == /\ recompute_pending([plic EXCEPT !.priority[i] = v])
                       /\ UNCHANGED <<prev, held>>

WriteEnable(c, S) == /\ recompute_pending([plic EXCEPT !.enable[c] = S])
                     /\ UNCHANGED <<prev, held>>

WriteThreshold(c, v) == /\ recompute_pending([plic EXCEPT !.threshold[c] = v])
                        /\ UNCHANGED <<prev, held>>

\* A device pulses its pin: the halves of pulse() are separate steps.
Source(i) == set_level(i, ~prev[i]) /\ UNCHANGED held

PlicNext ==
    \/ \E i \in Irqs : Source(i)
    \/ \E c \in Ctxs : Claim(c) \/ Complete(c)
    \/ \E i \in Irqs, v \in Prio : WritePriority(i, v)
    \/ \E c \in Ctxs, S \in SUBSET Irqs : WriteEnable(c, S)
    \/ \E c \in Ctxs, v \in Prio : WriteThreshold(c, v)

PlicSpec == PlicInit /\ [][PlicNext]_plicVars

-----------------------------------------------------------------------------
(***************************************************************************)
(* Properties                                                              *)
(***************************************************************************)

PlicTypeOK ==
    /\ plic \in Registers
    /\ prev \in [Irqs -> BOOLEAN] /\ pin \in [Ctxs -> BOOLEAN]
    /\ held \in [Ctxs -> Irqs \cup {NoIrq}]

\* No two harts service the same interrupt at once, however the sources pulse
\* and the registers are rewritten between claim and completion (claim).
ServicedOnce == \A c, d \in Ctxs : held[c] = held[d] /\ c # d => held[c] = NoIrq

\* The level a hart sees is never out of date: after any access or edge its pin
\* is high exactly if it has something to claim (recompute_pending).
PinsRight == \A c \in Ctxs : pin[c] <=> pending(plic, c)

=============================================================================
