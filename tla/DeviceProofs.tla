---------------------------- MODULE DeviceProofs -----------------------------
(***************************************************************************)
(* The promises of the interrupt controller and of the virtio devices      *)
(* wired to it, for any sets of interrupts and harts, any ring size and    *)
(* any number of resets; and the safety of the event loop that runs the    *)
(* tasks of the devices, for any number of tasks and callers, any times,   *)
(* and any sequence of shutdowns and mode switches.                        *)
(***************************************************************************)
EXTENDS Virtio, EventLoop, WellFoundedInduction, TLAPS

-----------------------------------------------------------------------------
(* The interrupt controller.  ServicedOnce is not inductive: what keeps an  *)
(* interrupt from being claimed twice is that the claimed register has      *)
(* every interrupt that a hart is servicing.                                *)

HeldIsClaimed == \A c \in Ctxs : held[c] # NoIrq => held[c] \in plic.claimed

PlicInv == PlicTypeOK /\ HeldIsClaimed /\ ServicedOnce /\ PinsRight

-----------------------------------------------------------------------------
\* A set of natural numbers that is not empty has a least element.
LEMMA Least == ASSUME NEW T, T \subseteq Nat, T # {}
               PROVE  \E x \in T : \A y \in T : x <= y
<1>1. IsWellFoundedOn(OpToRel(<, Nat), Nat)
  BY NatLessThanWellFounded, Zenon
<1>2. PICK x \in T : \A y \in T : ~(<<y, x>> \in OpToRel(<, Nat))
  BY <1>1, WFMin, Zenon
<1>3. ASSUME NEW y \in T PROVE x <= y
  <2>1. x \in Nat /\ y \in Nat
    BY Zenon
  <2>2. y < x => <<y, x>> \in OpToRel(<, Nat)
    BY <2>1, Zenon DEF OpToRel
  <2>3. ~(y < x)
    BY <1>2, <2>2, Zenon
  <2> QED BY <2>1, <2>3
<1> QED BY <1>3, Zenon

\* claim takes an interrupt that is claimable, or none: a best one exists.
LEMMA BestIsClaimable ==
    ASSUME PlicTypeOK, NEW c \in Ctxs
    PROVE  Best(c) \in claimable(plic, c) \cup {NoIrq}
<1> DEFINE S == {i \in claimable(plic, c) : plic.priority[i] > 0}
           T == {i \in S : \A j \in S : plic.priority[j] <= plic.priority[i]}
           D == {MaxPrio - plic.priority[i] : i \in S}
<1>1. S \subseteq Irqs /\ \A i \in S : plic.priority[i] \in 0..MaxPrio
  BY Zenon DEF claimable, PlicTypeOK, Registers, Prio
<1>2. CASE S = {}
  BY <1>2, Zenon DEF Best
<1>3. CASE S # {}
  <2>1. D \subseteq Nat /\ D # {}
    BY <1>1, <1>3, IrqsAssumption
  <2>2. PICK d \in D : \A y \in D : d <= y
    BY <2>1, Least, Zenon
  <2>3. PICK i \in S : d = MaxPrio - plic.priority[i]
    BY <2>2, Zenon
  <2>4. ASSUME NEW j \in S PROVE plic.priority[j] <= plic.priority[i]
    <3>1. MaxPrio - plic.priority[i] <= MaxPrio - plic.priority[j]
      BY <2>2, <2>3, Zenon
    <3> QED BY <1>1, <3>1, IrqsAssumption
  <2>5. T # {} /\ T \subseteq Nat
    BY <1>1, <2>3, <2>4, IrqsAssumption, Zenon
  <2>6. \E k \in T : \A j \in T : k <= j
    BY <2>5, Least, Zenon
  <2>7. Best(c) \in T
    BY <1>3, <2>6, Zenon DEF Best
  <2> QED BY <2>7, Zenon
<1> QED BY <1>2, <1>3, Zenon

-----------------------------------------------------------------------------
LEMMA PlicInitInv == PlicInit => PlicInv
<1> SUFFICES ASSUME PlicInit PROVE PlicInv
  BY Zenon
<1> USE IrqsAssumption DEF PlicInit
<1>1. PlicTypeOK
  BY DEF PlicTypeOK, Registers, Prio
<1>2. HeldIsClaimed
  BY Zenon DEF HeldIsClaimed
<1>3. ServicedOnce
  BY Zenon DEF ServicedOnce
<1>4. PinsRight
  BY Zenon DEF PinsRight, pending, claimable
<1> QED BY <1>1, <1>2, <1>3, <1>4, Zenon DEF PlicInv

\* What recompute_pending leaves: the pins of the registers it is given.
LEMMA Recomputed ==
    ASSUME NEW p \in Registers, recompute_pending(p)
    PROVE  plic' \in Registers /\ pin' \in [Ctxs -> BOOLEAN] /\ PinsRight'
<1>1. plic' = p /\ pin' = [c \in Ctxs |-> pending(p, c)]
  BY Zenon DEF recompute_pending
<1>2. \A c \in Ctxs : pending(p, c) \in BOOLEAN
  BY Zenon DEF pending
<1>3. \A c \in Ctxs : pin'[c] = pending(plic', c)
  BY <1>1, Zenon
<1> QED BY <1>1, <1>2, <1>3, Zenon DEF PinsRight

\* A recomputation that leaves the claimed register alone.
LEMMA Rewritten ==
    ASSUME PlicInv, NEW p \in Registers, p.claimed = plic.claimed, recompute_pending(p),
           prev' \in [Irqs -> BOOLEAN], held' = held
    PROVE  PlicInv'
<1>1. plic' = p
  BY Zenon DEF recompute_pending
<1>2. plic' \in Registers /\ pin' \in [Ctxs -> BOOLEAN] /\ PinsRight'
  BY Recomputed, Zenon
<1>3. HeldIsClaimed' /\ ServicedOnce'
  BY <1>1, Zenon DEF PlicInv, HeldIsClaimed, ServicedOnce
<1> QED BY <1>2, <1>3, Zenon DEF PlicInv, PlicTypeOK

\* trigger leaves the claimed register alone.
LEMMA Triggered ==
    ASSUME PlicInv, NEW i \in Irqs, trigger(i), prev' \in [Irqs -> BOOLEAN], held' = held
    PROVE  PlicInv' /\ plic'.pending = plic.pending \cup {i}
<1> DEFINE p == [plic EXCEPT !.pending = @ \cup {i}]
<1>1. p \in Registers /\ p.claimed = plic.claimed /\ p.pending = plic.pending \cup {i}
  BY Zenon DEF PlicInv, PlicTypeOK, Registers
<1>2. recompute_pending(p) /\ plic' = p
  BY Zenon DEF trigger, recompute_pending
<1> HIDE DEF p
<1> QED BY <1>1, <1>2, Rewritten, Zenon

LEMMA PlicStepInv == PlicInv /\ [PlicNext]_plicVars => PlicInv'
<1> SUFFICES ASSUME PlicInv, [PlicNext]_plicVars PROVE PlicInv'
  BY Zenon
<1> USE DEF PlicInv
<1>1. ASSUME NEW i \in Irqs, Source(i) PROVE PlicInv'
  <2>1. prev' = [prev EXCEPT ![i] = ~prev[i]] /\ held' = held
    BY <1>1, Zenon DEF Source, set_level
  <2>2. prev' \in [Irqs -> BOOLEAN] /\ held' \in [Ctxs -> Irqs \cup {NoIrq}]
    BY <2>1, Zenon DEF PlicTypeOK
  <2>3. CASE trigger(i)
    BY <2>1, <2>2, <2>3, Triggered, Zenon
  <2>4. CASE UNCHANGED <<plic, pin>>
    <3>1. HeldIsClaimed' /\ ServicedOnce' /\ PinsRight'
      BY <2>1, <2>4, Zenon DEF HeldIsClaimed, ServicedOnce, PinsRight
    <3> QED BY <2>2, <2>4, <3>1, Zenon DEF PlicTypeOK
  <2> QED BY <1>1, <2>3, <2>4, Zenon DEF Source, set_level
<1>2. ASSUME NEW c \in Ctxs, Claim(c) PROVE PlicInv'
  <2> DEFINE b == Best(c)
             p == [plic EXCEPT !.pending = @ \ {b}, !.claimed = @ \cup {b}]
  <2>1. held' = [held EXCEPT ![c] = b] /\ held[c] = NoIrq /\ prev' = prev
    BY <1>2, Zenon DEF Claim, claim
  <2>2. b \in claimable(plic, c) \cup {NoIrq}
    BY BestIsClaimable, Zenon
  <2>3. CASE b = NoIrq
    <3>1. UNCHANGED <<plic, pin>> /\ held' = held
      BY <1>2, <2>1, <2>3, Zenon DEF Claim, claim, PlicTypeOK
    <3> QED BY <2>1, <3>1, Zenon DEF PlicTypeOK, HeldIsClaimed, ServicedOnce, PinsRight
  <2>4. CASE b # NoIrq
    <3>1. b \in Irqs /\ b \notin plic.claimed
      BY <2>2, <2>4, Zenon DEF claimable, PlicTypeOK, Registers
    <3>2. p \in Registers /\ p.claimed = plic.claimed \cup {b}
      BY <3>1, Zenon DEF PlicTypeOK, Registers
    <3>3. recompute_pending(p)
      BY <1>2, <2>4, Zenon DEF Claim, claim
    <3>4. plic' = p
      BY <3>3, Zenon DEF recompute_pending
    <3>5. plic' \in Registers /\ pin' \in [Ctxs -> BOOLEAN] /\ PinsRight'
      BY <3>2, <3>3, Recomputed, Zenon
    <3>6. held' \in [Ctxs -> Irqs \cup {NoIrq}]
      BY <2>1, <3>1, Zenon DEF PlicTypeOK
    <3>7. \A d \in Ctxs : held'[d] = IF d = c THEN b ELSE held[d]
      BY <2>1, Zenon DEF PlicTypeOK
    <3>8. HeldIsClaimed'
      BY <3>2, <3>4, <3>7, Zenon DEF HeldIsClaimed
    <3>9. \A d \in Ctxs : held[d] # b
      BY <2>4, <3>1, Zenon DEF HeldIsClaimed
    <3>10. ServicedOnce'
      BY <3>7, <3>9, Zenon DEF ServicedOnce
    <3> QED BY <2>1, <3>5, <3>6, <3>8, <3>10, Zenon DEF PlicTypeOK
  <2> QED BY <2>3, <2>4, Zenon
<1>3. ASSUME NEW c \in Ctxs, Complete(c) PROVE PlicInv'
  <2> DEFINE p == [plic EXCEPT !.claimed = @ \ {held[c]}]
  <2>1. held' = [held EXCEPT ![c] = NoIrq] /\ held[c] # NoIrq /\ prev' = prev
    BY <1>3, Zenon DEF Complete
  <2>2. p \in Registers /\ p.claimed = plic.claimed \ {held[c]}
    BY Zenon DEF PlicTypeOK, Registers
  <2>3. recompute_pending(p)
    BY <1>3, Zenon DEF Complete, complete
  <2>4. plic' = p
    BY <2>3, Zenon DEF recompute_pending
  <2>5. plic' \in Registers /\ pin' \in [Ctxs -> BOOLEAN] /\ PinsRight'
    BY <2>2, <2>3, Recomputed, Zenon
  <2>6. held' \in [Ctxs -> Irqs \cup {NoIrq}]
    BY <2>1, Zenon DEF PlicTypeOK
  <2>7. \A d \in Ctxs : held'[d] = IF d = c THEN NoIrq ELSE held[d]
    BY <2>1, Zenon DEF PlicTypeOK
  <2>8. \A d \in Ctxs : d # c /\ held[d] # NoIrq => held[d] # held[c]
    BY Zenon DEF ServicedOnce
  <2>9. HeldIsClaimed'
    BY <2>2, <2>4, <2>7, <2>8, Zenon DEF HeldIsClaimed
  <2>10. ServicedOnce'
    BY <2>7, Zenon DEF ServicedOnce
  <2> QED BY <2>1, <2>5, <2>6, <2>9, <2>10, Zenon DEF PlicTypeOK
<1>5. ASSUME NEW i \in Irqs, NEW v \in Prio, WritePriority(i, v) PROVE PlicInv'
  <2> DEFINE p == [plic EXCEPT !.priority[i] = v]
  <2>1. p \in Registers /\ p.claimed = plic.claimed
    BY Zenon DEF PlicTypeOK, Registers
  <2> QED BY <1>5, <2>1, Rewritten, Zenon DEF PlicTypeOK, WritePriority
<1>6. ASSUME NEW c \in Ctxs, NEW S \in SUBSET Irqs, WriteEnable(c, S) PROVE PlicInv'
  <2> DEFINE p == [plic EXCEPT !.enable[c] = S]
  <2>1. p \in Registers /\ p.claimed = plic.claimed
    BY Zenon DEF PlicTypeOK, Registers
  <2> QED BY <1>6, <2>1, Rewritten, Zenon DEF PlicTypeOK, WriteEnable
<1>7. ASSUME NEW c \in Ctxs, NEW v \in Prio, WriteThreshold(c, v) PROVE PlicInv'
  <2> DEFINE p == [plic EXCEPT !.threshold[c] = v]
  <2>1. p \in Registers /\ p.claimed = plic.claimed
    BY Zenon DEF PlicTypeOK, Registers
  <2> QED BY <1>7, <2>1, Rewritten, Zenon DEF PlicTypeOK, WriteThreshold
<1>8. CASE UNCHANGED plicVars
  BY <1>8, Zenon DEF plicVars, PlicTypeOK, HeldIsClaimed, ServicedOnce, PinsRight
<1> QED BY <1>1, <1>2, <1>3, <1>5, <1>6, <1>7, <1>8, Zenon DEF PlicNext

LEMMA PlicInvariance == PlicSpec => []PlicInv
BY PlicInitInv, PlicStepInv, PTL DEF PlicSpec

\* No interrupt is in service on two harts at once, however the registers are
\* rewritten between claim and completion, for any interrupts and contexts.
THEOREM PlicServesOnce == PlicSpec => []ServicedOnce
<1>1. PlicInv => ServicedOnce
  BY Zenon DEF PlicInv
<1> QED BY <1>1, PlicInvariance, PTL

\* The pin of a hart is high exactly while it has something to claim above its
\* threshold, after every access and every edge.
THEOREM PlicPinsRight == PlicSpec => []PinsRight
<1>1. PlicInv => PinsRight
  BY Zenon DEF PlicInv
<1> QED BY <1>1, PlicInvariance, PTL

-----------------------------------------------------------------------------
(* The virtio device.  RingsAgree rests on the place of the buffer a task   *)
(* holds, and on the queues before and after the one in use, which no task  *)
(* changes; NoLostNotify on the order in which the driver makes the queues  *)
(* ready, which leaves the awaiting one selected; Announced on the handler: *)
(* only one hart is in it, and what it has read of the status stands for a  *)
(* configuration that has not changed since.                                *)

Cell == [ready : BOOLEAN, avail : Idx, used : Idx, waker : BOOLEAN]
IsrState == {"idle", "status", "ack", "work", "end"}
Pair == 0..1

VirtioTypeOK ==
    /\ kind \in {"blk", "net", "con"} /\ gen \in Gens /\ sel \in Queues
    /\ q \in [Gens -> [Pair -> Cell]] /\ task \in [Gens -> [Pair -> TaskState]]
    /\ avail_idx \in [Pair -> Idx] /\ used_idx \in [Pair -> Idx] /\ seen \in [Pair -> Idx]

HandlerTypeOK ==
    /\ isr \in [Ctxs -> IsrState] /\ slip \in BOOLEAN
    /\ size \in [host : Pair, sig : BOOLEAN, heard : BOOLEAN, config : Pair,
                 changed : BOOLEAN, guest : Pair, st : BOOLEAN]

\* A queue of the device as it is now.
QueueRight(i) ==
    LET r == q[gen][i]  t == task[gen][i] IN
      /\ ~r.ready => r = New /\ t = "none"
      /\ r.ready => /\ i \in Queues /\ used_idx[i] = r.used
                    /\ r.avail = IF t = "have" THEN (r.used + 1) % Wrap ELSE r.used
      /\ t = "wait" => /\ i \in Awaiting /\ r.waker
                       /\ r.avail # avail_idx[i] => i \in unnotified

\* A queue the device no longer has is not ready; one it has yet to have is new.
Generations ==
    \A g \in Gens, i \in Pair :
      /\ g < gen => ~q[g][i].ready
      /\ g > gen => q[g][i] = New /\ task[g][i] = "none"

Selected == \A i \in Awaiting : q[gen][i].ready => sel = i /\ AllReady

RingInv == VirtioTypeOK /\ Generations /\ Selected /\ \A i \in Pair : QueueRight(i)

\* A hart in the handler has claimed the interrupt; what it has read of the
\* status is kept until it has looked at the configuration.
Handler ==
    /\ \A c \in Ctxs : isr[c] \in {"status", "ack", "work"} => held[c] = Irq
    /\ \A c \in Ctxs : isr[c] = "status" => kind = "con"
    /\ size.st => \E c \in Ctxs : isr[c] \in {"ack", "work"}
    /\ kind # "con" => ~size.sig /\ ~size.st /\ size.host = size.guest

\* A change that the handler has not read is in the status, and the interrupt
\* that makes it look is pending or has been claimed only just now.
SizeKnown ==
    ~size.sig /\ ~slip =>
      /\ size.config = size.host
      /\ size.host # size.guest =>
           size.st \/ (size.changed /\ (Irq \in plic.pending
                                        \/ \E c \in Ctxs : isr[c] = "status"))

VirtioInv == /\ RingInv /\ PlicInv /\ HandlerTypeOK /\ Handler
             /\ UsedAnnounced /\ SizeKnown

LEMMA Indices ==
  /\ Wrap \in Nat /\ Wrap > 1 /\ 0 \in Idx
  /\ \A a \in Idx : (a + 1) % Wrap \in Idx
BY RingAssumption DEF Idx

\* Between an index and the next one there is one place, also where they wrap.
LEMMA Distance ==
  ASSUME NEW a \in Idx
  PROVE  (a - a + Wrap) % Wrap = 0 /\ ((((a + 1) % Wrap) - a) + Wrap) % Wrap = 1
<1> USE Indices DEF Idx
<1>1. CASE a + 1 < Wrap
  <2>1. (a + 1) % Wrap = a + 1
    BY <1>1
  <2> QED BY <2>1
<1>2. CASE a + 1 = Wrap
  <2>1. (a + 1) % Wrap = 0
    BY <1>2
  <2> QED BY <1>2, <2>1
<1> QED BY <1>1, <1>2

\* The queue i of generation g becomes r, its task s, and no other.
Cells(g, i, r) == /\ q' \in [Gens -> [Pair -> Cell]] /\ q'[g][i] = r
                  /\ \A h \in Gens, j \in Pair : h # g \/ j # i => q'[h][j] = q[h][j]
Moves(g, i, s) == /\ task' \in [Gens -> [Pair -> TaskState]] /\ task'[g][i] = s
                  /\ \A h \in Gens, j \in Pair : h # g \/ j # i => task'[h][j] = task[h][j]

LEMMA CellSet ==
  ASSUME VirtioTypeOK, NEW g \in Gens, NEW i \in Pair, NEW r \in Cell,
         q' = [q EXCEPT ![g][i] = r]
  PROVE  Cells(g, i, r)
<1>1. q \in [Gens -> [Pair -> Cell]]
  BY Zenon DEF VirtioTypeOK
<1> QED BY <1>1, Zenon DEF Cells

LEMMA CellKept ==
  ASSUME VirtioTypeOK, NEW g \in Gens, NEW i \in Pair, q' = q
  PROVE  Cells(g, i, q[g][i])
BY Zenon DEF VirtioTypeOK, Cells

LEMMA TaskGoes ==
  ASSUME VirtioTypeOK, NEW g \in Gens, NEW i \in Pair, NEW s \in TaskState, Goto(g, i, s)
  PROVE  Moves(g, i, s)
<1>1. task \in [Gens -> [Pair -> TaskState]]
  BY Zenon DEF VirtioTypeOK
<1> QED BY <1>1, Zenon DEF Moves, Goto

\* The queues a driver uses are among the two a device can have.
LEMMA QueuesPair == Queues \subseteq Pair /\ Awaiting \subseteq Queues
BY DEF Queues, Awaiting, Pair

\* A task that runs belongs to a queue in use, or to one reset since.
LEMMA TaskOf ==
  ASSUME RingInv, NEW g \in Gens, NEW i \in Pair, task[g][i] # "none"
  PROVE  g <= gen /\ (g = gen <=> q[g][i].ready)
<1>1. g \in Nat /\ gen \in Nat
  BY RingAssumption DEF RingInv, VirtioTypeOK, Gens
<1>2. CASE g = gen
  BY <1>1, <1>2 DEF RingInv, QueueRight
<1>3. CASE g # gen
  BY <1>1, <1>3 DEF RingInv, Generations
<1> QED BY <1>2, <1>3, Zenon

\* A step of one task, which may change its own queue.
LEMMA TaskStep ==
  ASSUME RingInv, NEW g \in Gens, NEW i \in Pair, NEW r \in Cell, NEW s \in TaskState,
         task[g][i] # "none", s # "none", Cells(g, i, r), Moves(g, i, s),
         UNCHANGED <<kind, gen, sel, avail_idx, unnotified>>, seen' \in [Pair -> Idx],
         r.ready = q[g][i].ready, used_idx' \in [Pair -> Idx],
         \A j \in Pair : used_idx'[j] = IF j = i /\ r.ready THEN r.used ELSE used_idx[j],
         r.ready => r.avail = IF s = "have" THEN (r.used + 1) % Wrap ELSE r.used,
         r.ready /\ s = "wait" => /\ i \in Awaiting /\ r.waker
                                  /\ r.avail # avail_idx[i] => i \in unnotified
  PROVE  RingInv'
<1>1. VirtioTypeOK'
  BY Zenon DEF RingInv, VirtioTypeOK, Cells, Moves, Queues
<1>2. g <= gen /\ (g = gen <=> r.ready) /\ g \in Nat /\ gen \in Nat /\ gen \in Gens
  BY TaskOf, RingAssumption DEF RingInv, VirtioTypeOK, Gens
<1>3. \A h \in Gens, j \in Pair : q'[h][j].ready = q[h][j].ready
  BY Zenon DEF Cells
<1>4. Generations'
  <2> SUFFICES ASSUME NEW h \in Gens, NEW j \in Pair
               PROVE  /\ h < gen => ~q'[h][j].ready
                      /\ h > gen => q'[h][j] = New /\ task'[h][j] = "none"
    BY Zenon DEF Generations
  <2>1. h < gen => ~q'[h][j].ready
    BY <1>3, SMTT(20) DEF RingInv, Generations
  <2>2. h > gen => h # g
    BY <1>2, RingAssumption DEF Gens
  <2> QED BY <2>1, <2>2 DEF RingInv, Generations, Cells, Moves
<1>5. Selected'
  BY <1>2, <1>3, QueuesPair DEF RingInv, Selected, AllReady, Queues, Awaiting
<1>6. ASSUME NEW j \in Pair, g # gen \/ j # i PROVE QueueRight(j)'
  <2>1. q'[gen][j] = q[gen][j] /\ task'[gen][j] = task[gen][j] /\ used_idx'[j] = used_idx[j]
    BY <1>2, <1>6, Zenon DEF Cells, Moves
  <2> QED BY <2>1 DEF RingInv, QueueRight, Queues, Awaiting
<1>7. g = gen => QueueRight(i)'
  <2> SUFFICES ASSUME g = gen PROVE QueueRight(i)'
    BY Zenon
  <2>1. q'[gen][i] = r /\ task'[gen][i] = s /\ r.ready /\ used_idx'[i] = r.used
    BY <1>2, Zenon DEF Cells, Moves
  <2>2. i \in Queues'
    BY <1>2, Zenon DEF RingInv, QueueRight, Queues
  <2> QED BY <2>1, <2>2, Zenon DEF QueueRight, Awaiting
<1> QED BY <1>1, <1>4, <1>5, <1>6, <1>7, Zenon DEF RingInv

\* The steps that leave the queues and the tasks alone.
LEMMA RingKept ==
  ASSUME RingInv, UNCHANGED <<kind, gen, sel, q, avail_idx, used_idx, unnotified, task>>,
         seen' \in [Pair -> Idx]
  PROVE  RingInv'
<1>1. VirtioTypeOK' /\ Generations' /\ Selected'
  BY Zenon DEF RingInv, VirtioTypeOK, Generations, Selected, AllReady, Queues, Awaiting
<1>2. \A i \in Pair : QueueRight(i)'
  BY Zenon DEF RingInv, QueueRight, Queues, Awaiting
<1> QED BY <1>1, <1>2, Zenon DEF RingInv

\* A task goes on without touching its queue.
LEMMA TaskOnly ==
  ASSUME RingInv, NEW g \in Gens, NEW i \in Pair, NEW s \in TaskState \ {"none", "have", "wait"},
         task[g][i] \notin {"none", "have"}, Goto(g, i, s),
         UNCHANGED <<kind, gen, sel, q, avail_idx, used_idx, seen, unnotified>>
  PROVE  RingInv'
<1>1. VirtioTypeOK /\ q[g][i] \in Cell
  BY Zenon DEF RingInv, VirtioTypeOK
<1>2. Cells(g, i, q[g][i]) /\ Moves(g, i, s)
  BY <1>1, CellKept, TaskGoes, Zenon
<1>3. q[g][i].ready => used_idx[i] = q[g][i].used /\ q[g][i].avail = q[g][i].used
  BY TaskOf, Zenon DEF RingInv, QueueRight
<1>4. seen' \in [Pair -> Idx] /\ used_idx' \in [Pair -> Idx]
  BY <1>1, Zenon DEF VirtioTypeOK
<1> QED BY <1>1, <1>2, <1>3, <1>4, TaskStep, Zenon

LEMMA TakeRing ==
  ASSUME RingInv, NEW g \in Gens, NEW i \in Pair, task[g][i] = "run", q[g][i].ready,
         Take(g, i), UNCHANGED <<kind, gen, sel, avail_idx, used_idx, seen, unnotified>>
  PROVE  RingInv'
<1> DEFINE r == [q[g][i] EXCEPT !.avail = (@ + 1) % Wrap]
<1>1. VirtioTypeOK /\ q[g][i] \in Cell
  BY Zenon DEF RingInv, VirtioTypeOK
<1>2. r \in Cell /\ r.ready /\ r.used = q[g][i].used /\ r.avail = (q[g][i].avail + 1) % Wrap
  BY <1>1, Indices, Zenon DEF Cell
<1>3. q' = [q EXCEPT ![g][i] = r]
  BY Zenon DEF Take
<1> HIDE DEF r
<1>4. Cells(g, i, r) /\ Moves(g, i, "have")
  BY <1>1, <1>2, <1>3, CellSet, TaskGoes, Zenon DEF Take, TaskState
<1>5. q[g][i].avail = q[g][i].used /\ used_idx[i] = q[g][i].used
  BY TaskOf, Zenon DEF RingInv, QueueRight
<1>6. seen' \in [Pair -> Idx] /\ used_idx' \in [Pair -> Idx]
  BY <1>1, Zenon DEF VirtioTypeOK
<1>7. "have" \in TaskState
  BY Zenon DEF TaskState
<1> QED BY <1>2, <1>4, <1>5, <1>6, <1>7, TaskStep, Zenon

LEMMA PendRing ==
  ASSUME RingInv, NEW g \in Gens, NEW i \in Pair, i \in Awaiting, task[g][i] = "run", q[g][i].ready,
         q[g][i].avail = avail_idx[i], pend(g, i), Goto(g, i, "wait"),
         UNCHANGED <<kind, gen, sel, avail_idx, used_idx, seen, unnotified>>
  PROVE  RingInv'
<1> DEFINE r == [q[g][i] EXCEPT !.waker = TRUE]
<1>1. VirtioTypeOK /\ q[g][i] \in Cell
  BY Zenon DEF RingInv, VirtioTypeOK
<1>2. /\ r \in Cell /\ r.ready /\ r.used = q[g][i].used /\ r.avail = q[g][i].avail
      /\ r.waker
  BY <1>1, Zenon DEF Cell
<1>3. q' = [q EXCEPT ![g][i] = r]
  BY Zenon DEF pend
<1> HIDE DEF r
<1>4. Cells(g, i, r) /\ Moves(g, i, "wait")
  BY <1>1, <1>2, <1>3, CellSet, TaskGoes, Zenon DEF TaskState
<1>5. q[g][i].avail = q[g][i].used /\ used_idx[i] = q[g][i].used
  BY TaskOf, Zenon DEF RingInv, QueueRight
<1>6. seen' \in [Pair -> Idx] /\ used_idx' \in [Pair -> Idx]
  BY <1>1, Zenon DEF VirtioTypeOK
<1>7. "wait" \in TaskState
  BY Zenon DEF TaskState
<1> QED BY <1>2, <1>4, <1>5, <1>6, <1>7, TaskStep, Zenon

\* A buffer is put back: in the queue in use, if it was taken from it.
LEMMA PutRing ==
  ASSUME RingInv, NEW g \in Gens, NEW i \in Pair, task[g][i] = "have", put(g, i),
         NEW s \in {"put", "run", "over"}, Goto(g, i, s),
         UNCHANGED <<kind, gen, sel, avail_idx, seen, unnotified>>
  PROVE  /\ RingInv'
         /\ \A j \in Pair : j # i \/ g # gen => used_idx'[j] = used_idx[j]
         /\ \A h \in Gens, j \in Pair : q'[h][j].ready = q[h][j].ready
<1>1. VirtioTypeOK /\ q[g][i] \in Cell
  BY Zenon DEF RingInv, VirtioTypeOK
<1>2. seen' \in [Pair -> Idx] /\ s \in TaskState \ {"none", "have", "wait"}
  BY <1>1, Zenon DEF VirtioTypeOK, TaskState
<1>3. Moves(g, i, s)
  BY <1>1, <1>2, TaskGoes, Zenon
<1>4. CASE q[g][i].ready
  <2> DEFINE r == [q[g][i] EXCEPT !.used = (@ + 1) % Wrap]
  <2>1. /\ r \in Cell /\ r.ready /\ r.used = (q[g][i].used + 1) % Wrap
        /\ r.avail = q[g][i].avail /\ r.ready = q[g][i].ready
    BY <1>1, <1>4, Indices, Zenon DEF Cell
  <2>2. q' = [q EXCEPT ![g][i] = r]
    BY <1>4, Zenon DEF put
  <2> HIDE DEF r
  <2>3. Cells(g, i, r)
    BY <1>1, <2>1, <2>2, CellSet, Zenon
  <2>4. used_idx' = [used_idx EXCEPT ![i] = r.used]
    BY <1>4, <2>3, Zenon DEF put, Cells
  <2>5. r.used \in Idx
    BY <2>1, Zenon DEF Cell
  <2>6. used_idx' \in [Pair -> Idx] /\ \A j \in Pair : used_idx'[j] = IF j = i THEN r.used ELSE used_idx[j]
    BY <1>1, <2>4, <2>5, Zenon DEF VirtioTypeOK
  <2>7. r.avail = r.used /\ g = gen
    BY <1>4, <2>1, TaskOf DEF RingInv, QueueRight
  <2>8. RingInv'
    BY <1>2, <1>3, <2>1, <2>3, <2>6, <2>7, TaskStep
  <2> QED BY <2>1, <2>3, <2>6, <2>7, <2>8, Zenon DEF Cells
<1>5. CASE ~q[g][i].ready
  <2>1. Cells(g, i, q[g][i]) /\ used_idx' = used_idx
    BY <1>1, <1>5, CellKept, Zenon DEF put
  <2>2. used_idx' \in [Pair -> Idx]
    BY <1>1, <2>1, Zenon DEF VirtioTypeOK
  <2>3. RingInv'
    BY <1>1, <1>2, <1>3, <1>5, <2>1, <2>2, TaskStep, Zenon
  <2> QED BY <2>1, <2>3, Zenon DEF Cells
<1> QED BY <1>4, <1>5, Zenon

\* The driver makes a queue ready, after those before it.
LEMMA SetReadyRing ==
  ASSUME RingInv, NEW i \in Queues, SetReady(i)
  PROVE  /\ RingInv' /\ used_idx'[i] = seen'[i]
         /\ \A j \in Pair : j # i => /\ q'[gen][j] = q[gen][j] /\ used_idx'[j] = used_idx[j]
                                     /\ seen'[j] = seen[j] /\ task'[gen][j] = task[gen][j]
<1> DEFINE r == [q[gen][i] EXCEPT !.ready = TRUE]
<1>1. VirtioTypeOK /\ i \in Pair /\ gen \in Gens /\ q[gen][i] \in Cell /\ gen \in Nat
  BY QueuesPair, RingAssumption DEF RingInv, VirtioTypeOK, Gens
<1>2. q[gen][i] = New
  BY <1>1, Zenon DEF RingInv, QueueRight, SetReady
<1>3. r \in Cell /\ r.ready /\ r.used = 0 /\ r.avail = 0
  <2>1. r \in Cell /\ r.ready /\ r.used = q[gen][i].used /\ r.avail = q[gen][i].avail
    BY <1>1, Zenon DEF Cell
  <2> QED BY <1>2, <2>1 DEF New
<1>4. q' = [q EXCEPT ![gen][i] = r]
  BY Zenon DEF SetReady
<1> HIDE DEF r
<1>5. Cells(gen, i, r) /\ Moves(gen, i, "run")
  BY <1>1, <1>3, <1>4, CellSet, TaskGoes, Zenon DEF SetReady, TaskState
<1>6. /\ avail_idx' \in [Pair -> Idx] /\ used_idx' \in [Pair -> Idx] /\ seen' \in [Pair -> Idx]
      /\ used_idx'[i] = 0 /\ seen'[i] = 0
      /\ \A j \in Pair : j # i => /\ avail_idx'[j] = avail_idx[j] /\ used_idx'[j] = used_idx[j]
                                  /\ seen'[j] = seen[j]
  BY <1>1, Indices, Zenon DEF SetReady, VirtioTypeOK
<1>7. VirtioTypeOK'
  BY <1>1, <1>5, <1>6, Zenon DEF VirtioTypeOK, Cells, Moves, SetReady, Queues
<1>8. gen' = gen /\ kind' = kind /\ sel' = i /\ unnotified' = unnotified
  BY Zenon DEF SetReady
<1>9. Generations'
  <2>1. SUFFICES ASSUME NEW g \in Gens, NEW j \in Pair
                 PROVE  /\ g < gen => ~q'[g][j].ready
                        /\ g > gen => q'[g][j] = New /\ task'[g][j] = "none"
    BY <1>8, Zenon DEF Generations
  <2>2. CASE g = gen
    BY <1>1, <2>2
  <2>3. CASE g # gen
    <3>1. q'[g][j] = q[g][j] /\ task'[g][j] = task[g][j]
      BY <1>5, <2>3, Zenon DEF Cells, Moves
    <3> QED BY <3>1, Zenon DEF RingInv, Generations
  <2> QED BY <2>2, <2>3, Zenon
<1>10. ASSUME NEW a \in Awaiting, q'[gen][a].ready PROVE i = a /\ AllReady'
  <2>1. i = a
    <3>1. a \in Pair /\ a \in Queues
      BY QueuesPair, Zenon
    <3>2. ASSUME i # a PROVE FALSE
      <4>1. q[gen][a].ready
        BY <1>1, <1>5, <1>10, <3>1, <3>2, Zenon DEF Cells
      <4>2. AllReady
        BY <4>1, Zenon DEF RingInv, Selected
      <4> QED BY <4>2, Zenon DEF AllReady, SetReady
    <3> QED BY <3>2, Zenon
  <2>2. \A j \in Queues : j # i => q[gen][j].ready
    BY <2>1 DEF SetReady, Awaiting, Queues
  <2>3. \A j \in Queues : q'[gen][j].ready
    BY <1>1, <1>3, <1>5, <2>2, QueuesPair, Zenon DEF Cells
  <2> QED BY <1>8, <2>1, <2>3, Zenon DEF AllReady, Queues
<1>11. Selected'
  BY <1>8, <1>10, Zenon DEF Selected, Awaiting
<1>12. ASSUME NEW j \in Pair, j # i PROVE QueueRight(j)'
  <2>1. /\ q'[gen][j] = q[gen][j] /\ task'[gen][j] = task[gen][j]
        /\ used_idx'[j] = used_idx[j] /\ avail_idx'[j] = avail_idx[j]
    BY <1>1, <1>5, <1>6, <1>12, Zenon DEF Cells, Moves
  <2> QED BY <1>8, <2>1, Zenon DEF RingInv, QueueRight, Queues, Awaiting
<1>13. QueueRight(i)'
  <2>1. /\ q'[gen][i] = r /\ task'[gen][i] = "run" /\ used_idx'[i] = 0
    BY <1>5, <1>6, Zenon DEF Cells, Moves
  <2> QED BY <1>3, <1>8, <2>1, Zenon DEF QueueRight, Queues, Awaiting
<1>14. RingInv'
  BY <1>7, <1>9, <1>11, <1>12, <1>13, Zenon DEF RingInv
<1> QED BY <1>1, <1>5, <1>6, <1>14, Zenon DEF Cells, Moves

\* A buffer is added, and the queue is yet to be notified.
LEMMA AddBufferRing ==
  ASSUME RingInv, NEW i \in Queues, AddBuffer(i)
  PROVE  RingInv'
<1>1. VirtioTypeOK /\ i \in Pair
  BY QueuesPair, Zenon DEF RingInv
<1>2. avail_idx' \in [Pair -> Idx] /\ \A j \in Pair : j # i => avail_idx'[j] = avail_idx[j]
  <2>1. (avail_idx[i] + 1) % Wrap \in Idx
    BY <1>1, Indices, Zenon DEF VirtioTypeOK
  <2> QED BY <1>1, <2>1, Zenon DEF AddBuffer, VirtioTypeOK
<1>3. VirtioTypeOK' /\ Generations' /\ Selected'
  BY <1>2 DEF RingInv, VirtioTypeOK, Generations, Selected, AllReady, Queues, Awaiting, AddBuffer
<1>4. \A j \in Pair : QueueRight(j)'
  BY <1>2, Zenon DEF RingInv, QueueRight, Queues, Awaiting, AddBuffer
<1> QED BY <1>3, <1>4, Zenon DEF RingInv

\* A notification wakes the selected queue, which is the awaiting one.
LEMMA NotifyRing ==
  ASSUME RingInv, NEW i \in Queues, Notify(i)
  PROVE  /\ RingInv'
         /\ \A j \in Pair : /\ q'[gen][j].ready = q[gen][j].ready
                            /\ task[gen][j] = "put" => task'[gen][j] = "put"
<1> DEFINE r == [q[gen][sel] EXCEPT !.waker = FALSE]
           s == IF q[gen][sel].waker /\ task[gen][sel] = "wait" THEN "run" ELSE task[gen][sel]
<1>1. /\ VirtioTypeOK /\ gen \in Gens /\ sel \in Queues /\ sel \in Pair
      /\ q[gen][sel] \in Cell /\ task[gen][sel] \in TaskState
  BY QueuesPair, Zenon DEF RingInv, VirtioTypeOK
<1>2. /\ r \in Cell /\ r.ready = q[gen][sel].ready /\ r.used = q[gen][sel].used
      /\ r.avail = q[gen][sel].avail
  BY <1>1, Zenon DEF Cell
<1>3. q' = [q EXCEPT ![gen][sel] = r]
  BY Zenon DEF Notify, Wake
<1>4. s \in TaskState
  BY <1>1, Zenon DEF TaskState
<1>5. Moves(gen, sel, s)
  <2>1. CASE q[gen][sel].waker /\ task[gen][sel] = "wait"
    <3>1. Goto(gen, sel, "run")
      BY <2>1, Zenon DEF Notify, Wake, Goto
    <3> QED BY <1>1, <1>4, <2>1, <3>1, TaskGoes, Zenon
  <2>2. CASE ~(q[gen][sel].waker /\ task[gen][sel] = "wait")
    BY <1>1, <2>2, Zenon DEF Notify, Wake, Moves, VirtioTypeOK
  <2> QED BY <2>1, <2>2, Zenon
<1>6. q[gen][sel].ready /\ QueueRight(sel)
  BY <1>1, Zenon DEF RingInv, Notify, AllReady
<1>7. s # "wait" /\ (s = "have" <=> task[gen][sel] = "have") /\ (task[gen][sel] = "put" => s = "put")
  <2>1. task[gen][sel] = "wait" => q[gen][sel].waker
    BY <1>6, Zenon DEF QueueRight
  <2> QED BY <2>1, Zenon
<1> HIDE DEF r, s
<1>8. Cells(gen, sel, r)
  BY <1>1, <1>2, <1>3, CellSet, Zenon
<1>9. gen' = gen /\ kind' = kind /\ sel' = sel /\ avail_idx' = avail_idx /\ used_idx' = used_idx
      /\ seen' = seen
  BY Zenon DEF Notify
<1>10. VirtioTypeOK'
  BY <1>1, <1>5, <1>8, <1>9, Zenon DEF VirtioTypeOK, Cells, Moves, Queues
<1>11. \A h \in Gens, j \in Pair : q'[h][j].ready = q[h][j].ready
  BY <1>2, <1>8, Zenon DEF Cells
<1>12. gen \in Nat /\ \A h \in Gens : h > gen => h # gen
  BY <1>1, RingAssumption DEF Gens
<1>13. Generations'
  BY <1>5, <1>8, <1>9, <1>11, <1>12 DEF RingInv, Generations, Cells, Moves
<1>14. Selected'
  BY <1>1, <1>9, <1>11, QueuesPair, Zenon DEF RingInv, Selected, AllReady, Queues, Awaiting
<1>15. ASSUME NEW j \in Pair, j = sel PROVE QueueRight(j)'
  <2>1. q'[gen][sel] = r /\ task'[gen][sel] = s
    BY <1>5, <1>8, Zenon DEF Cells, Moves
  <2> QED BY <1>1, <1>2, <1>6, <1>7, <1>9, <1>15, <2>1, Zenon DEF QueueRight, Queues, Awaiting
<1>16. ASSUME NEW j \in Pair, j # sel PROVE QueueRight(j)'
  <2>1. q'[gen][j] = q[gen][j] /\ task'[gen][j] = task[gen][j]
    BY <1>1, <1>5, <1>8, <1>16, Zenon DEF Cells, Moves
  <2>2. task[gen][j] # "wait"
    <3>1. task[gen][j] = "wait" => j \in Awaiting /\ q[gen][j].ready
      BY Zenon DEF RingInv, QueueRight
    <3> QED BY <1>16, <3>1, Zenon DEF RingInv, Selected
  <2> QED BY <1>9, <2>1, <2>2, Zenon DEF RingInv, QueueRight, Queues, Awaiting
<1>17. RingInv'
  BY <1>10, <1>13, <1>14, <1>15, <1>16, Zenon DEF RingInv
<1> QED BY <1>1, <1>5, <1>7, <1>11, <1>17, Zenon DEF Moves

\* A reset leaves a device whose queues are new.
LEMMA ResetRing ==
  ASSUME RingInv, Reset
  PROVE  RingInv' /\ \A i \in Pair : ~q'[gen'][i].ready
<1>1. /\ gen \in Gens /\ gen \in Nat /\ gen' = gen + 1 /\ gen' \in Gens /\ kind' = kind /\ sel' = 0
      /\ q \in [Gens -> [Pair -> Cell]]
  BY RingAssumption DEF RingInv, VirtioTypeOK, Gens, Reset
<1>2. New \in Cell /\ ~New.ready
  BY Indices, Zenon DEF New, Cell
<1>3. /\ q' \in [Gens -> [Pair -> Cell]]
      /\ \A h \in Gens, j \in Pair : q'[h][j] = IF h = gen THEN New ELSE q[h][j]
  BY <1>1, <1>2, Zenon DEF Reset, reset_queues, Pair
<1>4. VirtioTypeOK'
  BY <1>1, <1>3, Zenon DEF RingInv, VirtioTypeOK, Reset, Queues
<1>5. \A h \in Gens : (h > gen' => h > gen /\ h # gen) /\ (h < gen' => h < gen \/ h = gen)
                      /\ gen' > gen
  BY <1>1, RingAssumption DEF Gens
<1>6. Generations'
  BY <1>1, <1>2, <1>3, <1>5 DEF RingInv, Generations, Reset
<1>7. \A i \in Pair : q'[gen'][i] = New /\ task'[gen'][i] = "none"
  BY <1>1, <1>3, <1>5 DEF RingInv, Generations, Reset
<1>8. Selected' /\ \A i \in Pair : QueueRight(i)'
  BY <1>2, <1>7, QueuesPair DEF Selected, QueueRight, Queues, Awaiting, Pair
<1> QED BY <1>2, <1>4, <1>6, <1>7, <1>8, Zenon DEF RingInv

LEMMA RingInit == VirtioInit => RingInv
<1> SUFFICES ASSUME VirtioInit PROVE RingInv
  BY Zenon
<1>1. New \in Cell /\ ~New.ready /\ 0 \in Gens /\ "none" \in TaskState /\ 0 \in Queues
  BY Indices, RingAssumption DEF New, Cell, Gens, TaskState, Queues
<1>2. VirtioTypeOK
  BY <1>1, Indices, Zenon DEF VirtioTypeOK, VirtioInit, Pair
<1>3. \A g \in Gens, i \in Pair : q[g][i] = New /\ task[g][i] = "none"
  BY Zenon DEF VirtioInit, Pair
<1>4. Generations
  BY <1>1, <1>3, RingAssumption, Zenon DEF Generations, VirtioInit, Gens
<1>5. Selected /\ \A i \in Pair : QueueRight(i)
  BY <1>1, <1>3, QueuesPair, Zenon DEF Selected, QueueRight, VirtioInit
<1> QED BY <1>2, <1>4, <1>5, Zenon DEF RingInv

\* What RingsAgree and NoLostNotify need of the invariant.
LEMMA RingsRight == RingInv => RingsAgree /\ NoLostNotify
<1> SUFFICES ASSUME RingInv PROVE RingsAgree /\ NoLostNotify
  BY Zenon
<1>1. ASSUME NEW i \in Queues, q[gen][i].ready
      PROVE  /\ used_idx[i] = q[gen][i].used
             /\ (q[gen][i].avail - q[gen][i].used + Wrap) % Wrap
                  = IF task[gen][i] = "have" THEN 1 ELSE 0
  <2>1. i \in Pair /\ QueueRight(i) /\ q[gen][i].used \in Idx
    BY QueuesPair, Zenon DEF RingInv, VirtioTypeOK, Cell
  <2>2. /\ used_idx[i] = q[gen][i].used
        /\ q[gen][i].avail = IF task[gen][i] = "have" THEN (q[gen][i].used + 1) % Wrap
                                                      ELSE q[gen][i].used
    BY <1>1, <2>1, Zenon DEF QueueRight
  <2> QED BY <2>1, <2>2, Distance, Zenon
<1>2. ASSUME NEW i \in Awaiting, task[gen][i] = "wait", q[gen][i].avail # avail_idx[i]
      PROVE  q[gen][i].waker /\ sel = i /\ i \in unnotified
  <2>1. i \in Pair /\ QueueRight(i)
    BY QueuesPair, Zenon DEF RingInv
  <2>2. q[gen][i].ready /\ q[gen][i].waker /\ i \in unnotified
    BY <1>2, <2>1, Zenon DEF QueueRight
  <2> QED BY <2>2, Zenon DEF RingInv, Selected
<1> QED BY <1>1, <1>2, Zenon DEF RingsAgree, NoLostNotify

\* The controller's part in the steps of the device and of its driver.
LEMMA LevelSet ==
  ASSUME PlicInv, NEW l \in BOOLEAN, set_level(Irq, l), held' = held
  PROVE  /\ PlicInv' /\ plic.pending \subseteq plic'.pending
         /\ l /\ ~prev[Irq] => Irq \in plic'.pending
<1>1. Irq \in Irqs /\ prev' \in [Irqs -> BOOLEAN]
  BY WiringAssumption, Zenon DEF set_level, PlicInv, PlicTypeOK
<1>2. CASE trigger(Irq)
  BY <1>1, <1>2, Triggered, Zenon
<1>3. CASE ~(l /\ ~prev[Irq]) /\ UNCHANGED <<plic, pin>>
  <2>1. HeldIsClaimed' /\ ServicedOnce' /\ PinsRight'
    BY <1>3, Zenon DEF PlicInv, HeldIsClaimed, ServicedOnce, PinsRight
  <2> QED BY <1>1, <1>3, <2>1, Zenon DEF PlicInv, PlicTypeOK
<1> QED BY <1>2, <1>3, Zenon DEF set_level

LEMMA Claimed ==
  ASSUME PlicInv, NEW c \in Ctxs, Claim(c)
  PROVE  /\ PlicInv' /\ held[c] = NoIrq
         /\ Irq \in plic.pending => Irq \in plic'.pending \/ held'[c] = Irq
         /\ \A d \in Ctxs : d # c => held'[d] = held[d]
<1>1. PlicInv'
  BY PlicStepInv, Zenon DEF PlicNext
<1>2. held' = [held EXCEPT ![c] = Best(c)] /\ held[c] = NoIrq
  BY Zenon DEF Claim, claim
<1>3. held'[c] = Best(c) /\ \A d \in Ctxs : d # c => held'[d] = held[d]
  BY <1>2, Zenon DEF PlicInv, PlicTypeOK
<1>4. plic'.pending = IF Best(c) = NoIrq THEN plic.pending ELSE plic.pending \ {Best(c)}
  BY Zenon DEF Claim, claim, recompute_pending, PlicInv, PlicTypeOK, Registers
<1> QED BY <1>1, <1>2, <1>3, <1>4, Zenon

LEMMA Completed ==
  ASSUME PlicInv, NEW c \in Ctxs, Complete(c)
  PROVE  /\ PlicInv' /\ plic'.pending = plic.pending
         /\ \A d \in Ctxs : d # c => held'[d] = held[d]
<1>1. PlicInv'
  BY PlicStepInv, Zenon DEF PlicNext
<1>2. plic'.pending = plic.pending
  BY Zenon DEF Complete, complete, recompute_pending, PlicInv, PlicTypeOK, Registers
<1> QED BY <1>1, <1>2, Zenon DEF Complete, PlicInv, PlicTypeOK

LEMMA PlicKept ==
  ASSUME PlicInv, UNCHANGED plicVars
  PROVE  PlicInv'
BY PlicStepInv, Zenon

\* The steps the handler and the terminal have no part in.
LEMMA HandlerKept ==
  ASSUME HandlerTypeOK, Handler, SizeKnown, UNCHANGED <<kind, isr, size, held>>,
         plic.pending \subseteq plic'.pending, slip' \in BOOLEAN, slip => slip'
  PROVE  HandlerTypeOK' /\ Handler' /\ SizeKnown' /\ (Coming => Coming')
<1>1. HandlerTypeOK'
  BY Zenon DEF HandlerTypeOK
<1>2. Handler'
  BY Zenon DEF Handler
<1>3. SizeKnown'
  BY Zenon DEF SizeKnown
<1>4. Coming => Coming'
  BY Zenon DEF Coming
<1> QED BY <1>1, <1>2, <1>3, <1>4, Zenon

\* A step that uses no buffer and keeps every interrupt that is coming.
LEMMA UsedKept ==
  ASSUME UsedAnnounced, kind' = kind, gen' = gen, Coming => Coming', slip => slip',
         \A i \in Queues : /\ q'[gen][i].ready => q[gen][i].ready
                           /\ used_idx'[i] = used_idx[i] /\ seen'[i] = seen[i]
                           /\ task[gen][i] = "put" => task'[gen][i] = "put"
  PROVE  UsedAnnounced'
<1> SUFFICES ASSUME NEW i \in Queues, q'[gen][i].ready, used_idx'[i] # seen'[i]
             PROVE  Coming' \/ slip' \/ task'[gen][i] = "put"
  BY Zenon DEF UsedAnnounced, Queues
<1> QED BY Zenon DEF UsedAnnounced

LEMMA UsedSame ==
  ASSUME UsedAnnounced, UNCHANGED <<kind, gen, q, used_idx, seen, task>>,
         Coming => Coming', slip => slip'
  PROVE  UsedAnnounced'
BY UsedKept, Zenon

LEMMA DriverStep ==
  ASSUME VirtioInv, NEW i \in Queues, SetReady(i) \/ AddBuffer(i) \/ Notify(i)
  PROVE  VirtioInv'
<1> USE DEF VirtioInv
<1>1. UNCHANGED <<kind, gen, isr, size, slip, plicVars>>
  BY Zenon DEF SetReady, AddBuffer, Notify
<1>2. slip' \in BOOLEAN /\ (slip => slip') /\ plic' = plic /\ held' = held
  BY <1>1, Zenon DEF HandlerTypeOK, plicVars
<1>3. PlicInv'
  BY <1>1, PlicKept, Zenon
<1>4. HandlerTypeOK' /\ Handler' /\ SizeKnown' /\ (Coming => Coming')
  BY <1>1, <1>2, HandlerKept, Zenon
<1>5. CASE SetReady(i)
  <2>1. UsedAnnounced'
    <3> SUFFICES ASSUME NEW j \in Queues, q'[gen][j].ready, used_idx'[j] # seen'[j]
                 PROVE  Coming' \/ slip' \/ task'[gen][j] = "put"
      BY <1>1, Zenon DEF UsedAnnounced, Queues
    <3>1. j # i /\ j \in Pair
      BY <1>5, SetReadyRing, QueuesPair, Zenon
    <3>2. q[gen][j].ready /\ used_idx[j] # seen[j] /\ task'[gen][j] = task[gen][j]
      BY <1>5, <3>1, SetReadyRing, Zenon
    <3> QED BY <1>1, <1>4, <3>2, Zenon DEF UsedAnnounced
  <2> QED BY <1>3, <1>4, <1>5, <2>1, SetReadyRing, Zenon
<1>6. CASE AddBuffer(i)
  <2>1. UsedAnnounced'
    BY <1>4, <1>6, UsedSame, Zenon DEF AddBuffer
  <2> QED BY <1>3, <1>4, <1>6, <2>1, AddBufferRing, Zenon
<1>7. CASE Notify(i)
  <2>1. \A j \in Queues : /\ q'[gen][j].ready => q[gen][j].ready
                          /\ task[gen][j] = "put" => task'[gen][j] = "put"
    BY <1>7, NotifyRing, QueuesPair, Zenon
  <2>2. UsedAnnounced'
    BY <1>1, <1>2, <1>4, <1>7, <2>1, UsedKept, Zenon DEF Notify
  <2> QED BY <1>3, <1>4, <1>7, <2>2, NotifyRing, Zenon
<1> QED BY <1>5, <1>6, <1>7, Zenon

LEMMA ResetStep ==
  ASSUME VirtioInv, Reset
  PROVE  VirtioInv'
<1> USE DEF VirtioInv
<1>1. UNCHANGED <<kind, isr, size, slip, plicVars>>
  BY Zenon DEF Reset
<1>2. slip' \in BOOLEAN /\ (slip => slip') /\ plic' = plic /\ held' = held
  BY <1>1, Zenon DEF HandlerTypeOK, plicVars
<1>3. PlicInv'
  BY <1>1, PlicKept, Zenon
<1>4. HandlerTypeOK' /\ Handler' /\ SizeKnown'
  BY <1>1, <1>2, HandlerKept, Zenon
<1>5. UsedAnnounced'
  BY ResetRing, QueuesPair DEF UsedAnnounced, Queues, Pair
<1> QED BY <1>3, <1>4, <1>5, ResetRing, Zenon

\* A task that runs takes a buffer, waits, or ends.
LEMMA RunStep ==
  ASSUME VirtioInv, NEW g \in Gens, NEW i \in Pair,
         PollTake(g, i) \/ (i = 0 /\ (Receive(g) \/ Aborted(g)))
  PROVE  VirtioInv'
<1>0. RingInv /\ PlicInv /\ HandlerTypeOK /\ Handler /\ UsedAnnounced /\ SizeKnown
  BY Zenon DEF VirtioInv
<1>1. /\ task[g][i] = "run"
      /\ UNCHANGED <<kind, gen, sel, avail_idx, used_idx, seen, unnotified, isr, size, slip, plicVars>>
  BY Zenon DEF PollTake, Receive, Aborted
<1>2. slip' \in BOOLEAN /\ (slip => slip') /\ plic' = plic /\ held' = held
  BY <1>0, <1>1, Zenon DEF HandlerTypeOK, plicVars
<1>3. PlicInv'
  BY <1>0, <1>1, PlicKept, Zenon
<1>4. HandlerTypeOK' /\ Handler' /\ SizeKnown' /\ (Coming => Coming')
  BY <1>0, <1>1, <1>2, HandlerKept, Zenon
<1>5. VirtioTypeOK /\ gen \in Gens
  BY <1>0, Zenon DEF RingInv, VirtioTypeOK
<1>6. \/ Goto(g, i, "over") /\ UNCHANGED q
      \/ q[g][i].ready /\ Take(g, i)
      \/ /\ i \in Awaiting /\ q[g][i].ready /\ q[g][i].avail = avail_idx[i]
         /\ pend(g, i) /\ Goto(g, i, "wait")
  BY SMTT(20) DEF PollTake, Receive, Aborted
<1>7. RingInv'
  <2>1. "over" \in TaskState
    BY Zenon DEF TaskState
  <2> QED BY <1>0, <1>1, <1>6, <2>1, TaskOnly, TakeRing, PendRing, Zenon
<1>8. \A j \in Pair : /\ q'[gen][j].ready = q[gen][j].ready
                      /\ task[gen][j] = "put" => task'[gen][j] = "put"
  <2>1. PICK s \in TaskState : Goto(g, i, s)
    BY <1>6, Zenon DEF Take, TaskState
  <2>2. Moves(g, i, s)
    BY <1>5, <2>1, TaskGoes, Zenon
  <2>3. \A j \in Pair : q'[gen][j].ready = q[gen][j].ready
    <3>1. q \in [Gens -> [Pair -> Cell]]
      BY <1>5, Zenon DEF VirtioTypeOK
    <3> QED BY <1>5, <1>6, <3>1, SMTT(20) DEF Take, pend, Cell
  <2> QED BY <1>1, <1>5, <2>2, <2>3, Zenon DEF Moves
<1>9. UsedAnnounced'
  <2>1. \A j \in Queues : /\ q'[gen][j].ready => q[gen][j].ready
                          /\ used_idx'[j] = used_idx[j] /\ seen'[j] = seen[j]
                          /\ task[gen][j] = "put" => task'[gen][j] = "put"
    BY <1>1, <1>8, QueuesPair, Zenon
  <2> QED BY <1>0, <1>1, <1>2, <1>4, <2>1, UsedKept, Zenon
<1> QED BY <1>3, <1>4, <1>7, <1>9, Zenon DEF VirtioInv

\* A buffer is put back, with the interrupt to come or withheld.
LEMMA FinishStep ==
  ASSUME VirtioInv, NEW g \in Gens, NEW i \in Pair, Finish(g, i) \/ FinishSilently(g, i)
  PROVE  VirtioInv'
<1>0. /\ RingInv /\ PlicInv /\ HandlerTypeOK /\ Handler /\ UsedAnnounced /\ SizeKnown
      /\ VirtioTypeOK /\ gen \in Gens
  BY Zenon DEF VirtioInv, RingInv, VirtioTypeOK
<1>1. /\ task[g][i] = "have" /\ put(g, i)
      /\ UNCHANGED <<kind, gen, sel, avail_idx, seen, unnotified, isr, size, plicVars>>
      /\ slip' \/ (slip' = slip /\ Goto(g, i, "put"))
  BY Zenon DEF Finish, FinishSilently
<1>2. slip' \in BOOLEAN /\ (slip => slip') /\ plic' = plic /\ held' = held
  <2>1. slip' = TRUE \/ slip' = slip
    BY Zenon DEF Finish, FinishSilently
  <2>2. plic' = plic /\ held' = held /\ slip \in BOOLEAN
    BY <1>0, <1>1, Zenon DEF HandlerTypeOK, plicVars
  <2>3. CASE slip' = TRUE
    BY <2>2, <2>3, Zenon
  <2>4. CASE slip' = slip
    BY <2>2, <2>4, Zenon
  <2> QED BY <2>1, <2>3, <2>4, Zenon
<1>3. PlicInv'
  BY <1>0, <1>1, PlicKept, Zenon
<1>4. HandlerTypeOK' /\ Handler' /\ SizeKnown' /\ (Coming => Coming')
  BY <1>0, <1>1, <1>2, HandlerKept, Zenon
<1>5. PICK s \in {"put", "run", "over"} : Goto(g, i, s)
  BY Zenon DEF Finish, FinishSilently
<1>6. /\ RingInv' /\ \A j \in Pair : j # i \/ g # gen => used_idx'[j] = used_idx[j]
      /\ \A h \in Gens, j \in Pair : q'[h][j].ready = q[h][j].ready
  BY <1>0, <1>1, <1>5, PutRing, Zenon
<1>7. slip' \/ UsedAnnounced'
  <2> SUFFICES ASSUME ~slip', NEW j \in Queues, q'[gen][j].ready, used_idx'[j] # seen'[j]
               PROVE  Coming' \/ task'[gen][j] = "put"
    BY <1>1, Zenon DEF UsedAnnounced, Queues
  <2>1. j \in Pair
    BY QueuesPair, Zenon
  <2>2. Moves(g, i, "put") /\ slip' = slip
    BY <1>0, <1>1, TaskGoes, Zenon DEF TaskState
  <2>3. CASE g = gen /\ j = i
    BY <2>2, <2>3, Zenon DEF Moves
  <2>4. CASE g # gen \/ j # i
    <3>1. q'[gen][j].ready = q[gen][j].ready
      BY <1>0, <1>6, <2>1, Zenon
    <3>2. used_idx'[j] = used_idx[j] /\ seen'[j] = seen[j]
      BY <1>1, <1>6, <2>1, <2>4, Zenon
    <3>3. task'[gen][j] = task[gen][j]
      BY <1>0, <2>1, <2>2, <2>4, Zenon DEF Moves
    <3> QED BY <1>0, <1>4, <2>2, <3>1, <3>2, <3>3, Zenon DEF UsedAnnounced
  <2> QED BY <2>3, <2>4, Zenon
<1>8. UsedAnnounced'
  BY <1>7, Zenon DEF UsedAnnounced
<1> QED BY <1>3, <1>4, <1>6, <1>8, Zenon DEF VirtioInv

\* The interrupt is raised, or was high already, which slip records.
LEMMA PulseStep ==
  ASSUME VirtioInv, NEW g \in Gens, NEW i \in Pair, Raise(g, i) \/ Lower(g, i)
  PROVE  VirtioInv'
<1> USE DEF VirtioInv
<1>1. PICK s \in {"high", "run"} : Goto(g, i, s)
  BY Zenon DEF Raise, Lower
<1>2. /\ task[g][i] \in {"put", "high"}
      /\ UNCHANGED <<kind, gen, sel, q, avail_idx, used_idx, seen, unnotified, isr, size, held>>
  BY Zenon DEF Raise, Lower
<1>3. Irq \in Irqs /\ prev[Irq] \in BOOLEAN /\ slip \in BOOLEAN
  BY WiringAssumption, Zenon DEF PlicInv, PlicTypeOK, HandlerTypeOK
<1>4. slip' \in BOOLEAN /\ (slip => slip')
  BY <1>3, Zenon DEF Raise, Lower
<1>5. /\ PlicInv' /\ plic.pending \subseteq plic'.pending
      /\ Raise(g, i) => slip' \/ Irq \in plic'.pending
  <2>1. CASE Raise(g, i)
    BY <1>3, <2>1, LevelSet, Zenon DEF Raise
  <2>2. CASE Lower(g, i) /\ ~Raise(g, i)
    BY <2>2, LevelSet, Zenon DEF Lower
  <2> QED BY <2>1, <2>2, Zenon
<1>6. HandlerTypeOK' /\ Handler' /\ SizeKnown' /\ (Coming => Coming')
  BY <1>2, <1>4, <1>5, HandlerKept, Zenon
<1>7. RingInv'
  <2>1. s \in TaskState \ {"none", "have", "wait"}
    BY Zenon DEF TaskState
  <2> QED BY <1>1, <1>2, <2>1, TaskOnly, Zenon
<1>8. UsedAnnounced'
  <2>1. CASE Raise(g, i)
    BY <1>5, <2>1, Zenon DEF UsedAnnounced, Coming
  <2>2. CASE Lower(g, i)
    <3>1. VirtioTypeOK /\ gen \in Gens /\ s \in TaskState /\ task[g][i] = "high"
      BY <2>2, Zenon DEF RingInv, VirtioTypeOK, TaskState, Lower
    <3>2. Moves(g, i, s)
      BY <1>1, <3>1, TaskGoes, Zenon
    <3>3. \A j \in Queues : task[gen][j] = "put" => task'[gen][j] = "put"
      BY <3>1, <3>2, QueuesPair, Zenon DEF Moves
    <3> QED BY <1>2, <1>4, <1>6, <3>3, UsedKept, Zenon
  <2> QED BY <2>1, <2>2, SMTT(20)
<1> QED BY <1>5, <1>6, <1>7, <1>8, Zenon

\* The size of the terminal changes, and the device hears of it.
LEMMA SizeStep ==
  ASSUME VirtioInv, (\E s \in {0, 1} : Winch(s)) \/ Listen \/ Resize
  PROVE  VirtioInv'
<1> USE DEF VirtioInv
<1>1. UNCHANGED <<kind, gen, sel, q, avail_idx, used_idx, seen, unnotified, task, isr, held>>
  BY Zenon DEF Winch, Listen, Resize, plicVars
<1>2. RingInv'
  BY <1>1, RingKept, Zenon DEF RingInv, VirtioTypeOK
<1>3. /\ PlicInv' /\ plic.pending \subseteq plic'.pending
      /\ Resize => Irq \in plic'.pending
  <2>1. CASE Resize
    BY <2>1, WiringAssumption, Triggered, Zenon DEF Resize, PlicInv, PlicTypeOK
  <2>2. CASE UNCHANGED plicVars /\ ~Resize
    BY <2>2, PlicKept, Zenon DEF plicVars
  <2> QED BY <2>1, <2>2, Zenon DEF Winch, Listen
<1>4. slip' \in BOOLEAN /\ (slip => slip')
  <2>1. slip \in BOOLEAN /\ size.heard \in BOOLEAN
    BY Zenon DEF HandlerTypeOK
  <2>2. slip' = slip \/ slip' = (slip \/ ~size.heard)
    BY Zenon DEF Winch, Listen, Resize
  <2> QED BY <2>1, <2>2, Zenon
<1>5. HandlerTypeOK'
  <2> USE DEF HandlerTypeOK
  <2>1. ASSUME NEW s \in {0, 1}, Winch(s) PROVE HandlerTypeOK'
    <3>1. s \in Pair /\ size.heard \in BOOLEAN
      BY DEF Pair
    <3> QED BY <1>1, <1>4, <2>1, <3>1, Zenon DEF Winch
  <2>2. CASE Listen
    BY <1>1, <1>4, <2>2, Zenon DEF Listen
  <2>3. CASE Resize
    BY <1>1, <1>4, <2>3, Zenon DEF Resize, resize
  <2> QED BY <2>1, <2>2, <2>3, Zenon
<1>6. size'.st = size.st /\ size'.guest = size.guest
  BY Zenon DEF Winch, Listen, Resize, resize, HandlerTypeOK
<1>7. Handler'
  <2>1. kind # "con" => ~Resize
    BY Zenon DEF Handler, Resize
  <2>2. kind # "con" => FALSE
    BY <2>1, Zenon DEF Winch, Listen
  <2> QED BY <1>1, <1>6, <2>2, Zenon DEF Handler
<1>8. SizeKnown'
  <2>1. ASSUME NEW s \in {0, 1}, Winch(s) PROVE size'.sig \/ slip'
    BY <2>1, Zenon DEF Winch, HandlerTypeOK
  <2>2. CASE Listen
    <3>1. /\ size'.sig = size.sig /\ size'.host = size.host /\ size'.config = size.config
          /\ size'.changed = size.changed
      BY <2>2, Zenon DEF Listen, HandlerTypeOK
    <3> QED BY <1>1, <1>3, <1>6, <2>2, <3>1, Zenon DEF SizeKnown, Listen
  <2>3. CASE Resize
    <3>1. size'.config = size'.host /\ size'.changed
      BY <2>3, Zenon DEF Resize, resize, HandlerTypeOK
    <3> QED BY <1>3, <2>3, <3>1, Zenon DEF SizeKnown
  <2> QED BY <2>1, <2>2, <2>3, Zenon DEF SizeKnown
<1>9. Coming => Coming'
  BY <1>1, <1>3, Zenon DEF Coming
<1>10. UsedAnnounced'
  BY <1>1, <1>4, <1>9, UsedSame, Zenon
<1> QED BY <1>2, <1>3, <1>5, <1>7, <1>8, <1>10, Zenon

\* A hart enters the handler if it was this device's interrupt.
LEMMA EnterStep ==
  ASSUME VirtioInv, NEW c \in Ctxs, Enter(c)
  PROVE  VirtioInv'
<1> USE DEF VirtioInv
<1>1. UNCHANGED <<kind, gen, sel, q, avail_idx, used_idx, seen, unnotified, task, size, slip>>
  BY Zenon DEF Enter
<1>2. RingInv'
  BY <1>1, RingKept, Zenon DEF RingInv, VirtioTypeOK
<1>3. /\ PlicInv' /\ held[c] = NoIrq
      /\ Irq \in plic.pending => Irq \in plic'.pending \/ held'[c] = Irq
      /\ \A d \in Ctxs : d # c => held'[d] = held[d]
  BY Claimed, Zenon DEF Enter
<1>4. /\ isr' \in [Ctxs -> IsrState]
      /\ isr'[c] = IF held'[c] # Irq THEN "end" ELSE IF kind = "con" THEN "status" ELSE "work"
      /\ \A d \in Ctxs : d # c => isr'[d] = isr[d]
  BY Zenon DEF Enter, HandlerTypeOK, IsrState
<1>5. isr[c] \notin {"status", "ack", "work"}
  BY <1>3, WiringAssumption, IrqsAssumption, Zenon DEF Handler, NoIrq
<1>6. HandlerTypeOK'
  BY <1>1, <1>4, Zenon DEF HandlerTypeOK
<1>7. Handler'
  BY <1>1, <1>3, <1>4, <1>5, Zenon DEF Handler
<1>8. SizeKnown'
  <2> SUFFICES ASSUME ~size.sig, ~slip, size.host # size.guest, ~size.st
               PROVE  size.changed /\ (Irq \in plic'.pending \/ \E d \in Ctxs : isr'[d] = "status")
    BY <1>1, Zenon DEF SizeKnown
  <2>1. kind = "con"
    BY Zenon DEF Handler
  <2>2. size.changed /\ (Irq \in plic.pending \/ \E d \in Ctxs : isr[d] = "status")
    BY Zenon DEF SizeKnown
  <2>3. ASSUME NEW d \in Ctxs, isr[d] = "status" PROVE isr'[d] = "status"
    BY <1>4, <1>5, <2>3, Zenon
  <2> QED BY <1>3, <1>4, <2>1, <2>2, <2>3, Zenon
<1>9. Coming => Coming'
  BY <1>3, <1>4, <1>5, Zenon DEF Coming
<1>10. UsedAnnounced'
  BY <1>1, <1>9, UsedSame, Zenon
<1> QED BY <1>2, <1>3, <1>6, <1>7, <1>8, <1>10, Zenon

\* The handler on hart c: only one hart is in it.
LEMMA HandlerStep ==
  ASSUME VirtioInv, NEW c \in Ctxs, ReadStatus(c) \/ Ack(c) \/ Work(c)
  PROVE  VirtioInv'
<1> USE DEF VirtioInv
<1>1. UNCHANGED <<kind, gen, sel, q, avail_idx, used_idx, unnotified, task, slip, plicVars>>
  BY Zenon DEF ReadStatus, Ack, Work
<1>2. RingInv'
  BY <1>1, RingKept, Zenon DEF RingInv, VirtioTypeOK, ReadStatus, Ack, Work
<1>3. PlicInv' /\ plic' = plic /\ held' = held
  BY <1>1, PlicKept, Zenon DEF plicVars
<1>4. \A d \in Ctxs : isr[d] \in {"status", "ack", "work"} => d = c
  <2>1. held[c] = Irq /\ Irq # NoIrq
    BY WiringAssumption, IrqsAssumption, Zenon DEF Handler, NoIrq, ReadStatus, Ack, Work
  <2> QED BY <2>1, Zenon DEF Handler, PlicInv, ServicedOnce
<1>5. HandlerTypeOK'
  <2> USE DEF HandlerTypeOK, IsrState
  <2>1. CASE ReadStatus(c)
    BY <2>1, Zenon DEF ReadStatus
  <2>2. CASE Ack(c)
    <3>1. (size.changed /\ ~size.st) \in BOOLEAN
      BY Zenon
    <3> QED BY <2>2, <3>1, Zenon DEF Ack, interrupt_ack
  <2>3. CASE Work(c)
    BY <2>3, Zenon DEF Work
  <2> QED BY <2>1, <2>2, <2>3, Zenon
<1>6. \A d \in Ctxs : d # c => isr'[d] = isr[d]
  BY Zenon DEF ReadStatus, Ack, Work, HandlerTypeOK
<1>7. CASE ReadStatus(c)
  <2>1. isr[c] = "status" /\ isr'[c] = "ack" /\ size'.st = size.changed /\ UNCHANGED seen
        /\ size'.sig = size.sig /\ size'.host = size.host /\ size'.config = size.config
        /\ size'.guest = size.guest
    BY <1>7, Zenon DEF ReadStatus, HandlerTypeOK
  <2>2. ~size.st /\ kind = "con"
    BY <1>4, <2>1, Zenon DEF Handler
  <2>3. Handler'
    BY <1>1, <1>3, <1>4, <1>6, <2>1, <2>2, SMTT(20) DEF Handler
  <2>4. SizeKnown'
    BY <1>1, <2>1, <2>2, Zenon DEF SizeKnown
  <2>5. Coming'
    BY <2>1, Zenon DEF Coming
  <2>6. UsedAnnounced'
    BY <2>5, Zenon DEF UsedAnnounced
  <2> QED BY <1>2, <1>3, <1>5, <2>3, <2>4, <2>6, Zenon
<1>8. CASE Ack(c)
  <2>1. isr[c] = "ack" /\ isr'[c] = "work" /\ size'.st = size.st /\ UNCHANGED seen
        /\ size'.sig = size.sig /\ size'.host = size.host /\ size'.config = size.config
        /\ size'.guest = size.guest /\ (~size.st => size'.changed = size.changed)
    BY <1>8, Zenon DEF Ack, interrupt_ack, HandlerTypeOK
  <2>2. Handler'
    BY <1>1, <1>3, <1>4, <1>6, <2>1, Zenon DEF Handler
  <2>3. \A d \in Ctxs : isr[d] # "status"
    BY <1>4, <2>1, Zenon
  <2>4. SizeKnown'
    BY <1>1, <1>3, <2>1, <2>3, Zenon DEF SizeKnown
  <2>5. Coming'
    BY <2>1, Zenon DEF Coming
  <2>6. UsedAnnounced'
    BY <2>5, Zenon DEF UsedAnnounced
  <2> QED BY <1>2, <1>3, <1>5, <2>2, <2>4, <2>6, Zenon
<1>9. CASE Work(c)
  <2>1. isr[c] = "work" /\ isr'[c] = "end" /\ ~size'.st /\ seen' = used_idx
        /\ size'.sig = size.sig /\ size'.host = size.host /\ size'.config = size.config
        /\ size'.guest = (IF size.st THEN size.config ELSE size.guest)
        /\ size'.changed = size.changed
    BY <1>9, Zenon DEF Work, HandlerTypeOK
  <2>2. Handler'
    BY <1>1, <1>3, <1>4, <1>6, <2>1, Zenon DEF Handler
  <2>3. \A d \in Ctxs : isr[d] # "status"
    BY <1>4, <2>1, Zenon
  <2>4. SizeKnown'
    BY <1>1, <1>3, <2>1, <2>3, Zenon DEF SizeKnown
  <2>5. UsedAnnounced'
    BY <1>1, <2>1, Zenon DEF UsedAnnounced
  <2> QED BY <1>2, <1>3, <1>5, <2>2, <2>4, <2>5, Zenon
<1> QED BY <1>7, <1>8, <1>9, Zenon

LEMMA EndStep ==
  ASSUME VirtioInv, NEW c \in Ctxs, End(c)
  PROVE  VirtioInv'
<1> USE DEF VirtioInv
<1>1. UNCHANGED <<kind, gen, sel, q, avail_idx, used_idx, seen, unnotified, task, size, slip>>
  BY Zenon DEF End
<1>2. RingInv'
  BY <1>1, RingKept, Zenon DEF RingInv, VirtioTypeOK
<1>3. /\ PlicInv' /\ plic'.pending = plic.pending
      /\ \A d \in Ctxs : d # c => held'[d] = held[d]
  BY Completed, Zenon DEF End
<1>4. /\ isr' \in [Ctxs -> IsrState] /\ isr[c] = "end" /\ isr'[c] = "idle"
      /\ \A d \in Ctxs : d # c => isr'[d] = isr[d]
  BY Zenon DEF End, HandlerTypeOK, IsrState
<1>5. HandlerTypeOK'
  BY <1>1, <1>4, Zenon DEF HandlerTypeOK
<1>6. Handler'
  BY <1>1, <1>3, <1>4, Zenon DEF Handler
<1>7. SizeKnown'
  BY <1>1, <1>3, <1>4, Zenon DEF SizeKnown
<1>8. Coming => Coming'
  BY <1>3, <1>4, Zenon DEF Coming
<1>9. UsedAnnounced'
  BY <1>1, <1>8, UsedSame, Zenon
<1> QED BY <1>2, <1>3, <1>5, <1>6, <1>7, <1>9, Zenon

LEMMA VirtioInitInv == VirtioInit /\ Configured => VirtioInv
<1> SUFFICES ASSUME VirtioInit, Configured PROVE VirtioInv
  BY Zenon
<1>1. RingInv
  BY RingInit, Zenon
<1>2. PlicTypeOK
  BY IrqsAssumption, WiringAssumption DEF Configured, PlicTypeOK, Registers, Prio
<1>3. HeldIsClaimed /\ ServicedOnce
  BY Zenon DEF Configured, HeldIsClaimed, ServicedOnce
<1>4. PinsRight
  BY Zenon DEF Configured, PinsRight, pending, claimable
<1>5. HandlerTypeOK /\ Handler /\ SizeKnown
  <2>1. HandlerTypeOK
    <3>1. 0 \in Pair /\ "idle" \in IsrState
      BY DEF Pair, IsrState
    <3>2. slip \in BOOLEAN /\ isr \in [Ctxs -> IsrState]
      BY <3>1, Zenon DEF VirtioInit
    <3> QED BY <3>1, <3>2, Zenon DEF VirtioInit, HandlerTypeOK
  <2>2. Handler /\ SizeKnown
    BY Zenon DEF VirtioInit, Handler, SizeKnown
  <2> QED BY <2>1, <2>2, Zenon
<1>6. UsedAnnounced
  BY QueuesPair, Zenon DEF VirtioInit, UsedAnnounced, Pair
<1> QED BY <1>1, <1>2, <1>3, <1>4, <1>5, <1>6, Zenon DEF VirtioInv, PlicInv

LEMMA VirtioInvariance == VirtioSpec => []VirtioInv
<1>1. VirtioInv /\ [VirtioNext]_<<virtioVars, plicVars>> => VirtioInv'
  <2> SUFFICES ASSUME VirtioInv, [VirtioNext]_<<virtioVars, plicVars>> PROVE VirtioInv'
    BY Zenon
  <2>1. CASE UNCHANGED <<virtioVars, plicVars>>
    <3> USE <2>1 DEF VirtioInv, virtioVars
    <3>1. PlicInv' /\ plic' = plic /\ held' = held
      BY PlicKept, Zenon DEF plicVars
    <3>2. RingInv'
      BY RingKept, SMTT(20) DEF RingInv, VirtioTypeOK
    <3>3. HandlerTypeOK' /\ Handler' /\ SizeKnown' /\ (Coming => Coming')
      BY <3>1, HandlerKept, Zenon DEF HandlerTypeOK
    <3>4. UsedAnnounced'
      BY <3>3, UsedSame, Zenon
    <3> QED BY <3>1, <3>2, <3>3, <3>4, Zenon
  <2>2. ASSUME NEW i \in Queues, SetReady(i) \/ AddBuffer(i) \/ Notify(i) PROVE VirtioInv'
    BY <2>2, DriverStep, Zenon
  <2>3. ASSUME NEW g \in Gens, NEW i \in Queues,
               PollTake(g, i) \/ Finish(g, i) \/ FinishSilently(g, i) \/ Raise(g, i) \/ Lower(g, i)
        PROVE  VirtioInv'
    <3>1. i \in Pair
      BY QueuesPair, Zenon
    <3> QED BY <2>3, <3>1, RunStep, FinishStep, PulseStep, Zenon
  <2>4. ASSUME NEW g \in Gens, Receive(g) \/ Aborted(g) PROVE VirtioInv'
    <3>1. 0 \in Pair
      BY DEF Pair
    <3> QED BY <2>4, <3>1, RunStep, Zenon
  <2> QED BY <2>1, <2>2, <2>3, <2>4, ResetStep, SizeStep, EnterStep, HandlerStep, EndStep, Zenon
      DEF VirtioNext
<1> QED BY <1>1, VirtioInitInv, PTL DEF VirtioSpec

\* The driver finds in the used ring what the queue in use has put there, also
\* while tasks that outlived a reset finish with buffers of the old queue: for
\* any ring size and any number of resets (QueueInner::put, Mmio's reset).
THEOREM VirtioRingsAgree == VirtioSpec => []RingsAgree
<1>1. VirtioInv => RingsAgree
  BY RingsRight, Zenon DEF VirtioInv
<1> QED BY <1>1, VirtioInvariance, PTL

\* A queue's task never sleeps on a buffer that nobody will notify it of
\* (Take::poll, QUEUE_NOTIFY).
THEOREM VirtioNoLostNotify == VirtioSpec => []NoLostNotify
<1>1. VirtioInv => NoLostNotify
  BY RingsRight, Zenon DEF VirtioInv
<1> QED BY <1>1, VirtioInvariance, PTL

\* While the driver has not seen a used buffer or the size of the terminal, the
\* interrupt that makes it look is on its way, wherever the handler is on
\* whichever hart (irq.pulse, start_resize, interrupt_ack).
THEOREM VirtioAnnounced == VirtioSpec => []Announced
<1>1. VirtioInv => Announced
  <2> SUFFICES ASSUME VirtioInv PROVE UsedAnnounced /\ SizeAnnounced
    BY Zenon DEF Announced
  <2>1. SizeAnnounced
    BY Zenon DEF VirtioInv, SizeKnown, SizeAnnounced, Coming
  <2> QED BY <2>1, Zenon DEF VirtioInv
<1> QED BY <1>1, VirtioInvariance, PTL

-----------------------------------------------------------------------------
(* The event loop.                                                          *)

\* How the loop waits depends on the mode, and the epoch is in the past, so
\* the clock of threaded mode is never negative.
Modal ==
  /\ pc = "sleep" => ~threaded
  /\ pc = "wait" => threaded
  /\ epoch <= micros

-----------------------------------------------------------------------------
(* Arithmetic, and the head of the heap *)

LEMMA ProductNat == ASSUME NEW a \in Nat, NEW b \in Nat PROVE a * b \in Nat
OBVIOUS

LEMMA CeilDivNat ==
  ASSUME NEW a \in Nat, NEW b \in Nat \ {0} PROVE CeilDiv(a, b) \in Nat
<1> DEFINE n == a + b - 1
<1>1. n \in Nat
  OBVIOUS
<1>2. n \div b \in Nat
  BY <1>1
<1> QED BY <1>2, Zenon DEF CeilDiv

\* A set of naturals that is not empty has a least element.
LEMMA LeastNat ==
  ASSUME NEW T, T \subseteq Nat, T # {}
  PROVE  \E x \in T : \A y \in T : x <= y
<1> DEFINE R == OpToRel(<, Nat)
<1>1. PICK x \in T : \A y \in T : ~ (<<y, x>> \in R)
  <2>1. IsWellFoundedOn(R, Nat)
    BY NatLessThanWellFounded, Zenon
  <2> HIDE DEF R
  <2> QED BY <2>1, WFMin, Zenon
<1>2. ASSUME NEW y \in T PROVE x <= y
  <2>1. <<y, x>> \in Nat \X Nat
    BY Zenon
  <2>2. ~ (y < x)
    BY <1>1, <2>1, Zenon DEF OpToRel
  <2> QED BY <2>2
<1> QED BY <1>2, Zenon

\* The time at the head of a heap is the time of an entry and the least one.
LEMMA FirstLeast ==
  ASSUME NEW S, S # {}, \A e \in S : e.time \in Nat
  PROVE  /\ First(S) \in Nat
         /\ \A e \in S : First(S) <= e.time
         /\ \E e \in S : First(S) = e.time
<1> DEFINE T == {e.time : e \in S}
<1>1. T \subseteq Nat /\ T # {}
  BY Zenon
<1>2. PICK x \in T : \A y \in T : x <= y
  BY <1>1, LeastNat, Zenon
<1>3. \A e \in S : x <= e.time
  BY <1>2, Zenon
<1>4. First(S) \in T /\ \A e \in S : First(S) <= e.time
  BY <1>3, Zenon DEF First
<1> QED BY <1>1, <1>4, Zenon

LEMMA EventTime == \A e \in EventSet : e.time \in Nat
BY DEF EventSet

LEMMA CycleNat == ASSUME TypeOK, Modal PROVE Cycle \in Nat
<1>1. micros - epoch \in Nat
  BY DEF TypeOK, Modal
<1>2. (micros - epoch) * PerMicro \in Nat
  BY <1>1, ProductNat, BoundsAssumption, Zenon
<1> QED BY <1>2, Zenon DEF Cycle, TypeOK

-----------------------------------------------------------------------------
(* Types *)

LEMMA PushType ==
  ASSUME TypeOK, NEW e \in EventSet, Push(e)
  PROVE  /\ events' \subseteq EventSet /\ next_event' \in Nat
         /\ ~threaded => \A f \in events' : next_event' <= f.time
<1>1. events' \subseteq EventSet /\ events' # {}
  BY Zenon DEF Push, TypeOK
<1>2. First(events') \in Nat /\ \A f \in events' : First(events') <= f.time
  BY <1>1, EventTime, FirstLeast, Zenon
<1> QED BY <1>1, <1>2, Zenon DEF Push, TypeOK

LEMMA NewEvents ==
  /\ \A t \in Tasks : Event(0, "poll", t) \in EventSet
  /\ \A t \in Tasks, n \in Nat : Event(n, "wake", t) \in EventSet
  /\ \A c \in Callers : Event(0, "noop", c) \in EventSet
BY Zenon DEF Event, EventSet

\* An event at time 0 is the head of the heap it is pushed on, so pushing it
\* ends a wait.
LEMMA NotifyNow ==
  ASSUME TypeOK, NEW e \in EventSet, e.time = 0, Push(e), WakeLoop(e)
  PROVE  /\ pc' \in Place /\ deadline' \in Nat \cup {NoDeadline}
         /\ pc' # "wait" /\ (pc' = "sleep" => pc = "sleep")
<1>1. e \in events' /\ events' \subseteq EventSet
  BY PushType, Zenon DEF Push
<1>2. First(events') \in Nat /\ First(events') <= e.time
  BY <1>1, EventTime, FirstLeast, Zenon
<1>3. First(events') = e.time
  BY <1>2
<1> QED BY <1>3, Zenon DEF WakeLoop, TypeOK, Place

LEMMA InitType == Init => TypeOK /\ Modal
<1> SUFFICES ASSUME Init PROVE TypeOK /\ Modal
  BY Zenon
<1>1. {} \subseteq EventSet /\ 0 \in 0 .. MaxDue
  BY BoundsAssumption
<1>2. /\ threaded \in BOOLEAN /\ next_event \in Nat /\ events \subseteq EventSet
      /\ pc \in Place /\ deadline \in Nat \cup {NoDeadline}
  BY <1>1, BoundsAssumption, ModesAssumption, Zenon DEF Init, Place
<1>3. due \in [Tasks -> 0 .. MaxDue] /\ timer \in [Tasks -> TimerState]
  BY <1>1, Zenon DEF Init, TimerState
<1>4. call \in [Callers -> {"idle", "flag", "queue", "done", "served"}]
  BY Zenon DEF Init
<1>5. entry \in EventSet \cup {NoEvent} /\ shutdown \in BOOLEAN
  BY Zenon DEF Init
<1>6. /\ micros \in Nat /\ epoch \in Int /\ cycle \in Nat /\ now \in Nat
      /\ lockstep_cycle_base \in Int /\ ticks \in Nat
  BY DEF Init
<1>7. Modal
  BY DEF Init, Modal
<1> QED BY <1>2, <1>3, <1>4, <1>5, <1>6, <1>7, Zenon DEF TypeOK

LEMMA TypeLoop ==
  ASSUME TypeOK, Modal, Loop PROVE TypeOK' /\ Modal'
<1> USE DEF Place
<1>1. CASE Top
  BY <1>1, CycleNat, Zenon DEF Top, TypeOK, Modal, clock
<1>2. ASSUME NEW e \in events, HandleEvents(e) PROVE TypeOK' /\ Modal'
  BY <1>2, Zenon DEF HandleEvents, TypeOK, Modal, clock
<1>3. CASE Wait
  <2>1. deadline' \in Nat \cup {NoDeadline}
    <3>1. CASE events = {}
      BY <1>3, <3>1, Zenon DEF Wait
    <3>2. CASE events # {}
      <4>1. First(events) \in Nat /\ First(events) >= now
        <5>1. PICK e \in events : First(events) = e.time
          BY <3>2, FirstLeast, EventTime, Zenon DEF TypeOK
        <5>2. e.time \in Nat /\ e.time > now
          BY <1>3, EventTime, Zenon DEF Wait, TypeOK
        <5> QED BY <5>1, <5>2 DEF TypeOK
      <4> QED BY <1>3, <3>2, <4>1 DEF Wait, TypeOK
    <3> QED BY <3>1, <3>2, Zenon
  <2> QED BY <1>3, <2>1, Zenon DEF Wait, TypeOK, Modal, clock
<1>4. CASE Sleep
  <2>1. next_event' \in Nat
    <3>1. CASE events = {}
      BY <1>4, <3>1, BoundsAssumption, Zenon DEF Sleep
    <3>2. CASE events # {}
      BY <1>4, <3>2, FirstLeast, EventTime, Zenon DEF Sleep, TypeOK
    <3> QED BY <3>1, <3>2, Zenon
  <2> QED BY <1>4, <2>1, Zenon DEF Sleep, TypeOK, Modal, clock
<1>5. CASE Timeout
  BY <1>5, Zenon DEF Timeout, TypeOK, Modal, clock
<1>6. CASE CycleTick
  BY <1>6 DEF CycleTick, TypeOK, Modal
<1>7. CASE RunNoop
  BY <1>7, Zenon DEF RunNoop, TypeOK, Modal, clock
<1>8. CASE RunPoll
  <2> DEFINE t == entry.id
             wake == Event(due[t] * PerMicro, "wake", t)
  <2>1. t \in Tasks
    BY <1>8 DEF RunPoll, TypeOK, EventSet, NoEvent, Event
  <2>2. wake \in EventSet
    <3>1. due[t] \in Nat
      BY <2>1, BoundsAssumption DEF TypeOK
    <3>2. due[t] * PerMicro \in Nat
      BY <3>1, ProductNat, BoundsAssumption, Zenon
    <3> QED BY <2>1, <3>2, NewEvents, Zenon
  <2>3. events' \subseteq EventSet /\ next_event' \in Nat
    <3>1. CASE Push(wake)
      BY <2>2, <3>1, PushType, Zenon
    <3>2. CASE UNCHANGED <<events, next_event>>
      BY <3>2, Zenon DEF TypeOK
    <3> QED BY <1>8, <3>1, <3>2, Zenon DEF RunPoll
  <2>4. timer' \in [Tasks -> TimerState]
    BY <1>8, <2>1, Zenon DEF RunPoll, TypeOK, TimerState
  <2> QED BY <1>8, <2>3, <2>4, Zenon DEF RunPoll, TypeOK, Modal, clock
<1>9. CASE RunWake
  <2>1. entry.id \in Tasks
    BY <1>9 DEF RunWake, TypeOK, EventSet, NoEvent, Event
  <2>2. events' \subseteq EventSet /\ next_event' \in Nat
    BY <1>9, <2>1, NewEvents, PushType, Zenon DEF RunWake
  <2> QED BY <1>9, <2>2, Zenon DEF RunWake, TypeOK, Modal, clock
<1>10. ASSUME NEW c \in Callers, Restart(c) PROVE TypeOK' /\ Modal'
  BY <1>10, ModesAssumption, Zenon DEF Restart, TypeOK, Modal
<1> QED BY <1>1, <1>2, <1>3, <1>4, <1>5, <1>6, <1>7, <1>8, <1>9, <1>10, Zenon DEF Loop

LEMMA TypeClients ==
  ASSUME TypeOK, Modal,
         \/ \E t \in Tasks, d \in 1 .. MaxDue : Spawn(t, d)
         \/ \E c \in Callers : Caller(c)
         \/ MicroTick
  PROVE  TypeOK' /\ Modal'
<1>1. ASSUME NEW t \in Tasks, NEW d \in 1 .. MaxDue, Spawn(t, d)
      PROVE  TypeOK' /\ Modal'
  <2> DEFINE e == Event(0, "poll", t)
  <2>1. e \in EventSet /\ e.time = 0 /\ Push(e) /\ WakeLoop(e)
    BY <1>1, NewEvents, Zenon DEF Spawn, Event
  <2> HIDE DEF e
  <2>2. events' \subseteq EventSet /\ next_event' \in Nat
    BY <2>1, PushType, Zenon
  <2>3. /\ pc' \in Place /\ deadline' \in Nat \cup {NoDeadline}
        /\ pc' # "wait" /\ (pc' = "sleep" => pc = "sleep")
    BY <2>1, NotifyNow, Zenon
  <2>4. due' \in [Tasks -> 0 .. MaxDue]
    BY <1>1, BoundsAssumption DEF Spawn, TypeOK
  <2> QED BY <1>1, <2>2, <2>3, <2>4, Zenon DEF Spawn, TypeOK, Modal, clock
<1>2. ASSUME NEW c \in Callers, Sync(c) PROVE TypeOK' /\ Modal'
  <2>1. CASE threaded
    BY <1>2, <2>1, CycleNat DEF Sync, TypeOK, Modal
  <2>2. CASE ~threaded
    <3>1. CeilDiv(cycle, PerMicro) \in Nat
      BY CeilDivNat, BoundsAssumption, Zenon DEF TypeOK
    <3> QED BY <1>2, <2>2, <3>1 DEF Sync, TypeOK, Modal
  <2> QED BY <2>1, <2>2, Zenon
<1>3. ASSUME NEW c \in Callers, SetFlag(c) PROVE TypeOK' /\ Modal'
  BY <1>3, Zenon DEF SetFlag, TypeOK, Modal, clock
<1>4. ASSUME NEW c \in Callers, QueueNoop(c) PROVE TypeOK' /\ Modal'
  <2> DEFINE e == Event(0, "noop", c)
  <2>1. e \in EventSet /\ e.time = 0 /\ Push(e) /\ WakeLoop(e)
    BY <1>4, NewEvents, Zenon DEF QueueNoop, Event
  <2> HIDE DEF e
  <2>2. events' \subseteq EventSet /\ next_event' \in Nat
    BY <2>1, PushType, Zenon
  <2>3. /\ pc' \in Place /\ deadline' \in Nat \cup {NoDeadline}
        /\ pc' # "wait" /\ (pc' = "sleep" => pc = "sleep")
    BY <2>1, NotifyNow, Zenon
  <2> QED BY <1>4, <2>2, <2>3, Zenon DEF QueueNoop, TypeOK, Modal, clock
<1>5. CASE MicroTick
  BY <1>5 DEF MicroTick, TypeOK, Modal
<1> QED BY <1>1, <1>2, <1>3, <1>4, <1>5, Zenon DEF Caller

LEMMA TypeNext == TypeOK /\ Modal /\ [Next]_vars => TypeOK' /\ Modal'
<1> SUFFICES ASSUME TypeOK, Modal, [Next]_vars PROVE TypeOK' /\ Modal'
  BY Zenon
<1>1. CASE UNCHANGED vars
  BY <1>1, Zenon DEF vars, clock, TypeOK, Modal
<1> QED BY <1>1, TypeLoop, TypeClients, Zenon DEF Next

\* Type correctness: the state of the event loop always has its type, and in
\* particular the clock is never negative (cycle, shutdown).
THEOREM TypeCorrect == Spec => []TypeOK
<1>1. Spec => [](TypeOK /\ Modal)
  BY InitType, TypeNext, PTL DEF Spec
<1> QED BY <1>1, PTL

-----------------------------------------------------------------------------
(* Cycles spent in lockstep mode *)

LEMMA ExactNext ==
  TypeOK /\ Modal /\ LockstepCyclesExact /\ [Next]_vars => LockstepCyclesExact'
<1> SUFFICES ASSUME TypeOK, Modal, LockstepCyclesExact, [Next]_vars
             PROVE  LockstepCyclesExact'
  BY Zenon
<1>1. CASE CycleTick
  BY <1>1 DEF CycleTick, LockstepCyclesExact, TypeOK
<1>2. ASSUME NEW c \in Callers, Sync(c) PROVE LockstepCyclesExact'
  BY <1>2, CycleNat DEF Sync, LockstepCyclesExact, TypeOK
<1>3. ASSUME UNCHANGED <<cycle, lockstep_cycle_base, ticks>> PROVE LockstepCyclesExact'
  BY <1>3, Zenon DEF LockstepCyclesExact
<1>4. CASE Loop
  <2>1. ASSUME NEW e \in events, HandleEvents(e)
        PROVE  UNCHANGED <<cycle, lockstep_cycle_base, ticks>>
    BY <2>1, Zenon DEF HandleEvents, clock
  <2>2. ASSUME NEW c \in Callers, Restart(c)
        PROVE  UNCHANGED <<cycle, lockstep_cycle_base, ticks>>
    BY <2>2, Zenon DEF Restart
  <2>3. CASE Top \/ Wait \/ Sleep \/ Timeout \/ RunNoop \/ RunWake
    BY <2>3, <1>3, Zenon DEF Top, Wait, Sleep, Timeout, RunNoop, RunWake, clock
  <2>4. CASE RunPoll
    BY <2>4, <1>3, Zenon DEF RunPoll, clock
  <2> QED BY <1>1, <1>3, <1>4, <2>1, <2>2, <2>3, <2>4, Zenon DEF Loop
<1>5. ASSUME NEW t \in Tasks, NEW d \in 1 .. MaxDue, Spawn(t, d)
      PROVE  LockstepCyclesExact'
  BY <1>5, <1>3, Zenon DEF Spawn, clock
<1>6. ASSUME NEW c \in Callers, SetFlag(c) \/ QueueNoop(c) PROVE LockstepCyclesExact'
  BY <1>6, <1>3, Zenon DEF SetFlag, QueueNoop, clock
<1>7. CASE MicroTick
  BY <1>7, <1>3, Zenon DEF MicroTick
<1>8. CASE UNCHANGED vars
  BY <1>8, <1>3, Zenon DEF vars, clock
<1> QED BY <1>2, <1>4, <1>5, <1>6, <1>7, <1>8, Zenon DEF Next, Caller

\* cycle minus lockstep_cycle_base is the number of cycles counted in
\* lockstep mode, over every sequence of shutdowns and mode switches
\* (shutdown, get_lockstep_cycles, event_loop_wait).
THEOREM LockstepCycles == Spec => []LockstepCyclesExact
<1>1. Init => LockstepCyclesExact
  BY DEF Init, LockstepCyclesExact
<1>2. Spec => [](TypeOK /\ Modal /\ LockstepCyclesExact)
  BY <1>1, InitType, TypeNext, ExactNext, PTL DEF Spec
<1> QED BY <1>2, PTL

-----------------------------------------------------------------------------
(* Sleeping and waiting *)

Waits == NextEventCovers /\ WaitBounded

\* A push by a client while the loop is not holding the lock.
LEMMA PushWaits ==
  ASSUME TypeOK, Modal, Waits, NEW e \in EventSet, e.time = 0, Push(e), WakeLoop(e)
  PROVE  Waits'
<1>1. ~threaded => \A f \in events' : next_event' <= f.time
  BY PushType, Zenon
<1>2. pc' # "wait" /\ (pc' = "sleep" => pc = "sleep")
  BY NotifyNow, Zenon
<1> QED BY <1>1, <1>2, Zenon DEF Modal, Waits, NextEventCovers, WaitBounded

LEMMA WaitsNext == TypeOK /\ Modal /\ Waits /\ [Next]_vars => Waits'
<1> SUFFICES ASSUME TypeOK, Modal, Waits, [Next]_vars PROVE Waits'
  BY Zenon
<1> USE DEF Waits, NextEventCovers, WaitBounded
<1>1. CASE Wait
  <2>1. ASSUME NEW e \in events'
        PROVE  e.time > now' /\ deadline' # NoDeadline /\ deadline' - micros' <= e.time - now'
    <3>1. e \in events /\ e.time > now
      BY <1>1, <2>1, Zenon DEF Wait
    <3>2. PICK f \in events : First(events) = f.time
      BY <3>1, FirstLeast, EventTime, Zenon DEF TypeOK
    <3>3. f.time \in Nat /\ f.time > now /\ e.time \in Nat
      BY <1>1, <3>1, EventTime, Zenon DEF Wait, TypeOK
    <3>4. deadline' = micros + (f.time - now)
      BY <1>1, <3>1, <3>2, Zenon DEF Wait
    <3>5. deadline' >= 0
      BY <3>3, <3>4 DEF TypeOK
    <3>6. First(events) <= e.time
      BY <3>1, FirstLeast, EventTime, Zenon DEF TypeOK
    <3>7. UNCHANGED <<now, micros>>
      BY <1>1, Zenon DEF Wait, clock
    <3> QED BY <3>1, <3>2, <3>3, <3>4, <3>5, <3>6, <3>7 DEF NoDeadline, TypeOK
  <2> QED BY <1>1, <2>1, Zenon DEF Wait
<1>2. CASE Sleep
  BY <1>2, FirstLeast, EventTime, Zenon DEF Sleep, TypeOK
<1>3. CASE CycleTick
  BY <1>3, Zenon DEF CycleTick
<1>4. CASE Loop
  <2>1. ASSUME NEW e \in events, HandleEvents(e) PROVE Waits'
    BY <2>1, Zenon DEF HandleEvents
  <2>2. ASSUME NEW c \in Callers, Restart(c) PROVE Waits'
    BY <2>2, Zenon DEF Restart
  <2>3. CASE Top \/ Timeout \/ RunNoop \/ RunWake
    BY <2>3, Zenon DEF Top, Timeout, RunNoop, RunWake
  <2>4. CASE RunPoll
    BY <2>4, Zenon DEF RunPoll
  <2> QED BY <1>1, <1>2, <1>3, <1>4, <2>1, <2>2, <2>3, <2>4, Zenon DEF Loop
<1>5. ASSUME NEW t \in Tasks, NEW d \in 1 .. MaxDue, Spawn(t, d) PROVE Waits'
  <2> DEFINE e == Event(0, "poll", t)
  <2>1. e \in EventSet /\ e.time = 0 /\ Push(e) /\ WakeLoop(e)
    BY <1>5, NewEvents, Zenon DEF Spawn, Event
  <2> HIDE DEF e
  <2> QED BY <2>1, PushWaits, Zenon
<1>6. ASSUME NEW c \in Callers, QueueNoop(c) PROVE Waits'
  <2> DEFINE e == Event(0, "noop", c)
  <2>1. e \in EventSet /\ e.time = 0 /\ Push(e) /\ WakeLoop(e)
    BY <1>6, NewEvents, Zenon DEF QueueNoop, Event
  <2> HIDE DEF e
  <2> QED BY <2>1, PushWaits, Zenon
<1>7. ASSUME NEW c \in Callers, Sync(c) \/ SetFlag(c) PROVE Waits'
  BY <1>7, Zenon DEF Sync, SetFlag, clock
<1>8. CASE MicroTick
  <2>1. NextEventCovers'
    BY <1>8, Zenon DEF MicroTick
  <2>2. ASSUME pc' = "wait", NEW e \in events'
        PROVE  e.time > now' /\ deadline' # NoDeadline /\ deadline' - micros' <= e.time - now'
    <3>1. e \in events /\ pc = "wait" /\ UNCHANGED <<now, deadline>> /\ micros' = micros + 1
      BY <1>8, <2>2, Zenon DEF MicroTick
    <3>2. e.time \in Nat /\ now \in Nat /\ micros \in Nat
      BY <3>1, EventTime, Zenon DEF TypeOK
    <3>3. deadline \in Nat /\ e.time > now /\ deadline - micros <= e.time - now
      BY <3>1, Zenon DEF TypeOK
    <3> QED BY <3>1, <3>2, <3>3 DEF NoDeadline
  <2> QED BY <2>1, <2>2, Zenon
<1>9. CASE UNCHANGED vars
  BY <1>9, Zenon DEF vars, clock
<1> QED BY <1>4, <1>5, <1>6, <1>7, <1>8, <1>9, Zenon DEF Next, Caller

LEMMA AlwaysWaits == Spec => [](TypeOK /\ Modal /\ Waits)
<1>1. Init => Waits
  BY Zenon DEF Init, Waits, NextEventCovers, WaitBounded
<1> QED BY <1>1, InitType, TypeNext, WaitsNext, PTL DEF Spec

\* The loop never sleeps over an event: in event_loop_wait, next_event is no
\* later than any event in the heap (queue, event_loop).
THEOREM SleepCovers == Spec => []NextEventCovers
<1>1. Waits => NextEventCovers
  BY Zenon DEF Waits
<1> QED BY <1>1, AlwaysWaits, PTL

\* The loop blocks on its condition variable only if nothing was due, and with
\* a time limit that every pending event bounds (queue, event_loop).
THEOREM WaitCovers == Spec => []WaitBounded
<1>1. Waits => WaitBounded
  BY Zenon DEF Waits
<1> QED BY <1>1, AlwaysWaits, PTL

\* The two together: in either mode every event of the heap bounds how long
\* the loop sleeps (queue, event_loop, event_loop_wait).
THEOREM SleepIsBounded == Spec => []SleepBounded
BY SleepCovers, WaitCovers, PTL DEF SleepBounded

\* Events are on time in lockstep mode: after a cycle that leaves the loop
\* in event_loop_wait no event is due (event_loop_wait, queue).
THEOREM OnTime == Spec => EventsOnTime
<1> DEFINE A == cycle' = cycle + 1 /\ pc = "sleep" /\ pc' = "sleep"
                  => \A e \in events' : e.time > cycle'
<1>1. TypeOK /\ Modal /\ Waits /\ [Next]_vars => [A]_vars
  <2> SUFFICES ASSUME TypeOK, Modal, Waits, Next,
                      cycle' = cycle + 1, pc = "sleep", pc' = "sleep",
                      NEW e \in events'
               PROVE  e.time > cycle'
    BY Zenon
  <2>1. cycle' # cycle
    BY DEF TypeOK
  <2>2. CycleTick
    <3>1. ~threaded
      BY Zenon DEF Modal
    <3>2. CASE Loop
      BY <3>2, Zenon DEF Loop, Top, HandleEvents, Wait, Sleep, Timeout, RunNoop, RunPoll,
                  RunWake, Restart
    <3>3. ASSUME NEW t \in Tasks, NEW d \in 1 .. MaxDue, Spawn(t, d) PROVE FALSE
      BY <2>1, <3>3, Zenon DEF Spawn, clock
    <3>4. ASSUME NEW c \in Callers, Caller(c) PROVE FALSE
      BY <2>1, <3>1, <3>4, Zenon DEF Caller, Sync, SetFlag, QueueNoop, clock
    <3>5. ~MicroTick
      BY <2>1, Zenon DEF MicroTick
    <3> QED BY <3>2, <3>3, <3>4, <3>5, Zenon DEF Next
  <2>3. e \in events /\ next_event <= e.time /\ cycle' < next_event
    BY <2>2 DEF CycleTick, Waits, NextEventCovers, TypeOK
  <2>4. e.time \in Nat
    BY <2>3, EventTime, Zenon DEF TypeOK
  <2> QED BY <2>3, <2>4 DEF TypeOK
<1>2. Spec => [][A]_vars
  BY <1>1, AlwaysWaits, PTL DEF Spec
<1> QED BY <1>2, Zenon DEF EventsOnTime

=============================================================================
