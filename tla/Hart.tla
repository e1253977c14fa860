------------------------------- MODULE Hart -------------------------------
(***************************************************************************)
(* How a hart learns of interrupts, tasks and shutdowns (SharedContext,    *)
(* check_interrupt, trap and the privileged operations of                  *)
(* src/emu/interp.rs).  Other threads set bits of mip and then fire an     *)
(* alarm; translated code tests only the alarm word at the end of a block, *)
(* so every operation that may make an interrupt takeable has to alert.    *)
(*                                                                         *)
(* One hart; the actors are the devices, the other harts and main.         *)
(* fire_alarm and wait_alarm are critical sections of wfi_mutex and single *)
(* steps here; module FiberSync is about that mutex and condition          *)
(* variable.  Privileged instructions are executed at their level only;    *)
(* the exception, one that is fused with a branch, is in Csr.              *)
(***************************************************************************)
EXTENDS Integers, FiniteSets

CONSTANTS Actors,     \* threads other than the hart's
          Irqs,       \* interrupt numbers in use, out of {1,3,5,7,9,11}
          Firmware,   \* whether machine-mode firmware runs (CONFIG.firmware)
          MaxStops    \* bound: shutdowns

ASSUME IrqsAssumption == Irqs \subseteq {1, 3, 5, 7, 9, 11}
ASSUME FirmwareAssumption == Firmware \in BOOLEAN
ASSUME StopsAssumption == MaxStops \in Nat

VARIABLES
  prv,       \* Context.prv: 0 user, 1 supervisor, 3 machine
  mstatus,   \* Context.mstatus: the interrupt-enable stack
  mie,       \* Context.mie
  mideleg,   \* Context.mideleg
  mip,       \* SharedContext.mip
  alarm,     \* SharedContext.alarm: "intr" is 1, "stop" is 2
  tasks,     \* SharedContext.tasks, by the actor that pushed them
  pc,        \* where the hart is, see Place
  csr,       \* the value a write to Mip has yet to assert
  actor,     \* whether an actor has yet to alert
  stops      \* shutdowns so far

csrs == <<prv, mstatus, mie, mideleg>>
vars == <<csrs, mip, alarm, tasks, pc, csr, actor, stops>>

(***************************************************************************)
(* run: in a block;  assert: in a write to Mip;  recheck: about to look at *)
(* interrupt_pending;  fire: about to alert itself;  fault: about to call  *)
(* check_interrupt after a fetch fault;  drain, take: in check_interrupt;  *)
(* wfi: waiting in wait_alarm;  exited: returned to main                   *)
(***************************************************************************)
Place == {"run", "assert", "recheck", "fire", "fault", "drain", "take", "wfi", "exited"}

\* The fields of mstatus that are about interrupts.
Status == [MIE : BOOLEAN, SIE : BOOLEAN, MPIE : BOOLEAN, SPIE : BOOLEAN,
           MPP : {0, 1, 3}, SPP : {0, 1}]

\* The interrupts of supervisor level, 0x222.
SLevel == Irqs \cap {1, 5, 9}

Init ==
  /\ prv = IF Firmware THEN 3 ELSE 1
  /\ mstatus = [MIE |-> FALSE, SIE |-> FALSE, MPIE |-> FALSE, SPIE |-> FALSE,
                MPP |-> 0, SPP |-> 0]
  /\ mie = {}
  /\ mideleg = IF Firmware THEN {} ELSE SLevel
  /\ mip = {} /\ alarm = {} /\ tasks = {}
  /\ pc = "run" /\ csr = {}
  /\ actor = [a \in Actors |-> "idle"]
  /\ stops = 0

\* interrupt_pending
MPending == IF prv # 3 \/ mstatus.MIE THEN (mip \cap mie) \ mideleg ELSE {}

SPending ==
  IF prv = 0 \/ (prv = 1 /\ mstatus.SIE) THEN mip \cap mie \cap mideleg ELSE {}

Pending == MPending \cup SPending

\* The highest bit of a mask.
Highest(S) == CHOOSE i \in S : \A j \in S : j <= i

-----------------------------------------------------------------------------
(* Other threads *)

\* Mutant: the waiting hart is not notified.
FireNoNotify(mask) ==
  /\ alarm' = alarm \cup mask
  /\ UNCHANGED pc

\* fire_alarm, by a thread other than the hart's.
Fire(mask) ==
  /\ alarm' = alarm \cup mask
  /\ pc' = IF pc = "wfi" THEN "run" ELSE pc

\* Mutant: no alert if any other interrupt was pending already.
AssertOnlyFirst(a, i) ==
  /\ actor[a] = "idle"
  /\ actor' = [actor EXCEPT ![a] = IF mip # {} THEN "idle" ELSE "alert"]
  /\ mip' = mip \cup {i}
  /\ UNCHANGED <<csrs, alarm, tasks, pc, csr, stops>>

\* assert, up to the alert.
Assert(a, i) ==
  /\ actor[a] = "idle"
  /\ actor' = [actor EXCEPT ![a] = IF i \in mip THEN "idle" ELSE "alert"]
  /\ mip' = mip \cup {i}
  /\ UNCHANGED <<csrs, alarm, tasks, pc, csr, stops>>

\* deassert
Deassert(a, i) ==
  /\ actor[a] = "idle"
  /\ mip' = mip \ {i}
  /\ UNCHANGED <<csrs, alarm, tasks, pc, csr, actor, stops>>

\* Mutant: the task is pushed without an alert.
RunOnSilent(a) ==
  /\ actor[a] = "idle"
  /\ tasks' = tasks \cup {a}
  /\ UNCHANGED <<csrs, mip, alarm, pc, csr, actor, stops>>

\* run_on, up to the alert.
RunOn(a) ==
  /\ actor[a] = "idle" /\ actor' = [actor EXCEPT ![a] = "alert"]
  /\ tasks' = tasks \cup {a}
  /\ UNCHANGED <<csrs, mip, alarm, pc, csr, stops>>

\* alert, after assert or run_on.
Alert(a) ==
  /\ actor[a] = "alert" /\ actor' = [actor EXCEPT ![a] = "idle"]
  /\ Fire({"intr"})
  /\ UNCHANGED <<csrs, mip, tasks, csr, stops>>

\* shutdown
Shutdown(a) ==
  /\ actor[a] = "idle" /\ stops < MaxStops
  /\ stops' = stops + 1
  /\ Fire({"stop"})
  /\ UNCHANGED <<csrs, mip, tasks, csr, actor>>

-----------------------------------------------------------------------------
(* The hart's own control and status registers *)

Keep == UNCHANGED <<alarm, tasks, actor, stops>>

\* write_csr, Sstatus.
WriteSstatus(sie, spie, spp) ==
  /\ pc = "run" /\ prv # 0
  /\ mstatus' = [mstatus EXCEPT !.SIE = sie, !.SPIE = spie, !.SPP = spp]
  /\ pc' = "recheck"
  /\ UNCHANGED <<prv, mie, mideleg, mip, csr>> /\ Keep

\* write_csr, Mstatus; MPP is never 2, which Mret asserts.
WriteMstatus(v) ==
  /\ pc = "run" /\ prv = 3
  /\ mstatus' = v
  /\ pc' = "recheck"
  /\ UNCHANGED <<prv, mie, mideleg, mip, csr>> /\ Keep

\* Mutant: the interrupts just enabled are not looked at.
WriteSieSilent(v) ==
  /\ pc = "run" /\ prv # 0
  /\ mie' = (mie \ mideleg) \cup (v \cap mideleg)
  /\ UNCHANGED <<pc, prv, mstatus, mideleg, mip, csr>> /\ Keep

\* write_csr, Sie.
WriteSie(v) ==
  /\ pc = "run" /\ prv # 0
  /\ mie' = (mie \ mideleg) \cup (v \cap mideleg)
  /\ pc' = "recheck"
  /\ UNCHANGED <<prv, mstatus, mideleg, mip, csr>> /\ Keep

\* write_csr, Mie.
WriteMie(v) ==
  /\ pc = "run" /\ prv = 3
  /\ mie' = v
  /\ pc' = "recheck"
  /\ UNCHANGED <<prv, mstatus, mideleg, mip, csr>> /\ Keep

\* Mutant: machine-level interrupts can be delegated as well.
WriteMidelegUnmasked(v) ==
  /\ pc = "run" /\ prv = 3
  /\ mideleg' = v
  /\ pc' = "recheck"
  /\ UNCHANGED <<prv, mstatus, mie, mip, csr>> /\ Keep

\* write_csr, Mideleg.
WriteMideleg(v) ==
  /\ pc = "run" /\ prv = 3
  /\ mideleg' = v \cap SLevel
  /\ pc' = "recheck"
  /\ UNCHANGED <<prv, mstatus, mie, mip, csr>> /\ Keep

\* write_csr, Sip, and the SBI calls that clear and send an IPI, which machine
\* mode may make without delegation.
WriteSip(set) ==
  /\ pc = "run" /\ 1 \in Irqs
  /\ (prv # 0 /\ 1 \in mideleg) \/ prv = 3
  /\ mip' = IF set THEN mip \cup {1} ELSE mip \ {1}
  /\ pc' = IF set /\ 1 \notin mip THEN "fire" ELSE "run"
  /\ UNCHANGED <<csrs, csr>> /\ Keep

\* write_csr, Mip: deassert ...
WriteMip(v) ==
  /\ pc = "run" /\ prv = 3
  /\ mip' = mip \ (SLevel \ v)
  /\ csr' = v \cap SLevel /\ pc' = "assert"
  /\ UNCHANGED csrs /\ Keep

\* ... and assert.
AssertMip ==
  /\ pc = "assert"
  /\ mip' = mip \cup csr
  /\ csr' = {} /\ pc' = IF csr \subseteq mip THEN "run" ELSE "fire"
  /\ UNCHANGED csrs /\ Keep

(***************************************************************************)
(* The look at interrupt_pending that ends the writes above, Mret and      *)
(* Sret.  The fire_alarm(0) of recheck_interrupt is left out: it can only  *)
(* wake a hart that waits, and this one is executing the write.            *)
(***************************************************************************)
Recheck ==
  /\ pc = "recheck"
  /\ pc' = IF Pending # {} THEN "fire" ELSE "run"
  /\ UNCHANGED <<csrs, mip, csr>> /\ Keep

\* The hart alerts itself.
FireSelf ==
  /\ pc = "fire" /\ pc' = "run"
  /\ alarm' = alarm \cup {"intr"}
  /\ UNCHANGED <<csrs, mip, tasks, csr, actor, stops>>

-----------------------------------------------------------------------------
(* Traps *)

\* Mutant: SIE is left set in the handler.
TrapToSKeepsSIE ==
  /\ mstatus' = [mstatus EXCEPT !.SPP = IF prv # 0 THEN 1 ELSE 0, !.SPIE = mstatus.SIE]
  /\ prv' = 1

\* trap, delegated to supervisor mode.
TrapToS ==
  /\ mstatus' = [mstatus EXCEPT !.SPP = IF prv # 0 THEN 1 ELSE 0,
                                !.SPIE = mstatus.SIE, !.SIE = FALSE]
  /\ prv' = 1

\* trap, to machine mode.
TrapToM ==
  /\ mstatus' = [mstatus EXCEPT !.MPP = prv, !.MPIE = mstatus.MIE, !.MIE = FALSE]
  /\ prv' = 3

(***************************************************************************)
(* An exception; medeleg may send it to either mode, unless everything is  *)
(* delegated.  After a fault of the instruction fetch find_block calls     *)
(* check_interrupt without a look at the alarm word.                       *)
(***************************************************************************)
Exception(next) ==
  /\ pc = "run" /\ pc' = next
  /\ (prv # 3 /\ TrapToS) \/ (Firmware /\ TrapToM)
  /\ UNCHANGED <<mie, mideleg, mip, csr>> /\ Keep

\* Mutant: no look at the interrupts that the return has enabled.
SretSilent ==
  /\ pc = "run" /\ prv # 0
  /\ prv' = mstatus.SPP
  /\ mstatus' = [mstatus EXCEPT !.SIE = mstatus.SPIE, !.SPIE = TRUE, !.SPP = 0]
  /\ UNCHANGED <<pc, mie, mideleg, mip, csr>> /\ Keep

\* step, Sret.
Sret ==
  /\ pc = "run" /\ prv # 0
  /\ prv' = mstatus.SPP
  /\ mstatus' = [mstatus EXCEPT !.SIE = mstatus.SPIE, !.SPIE = TRUE, !.SPP = 0]
  /\ pc' = "recheck"
  /\ UNCHANGED <<mie, mideleg, mip, csr>> /\ Keep

\* step, Mret.
Mret ==
  /\ pc = "run" /\ prv = 3
  /\ prv' = mstatus.MPP
  /\ mstatus' = [mstatus EXCEPT !.MIE = mstatus.MPIE, !.MPIE = TRUE, !.MPP = 0]
  /\ pc' = "recheck"
  /\ UNCHANGED <<mie, mideleg, mip, csr>> /\ Keep

-----------------------------------------------------------------------------
(* check_interrupt *)

\* Take the alarm word; a shutdown returns to main at once.
Swap ==
  /\ (pc = "run" /\ alarm # {}) \/ pc = "fault"
  /\ alarm' = {}
  /\ pc' = IF "stop" \in alarm THEN "exited" ELSE "drain"
  /\ UNCHANGED <<csrs, mip, tasks, csr, actor, stops>>

\* Run the tasks.
Drain ==
  /\ pc = "drain" /\ pc' = "take"
  /\ tasks' = {}
  /\ UNCHANGED <<csrs, mip, alarm, csr, actor, stops>>

\* Take the interrupt of highest number, if any.
Take ==
  /\ pc = "take" /\ pc' = "run"
  /\ \/ Pending = {} /\ UNCHANGED <<prv, mstatus>>
     \/ /\ Pending # {}
        /\ IF prv # 3 /\ Highest(Pending) \in mideleg THEN TrapToS ELSE TrapToM
  /\ UNCHANGED <<mie, mideleg, mip, csr>> /\ Keep

\* Mutant: the alarm word is not looked at before waiting.
WfiUnchecked ==
  /\ pc = "run" /\ prv # 0
  /\ pc' = "wfi"
  /\ UNCHANGED <<csrs, mip, csr>> /\ Keep

\* step, Wfi: wait_alarm.
Wfi ==
  /\ pc = "run" /\ prv # 0 /\ alarm = {}
  /\ pc' = "wfi"
  /\ UNCHANGED <<csrs, mip, csr>> /\ Keep

\* Mutant: main does not alert the harts when it starts them again.
RestartSilent ==
  /\ pc = "exited" /\ pc' = "run"
  /\ UNCHANGED <<csrs, mip, alarm, tasks, csr, actor, stops>>

\* main alerts the hart and runs it again.
Restart ==
  /\ pc = "exited" /\ pc' = "run"
  /\ alarm' = alarm \cup {"intr"}
  /\ UNCHANGED <<csrs, mip, tasks, csr, actor, stops>>

-----------------------------------------------------------------------------

Others(a) ==
  \/ \E i \in Irqs : Assert(a, i) \/ Deassert(a, i)
  \/ RunOn(a) \/ Alert(a) \/ Shutdown(a)

Guest ==
  \/ \E sie, spie \in BOOLEAN, spp \in {0, 1} : WriteSstatus(sie, spie, spp)
  \/ \E v \in Status : WriteMstatus(v)
  \/ \E v \in SUBSET Irqs : WriteSie(v) \/ WriteMie(v) \/ WriteMideleg(v) \/ WriteMip(v)
  \/ \E b \in BOOLEAN : WriteSip(b)
  \/ Exception("run") \/ Exception("fault") \/ Sret \/ Mret \/ Wfi

Finish == AssertMip \/ Recheck \/ FireSelf \/ Drain \/ Take \/ Restart

Next == Guest \/ Finish \/ Swap \/ \E a \in Actors : Others(a)

Spec == Init /\ [][Next]_vars

(***************************************************************************)
(* An operation that has begun ends, main runs the harts again, and blocks *)
(* are finite and end with a test of the alarm word, so a hart that keeps  *)
(* executing gets to that test again and again.                            *)
(***************************************************************************)
FairSpec ==
  /\ Spec
  /\ WF_vars(Finish) /\ SF_vars(Swap)
  /\ \A a \in Actors : WF_vars(Alert(a))

-----------------------------------------------------------------------------

TypeOK ==
  /\ prv \in {0, 1, 3}
  /\ mstatus \in Status
  /\ mie \subseteq Irqs /\ mip \subseteq Irqs
  /\ mideleg \subseteq SLevel
  /\ alarm \subseteq {"intr", "stop"}
  /\ tasks \subseteq Actors
  /\ pc \in Place
  /\ csr \subseteq SLevel
  /\ actor \in [Actors -> {"idle", "alert"}]
  /\ stops \in 0 .. MaxStops

Quiet == \A a \in Actors : actor[a] = "idle"

(***************************************************************************)
(* A delegated interrupt that can be taken is never overlooked: when no    *)
(* thread is between setting mip and its alert, a hart that runs guest     *)
(* code or waits in WFI with such an interrupt has an alarm bit set and is *)
(* not waiting.  Without firmware all interrupts are delegated.            *)
(***************************************************************************)
InterruptSeen ==
  pc \in {"run", "wfi"} /\ Quiet /\ SPending # {} => alarm # {} /\ pc = "run"

(***************************************************************************)
(* A task queued by run_on is never overlooked, not even if the hart took  *)
(* a shutdown instead: when run_on has returned, a hart that runs or waits *)
(* has an alarm bit set and is not waiting.                                *)
(***************************************************************************)
TaskSeen ==
  pc \in {"run", "wfi"} /\ Quiet /\ tasks # {} => alarm # {} /\ pc = "run"

(***************************************************************************)
(* A hart that runs or waits overlooks neither.                            *)
(***************************************************************************)
NothingOverlooked == InterruptSeen /\ TaskSeen

(***************************************************************************)
(* A delegated interrupt that can be taken does not stay so: it is taken,  *)
(* masked or withdrawn.                                                    *)
(***************************************************************************)
InterruptTaken == SPending # {} ~> SPending = {}

(***************************************************************************)
(* Every task is run (icache_invalidate waits for none, but relies on it). *)
(***************************************************************************)
TasksRun == \A a \in Actors : a \in tasks ~> a \notin tasks

(***************************************************************************)
(* A hart that is told to shut down returns to main, also out of WFI.      *)
(***************************************************************************)
StopObeyed == "stop" \in alarm ~> pc = "exited"

(***************************************************************************)
(* "Re-check interrupt status, potentially wake up WFI" (interp.rs:327,    *)
(* where an interrupt that is enabled in mie but masked in mstatus also    *)
(* wakes the hart): a hart does not wait in WFI with such an interrupt.    *)
(***************************************************************************)
WfiEnds == pc = "wfi" /\ Quiet => mip \cap mie = {}
=============================================================================
