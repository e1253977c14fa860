---------------------------- MODULE HartProofs ----------------------------
(***************************************************************************)
(* No interrupt and no task is overlooked by the hart, for any number of   *)
(* other threads, any interrupts, with firmware or without; and the pins   *)
(* of its core-local interruptor, for any number of writing harts and any  *)
(* length of time.                                                         *)
(***************************************************************************)
EXTENDS Hart, Clint, TLAPS

\* An alarm bit is set, or the thread that owes it is about to set it.
Owed == alarm # {} \/ \E a \in Actors : actor[a] = "alert"

\* The inductive invariant.  It also speaks of the states in which a thread
\* is between its change of mip or tasks and the alert, and of those of the
\* hart's own operations.
Seen ==
  /\ pc = "wfi" => alarm = {}
  /\ tasks # {} /\ pc \notin {"drain", "exited"} => Owed
  /\ SPending # {} /\ pc \in {"run", "wfi", "assert"} => Owed

-----------------------------------------------------------------------------
(* Types *)

LEMMA InitType == Init => TypeOK
<1> SUFFICES ASSUME Init PROVE TypeOK
  BY Zenon
<1>1. mstatus \in Status /\ prv \in {0, 1, 3}
  BY Zenon DEF Init, Status
<1>2. mideleg \subseteq SLevel
  BY FirmwareAssumption, Zenon DEF Init
<1>3. stops \in 0 .. MaxStops
  BY StopsAssumption DEF Init
<1>4. actor \in [Actors -> {"idle", "alert"}]
  BY Zenon DEF Init
<1> QED BY <1>1, <1>2, <1>3, <1>4, Zenon DEF Init, TypeOK, Place

LEMMA TrapType ==
  ASSUME TypeOK, TrapToS \/ TrapToM
  PROVE  mstatus' \in Status /\ prv' \in {0, 1, 3}
<1>1. CASE TrapToS
  BY <1>1, Zenon DEF TypeOK, TrapToS, Status
<1>2. CASE TrapToM
  BY <1>2, Zenon DEF TypeOK, TrapToM, Status
<1> QED BY <1>1, <1>2, Zenon

LEMMA OthersType ==
  ASSUME TypeOK, NEW a \in Actors, Others(a) PROVE TypeOK'
<1> USE DEF TypeOK, csrs, Place
<1>1. ASSUME NEW i \in Irqs, Assert(a, i) PROVE TypeOK'
  BY <1>1, Zenon DEF Assert
<1>2. ASSUME NEW i \in Irqs, Deassert(a, i) PROVE TypeOK'
  BY <1>2, Zenon DEF Deassert
<1>3. CASE RunOn(a)
  BY <1>3, Zenon DEF RunOn
<1>4. CASE Alert(a)
  BY <1>4, Zenon DEF Alert, Fire
<1>5. CASE Shutdown(a)
  BY <1>5, StopsAssumption DEF Shutdown, Fire
<1> QED BY <1>1, <1>2, <1>3, <1>4, <1>5, Zenon DEF Others

LEMMA GuestType == ASSUME TypeOK, Guest PROVE TypeOK'
<1> USE DEF TypeOK, csrs, Place, Keep
<1>1. ASSUME NEW sie \in BOOLEAN, NEW spie \in BOOLEAN, NEW spp \in {0, 1},
             WriteSstatus(sie, spie, spp)
      PROVE  TypeOK'
  BY <1>1, Zenon DEF WriteSstatus, Status
<1>2. ASSUME NEW v \in Status, WriteMstatus(v) PROVE TypeOK'
  BY <1>2, Zenon DEF WriteMstatus
<1>3. ASSUME NEW v \in SUBSET Irqs, WriteSie(v) \/ WriteMie(v) PROVE TypeOK'
  BY <1>3, Zenon DEF WriteSie, WriteMie, SLevel
<1>4. ASSUME NEW v \in SUBSET Irqs, WriteMideleg(v) \/ WriteMip(v) PROVE TypeOK'
  BY <1>4, Zenon DEF WriteMideleg, WriteMip
<1>5. ASSUME NEW b \in BOOLEAN, WriteSip(b) PROVE TypeOK'
  BY <1>5, Zenon DEF WriteSip
<1>6. CASE Exception("run") \/ Exception("fault")
  BY <1>6, TrapType, Zenon DEF Exception
<1>7. CASE Sret
  BY <1>7, Zenon DEF Sret, Status
<1>8. CASE Mret
  BY <1>8, Zenon DEF Mret, Status
<1>9. CASE Wfi
  BY <1>9, Zenon DEF Wfi
<1> QED BY <1>1, <1>2, <1>3, <1>4, <1>5, <1>6, <1>7, <1>8, <1>9, Zenon DEF Guest

LEMMA FinishType == ASSUME TypeOK, Finish \/ Swap PROVE TypeOK'
<1> USE DEF TypeOK, csrs, Place, Keep
<1>1. CASE AssertMip
  BY <1>1, Zenon DEF AssertMip, SLevel
<1>2. CASE Recheck \/ FireSelf
  BY <1>2, Zenon DEF Recheck, FireSelf
<1>3. CASE Swap \/ Drain
  BY <1>3, Zenon DEF Swap, Drain
<1>4. CASE Take
  <2>1. mstatus' \in Status /\ prv' \in {0, 1, 3}
    BY <1>4, TrapType, Zenon DEF Take
  <2> QED BY <1>4, <2>1, Zenon DEF Take
<1>5. CASE Restart
  BY <1>5, Zenon DEF Restart
<1> QED BY <1>1, <1>2, <1>3, <1>4, <1>5, Zenon DEF Finish

LEMMA TypeNext == TypeOK /\ [Next]_vars => TypeOK'
<1> SUFFICES ASSUME TypeOK, [Next]_vars PROVE TypeOK'
  BY Zenon
<1>1. CASE UNCHANGED vars
  BY <1>1, Zenon DEF vars, csrs, TypeOK
<1> QED BY <1>1, OthersType, GuestType, FinishType, Zenon DEF Next

\* Type correctness of the hart's interrupt state (write_csr, trap, assert).
THEOREM TypeCorrect == Spec => []TypeOK
BY InitType, TypeNext, PTL DEF Spec

-----------------------------------------------------------------------------
(* Interrupts and tasks *)

\* In a handler just entered no delegated interrupt can be taken.
LEMMA TrapMasks ==
  ASSUME TypeOK, TrapToS \/ TrapToM PROVE SPending' = {}
<1>1. CASE TrapToS
  <2>1. prv' = 1 /\ mstatus'.SIE = FALSE
    BY <1>1, Zenon DEF TrapToS, TypeOK, Status
  <2> QED BY <2>1 DEF SPending
<1>2. CASE TrapToM
  BY <1>2 DEF TrapToM, SPending
<1> QED BY <1>1, <1>2, Zenon

\* An alert pays what is owed.
LEMMA FireSeen ==
  ASSUME Seen, NEW mask, mask # {}, Fire(mask), UNCHANGED tasks PROVE Seen'
<1>1. Owed' /\ pc' # "wfi"
  BY Zenon DEF Fire, Owed
<1> QED BY <1>1, Zenon DEF Seen

LEMMA OthersSeen ==
  ASSUME TypeOK, Seen, NEW a \in Actors, Others(a) PROVE Seen'
<1>1. ASSUME NEW i \in Irqs, Assert(a, i) PROVE Seen'
  <2>1. CASE i \in mip
    <3>1. mip' = mip /\ actor' = actor
      BY <1>1, <2>1, Zenon DEF Assert, TypeOK
    <3> QED BY <1>1, <3>1, Zenon DEF Assert, Seen, Owed, SPending, csrs
  <2>2. CASE i \notin mip
    <3>1. Owed'
      BY <1>1, <2>2, Zenon DEF Assert, Owed, TypeOK
    <3> QED BY <1>1, <3>1, Zenon DEF Assert, Seen
  <2> QED BY <2>1, <2>2, Zenon
<1>2. ASSUME NEW i \in Irqs, Deassert(a, i) PROVE Seen'
  BY <1>2, Zenon DEF Deassert, Seen, Owed, SPending, csrs
<1>3. CASE RunOn(a)
  <2>1. Owed'
    BY <1>3, Zenon DEF RunOn, Owed, TypeOK
  <2> QED BY <1>3, <2>1, Zenon DEF RunOn, Seen
<1>4. CASE Alert(a)
  BY <1>4, FireSeen, {"intr"} # {}, Zenon DEF Alert
<1>5. CASE Shutdown(a)
  BY <1>5, FireSeen, {"stop"} # {}, Zenon DEF Shutdown
<1> QED BY <1>1, <1>2, <1>3, <1>4, <1>5, Zenon DEF Others

LEMMA GuestSeen == ASSUME TypeOK, Seen, Guest PROVE Seen'
<1>1. ASSUME Keep, pc = "run", pc' = "recheck" PROVE Seen'
  BY <1>1, Zenon DEF Keep, Seen, Owed
<1>2. ASSUME NEW sie \in BOOLEAN, NEW spie \in BOOLEAN, NEW spp \in {0, 1},
             WriteSstatus(sie, spie, spp)
      PROVE  Seen'
  BY <1>1, <1>2, Zenon DEF WriteSstatus
<1>3. ASSUME NEW v \in Status, WriteMstatus(v) PROVE Seen'
  BY <1>1, <1>3, Zenon DEF WriteMstatus
<1>4. ASSUME NEW v \in SUBSET Irqs, WriteSie(v) \/ WriteMie(v) \/ WriteMideleg(v)
      PROVE  Seen'
  BY <1>1, <1>4, Zenon DEF WriteSie, WriteMie, WriteMideleg
<1>5. ASSUME NEW v \in SUBSET Irqs, WriteMip(v) PROVE Seen'
  BY <1>5, Zenon DEF WriteMip, Keep, Seen, Owed, SPending, csrs
<1>6. ASSUME NEW b \in BOOLEAN, WriteSip(b) PROVE Seen'
  <2>1. CASE pc' = "fire"
    BY <1>6, <2>1, Zenon DEF WriteSip, Keep, Seen, Owed
  <2>2. CASE pc' = "run"
    <3>1. mip' \subseteq mip
      BY <1>6, <2>2, Zenon DEF WriteSip
    <3> QED BY <1>6, <2>2, <3>1, Zenon DEF WriteSip, Keep, Seen, Owed, SPending, csrs
  <2> QED BY <1>6, <2>1, <2>2, Zenon DEF WriteSip
<1>7. ASSUME NEW p \in {"run", "fault"}, Exception(p) PROVE Seen'
  <2>1. SPending' = {}
    BY <1>7, TrapMasks, Zenon DEF Exception
  <2> QED BY <1>7, <2>1, Zenon DEF Exception, Keep, Seen, Owed
<1>8. CASE Sret \/ Mret
  BY <1>1, <1>8, Zenon DEF Sret, Mret
<1>9. CASE Wfi
  BY <1>9, Zenon DEF Wfi, Keep, Seen, Owed, SPending, csrs
<1> QED BY <1>2, <1>3, <1>4, <1>5, <1>6, <1>7, <1>8, <1>9, Zenon DEF Guest

LEMMA FinishSeen == ASSUME TypeOK, Seen, Finish \/ Swap PROVE Seen'
<1>1. CASE AssertMip
  <2>1. CASE csr \subseteq mip
    <3>1. mip' = mip
      BY <1>1, <2>1, Zenon DEF AssertMip
    <3> QED BY <1>1, <3>1, Zenon DEF AssertMip, Keep, Seen, Owed, SPending, csrs
  <2>2. CASE ~(csr \subseteq mip)
    BY <1>1, <2>2, Zenon DEF AssertMip, Keep, Seen, Owed
  <2> QED BY <2>1, <2>2, Zenon
<1>2. CASE Recheck
  BY <1>2, Zenon DEF Recheck, Keep, Seen, Owed, Pending, SPending, csrs
<1>3. CASE FireSelf \/ Restart
  <2>1. Owed' /\ pc' = "run"
    BY <1>3, Zenon DEF FireSelf, Restart, Owed
  <2> QED BY <2>1, Zenon DEF Seen
<1>4. CASE Swap
  BY <1>4, Zenon DEF Swap, Seen
<1>5. CASE Drain
  BY <1>5, Zenon DEF Drain, Seen
<1>6. CASE Take
  <2>1. SPending' = {}
    <3>1. CASE Pending = {} /\ UNCHANGED <<prv, mstatus>>
      BY <1>6, <3>1, Zenon DEF Take, Pending, SPending
    <3>2. CASE TrapToS \/ TrapToM
      BY <3>2, TrapMasks, Zenon
    <3> QED BY <1>6, <3>1, <3>2, Zenon DEF Take
  <2> QED BY <1>6, <2>1, Zenon DEF Take, Keep, Seen, Owed
<1> QED BY <1>1, <1>2, <1>3, <1>4, <1>5, <1>6, Zenon DEF Finish

LEMMA SeenNext == TypeOK /\ Seen /\ [Next]_vars => Seen'
<1> SUFFICES ASSUME TypeOK, Seen, [Next]_vars PROVE Seen'
  BY Zenon
<1>1. CASE UNCHANGED vars
  BY <1>1, Zenon DEF vars, csrs, Seen, Owed, SPending
<1> QED BY <1>1, OthersSeen, GuestSeen, FinishSeen, Zenon DEF Next

LEMMA AlwaysSeen == Spec => []Seen
<1>1. Init => Seen
  BY Zenon DEF Init, Seen, SPending
<1>2. Spec => [](TypeOK /\ Seen)
  BY <1>1, InitType, TypeNext, SeenNext, PTL DEF Spec
<1> QED BY <1>2, PTL

\* No delegated interrupt that can be taken is overlooked by translated code
\* or slept over in WFI (assert, write_csr, Sret, Mret, check_interrupt).
THEOREM InterruptsSeen == Spec => []InterruptSeen
<1>1. Seen => InterruptSeen
  BY Zenon DEF Seen, InterruptSeen, Quiet, Owed
<1> QED BY <1>1, AlwaysSeen, PTL

\* No task queued by run_on is overlooked, across shutdowns and restarts
\* (run_on, check_interrupt, the loop of main).
THEOREM TasksSeen == Spec => []TaskSeen
<1>1. Seen => TaskSeen
  BY Zenon DEF Seen, TaskSeen, Quiet, Owed
<1> QED BY <1>1, AlwaysSeen, PTL

\* The two together, for any set of interrupts and of other threads.
THEOREM NothingIsOverlooked == Spec => []NothingOverlooked
BY InterruptsSeen, TasksSeen, PTL DEF NothingOverlooked

-----------------------------------------------------------------------------
(* The interruptor.  A high timer pin is justified at once (PinJustified),  *)
(* a low one by the timer that will raise it (PinAwaited).  That a pin is   *)
(* right again after a level that was overtaken needs more: the value in    *)
(* mtimecmp has its timer while it is to come, whatever the pin says, and   *)
(* no other timer takes that one away (CmpAwaited).                         *)

At == {"idle", "msip", "compare", "level", "spawn"}
Cmp == {"compare", "level", "spawn"}

ClintTypeOK ==
    /\ threaded \in BOOLEAN /\ now \in Nat /\ now <= MaxTime
    /\ msip \in BOOLEAN /\ msip_pin \in BOOLEAN
    /\ mtimecmp \in Nat /\ mtip_pin \in BOOLEAN
    /\ timers \in SUBSET Nat /\ fired \in {"no", "low", "high"}
    /\ writer \in [Harts -> [at : At, value : Nat, level : BOOLEAN]]
    /\ msip_stale \in BOOLEAN /\ mtip_stale \in BOOLEAN

\* A write that found its value due is right about that: time does not go back.
Writers ==
    \A h \in Harts :
      /\ writer[h].at = "level" /\ writer[h].level => writer[h].value <= now
      /\ writer[h].at = "idle" => writer[h] = Idle

\* In lockstep mode a level that is about to be set is still the right one.
InOrder ==
    ~threaded =>
      /\ ~msip_stale /\ ~mtip_stale
      /\ fired # "no" => /\ \A h \in Harts : writer[h] = Idle
                         /\ (fired = "high") <=> (mtimecmp <= now)
      /\ \A h \in Harts : writer[h].at = "msip" => writer[h].level = msip
      /\ \A h \in Harts : writer[h].at \in Cmp => writer[h].value = mtimecmp
      /\ \A h, k \in Harts : writer[h] # Idle /\ writer[k] # Idle => h = k

MsipSet == msip_stale \/ msip_pin = msip \/ \E h \in Harts : writer[h].at = "msip"

\* The write that stored the value of mtimecmp is at one of the points S.
Underway(S) == \E h \in Harts : writer[h].at \in S /\ writer[h].value = mtimecmp

PinJustified ==
    mtip_pin => mtip_stale \/ mtimecmp <= now \/ Underway({"compare", "level"})

\* Before its time has come a value has its timer, or will, even if the pin is wrong.
CmpAwaited ==
    mtimecmp > now => mtimecmp \in timers \/ mtimecmp > MaxTime \/ Underway(Cmp)

PinAwaited ==
    ~mtip_pin => \/ mtip_stale \/ fired = "high"
                 \/ mtimecmp \in timers \/ mtimecmp > MaxTime \/ Underway(Cmp)

ClintInv == /\ ClintTypeOK /\ Writers /\ InOrder
        /\ MsipSet /\ PinJustified /\ CmpAwaited /\ PinAwaited

-----------------------------------------------------------------------------
LEMMA ClintInitInv == ClintInit => ClintInv
<1> SUFFICES ASSUME ClintInit PROVE ClintInv
  BY Zenon
<1> USE TimeAssumption DEF ClintInit, Idle, Never
<1>1. ClintTypeOK
  <2>1. now \in Nat /\ now <= MaxTime /\ mtimecmp \in Nat /\ timers \in SUBSET Nat
    OBVIOUS
  <2>2. writer \in [Harts -> [at : At, value : Nat, level : BOOLEAN]]
    BY Zenon DEF At
  <2> QED BY <2>1, <2>2, Zenon DEF ClintTypeOK
<1>2. Writers /\ InOrder
  BY Zenon DEF Writers, InOrder, Cmp
<1>3. MsipSet /\ PinJustified
  BY Zenon DEF MsipSet, PinJustified
<1>4. CmpAwaited /\ PinAwaited
  <2>1. mtimecmp > MaxTime
    OBVIOUS
  <2> QED BY <2>1, Zenon DEF CmpAwaited, PinAwaited
<1> QED BY <1>1, <1>2, <1>3, <1>4, Zenon DEF ClintInv

\* What a step of a write does to the other writers: nothing.
LEMMA WritingStep ==
    ASSUME ClintTypeOK, NEW h \in Harts, NEW at \in At, NEW v \in Nat, NEW l \in BOOLEAN,
           Writing(h, at, v, l)
    PROVE  /\ writer' \in [Harts -> [at : At, value : Nat, level : BOOLEAN]]
           /\ writer'[h] = [at |-> at, value |-> v, level |-> l]
           /\ \A k \in Harts : k # h => writer'[k] = writer[k]
BY Zenon DEF ClintTypeOK, Writing

\* A step of hart h outside S, or within it, leaves a write of mtimecmp under way.
LEMMA StillUnderway ==
    ASSUME NEW S, NEW h \in Harts, mtimecmp' = mtimecmp, Underway(S),
           \A k \in Harts : k # h => writer'[k] = writer[k],
           writer[h].at \in S => writer'[h].at \in S /\ writer'[h].value = writer[h].value
    PROVE  Underway(S)'
<1>1. PICK k \in Harts : writer[k].at \in S /\ writer[k].value = mtimecmp
  BY Zenon DEF Underway
<1>2. writer'[k].at \in S /\ writer'[k].value = mtimecmp'
  BY <1>1, Zenon
<1> QED BY <1>2, Zenon DEF Underway

LEMMA StoreMsipStep ==
    ASSUME ClintInv, NEW h \in Harts, NEW v \in BOOLEAN, StoreMsip(h, v)
    PROVE  ClintInv'
<1> USE DEF ClintInv
<1>1. /\ writer' \in [Harts -> [at : At, value : Nat, level : BOOLEAN]]
      /\ writer'[h] = [at |-> "msip", value |-> 0, level |-> v]
      /\ \A k \in Harts : k # h => writer'[k] = writer[k]
  BY WritingStep, Zenon DEF StoreMsip, At
<1>2. writer[h].at = "idle"
  BY DEF StoreMsip, Idle
<1>3. ClintTypeOK'
  BY <1>1, Zenon DEF StoreMsip, ClintTypeOK
<1>4. Writers' /\ MsipSet'
  BY <1>1 DEF StoreMsip, Writers, MsipSet
<1>5. InOrder'
  BY <1>1 DEF StoreMsip, InOrder, Alone, Idle, Cmp, ClintTypeOK
<1>6. /\ Underway(Cmp) => Underway(Cmp)'
      /\ Underway({"compare", "level"}) => Underway({"compare", "level"})'
  <2>1. mtimecmp' = mtimecmp
    BY Zenon DEF StoreMsip
  <2>2. writer[h].at \notin Cmp /\ writer[h].at \notin {"compare", "level"}
    BY <1>2, Zenon DEF Cmp
  <2> HIDE DEF ClintInv
  <2> QED BY <1>1, <2>1, <2>2, StillUnderway, Zenon
<1>7. PinJustified' /\ CmpAwaited' /\ PinAwaited'
  BY <1>6, Zenon DEF StoreMsip, PinJustified, CmpAwaited, PinAwaited
<1> QED BY <1>3, <1>4, <1>5, <1>7, Zenon

LEMMA LevelMsipStep ==
    ASSUME ClintInv, NEW h \in Harts, LevelMsip(h)
    PROVE  ClintInv'
<1> USE DEF ClintInv
<1>1. /\ writer' \in [Harts -> [at : At, value : Nat, level : BOOLEAN]]
      /\ writer'[h] = Idle
      /\ \A k \in Harts : k # h => writer'[k] = writer[k]
  BY WritingStep, Zenon DEF LevelMsip, At, Idle
<1>2. writer[h].at = "msip"
  BY Zenon DEF LevelMsip
<1>3. ClintTypeOK'
  BY <1>1, Zenon DEF LevelMsip, ClintTypeOK
<1>4. Writers' /\ MsipSet'
  <2>1. Writers'
    BY <1>1 DEF LevelMsip, Writers, Idle
  <2>2. CASE msip = writer[h].level
    BY <2>1, <2>2, Zenon DEF LevelMsip, MsipSet
  <2>3. CASE msip # writer[h].level
    BY <2>1, <2>3, Zenon DEF LevelMsip, MsipSet
  <2> QED BY <2>2, <2>3, Zenon
<1>5. InOrder'
  BY <1>1 DEF LevelMsip, InOrder, Alone, Idle, Cmp, ClintTypeOK
<1>6. /\ Underway(Cmp) => Underway(Cmp)'
      /\ Underway({"compare", "level"}) => Underway({"compare", "level"})'
  <2>1. mtimecmp' = mtimecmp
    BY Zenon DEF LevelMsip
  <2>2. writer[h].at \notin Cmp /\ writer[h].at \notin {"compare", "level"}
    BY <1>2, Zenon DEF Cmp
  <2> HIDE DEF ClintInv
  <2> QED BY <1>1, <2>1, <2>2, StillUnderway, Zenon
<1>7. PinJustified' /\ CmpAwaited' /\ PinAwaited'
  BY <1>6, Zenon DEF LevelMsip, PinJustified, CmpAwaited, PinAwaited
<1> QED BY <1>3, <1>4, <1>5, <1>7, Zenon

LEMMA StoreCmpStep ==
    ASSUME ClintInv, NEW h \in Harts, NEW v \in 0..Never, StoreCmp(h, v)
    PROVE  ClintInv'
<1> USE DEF ClintInv
<1>1. v \in Nat
  BY TimeAssumption DEF Never
<1>2. /\ writer' \in [Harts -> [at : At, value : Nat, level : BOOLEAN]]
      /\ writer'[h] = [at |-> "compare", value |-> v, level |-> FALSE]
      /\ \A k \in Harts : k # h => writer'[k] = writer[k]
  BY <1>1, WritingStep, Zenon DEF StoreCmp, At
<1>3. ClintTypeOK'
  BY <1>1, <1>2, Zenon DEF StoreCmp, ClintTypeOK
<1>4. Writers' /\ MsipSet'
  BY <1>2 DEF StoreCmp, Writers, MsipSet, Idle
<1>5. InOrder'
  BY <1>2 DEF StoreCmp, InOrder, Alone, Idle, Cmp, ClintTypeOK
<1>6. Underway(Cmp)' /\ Underway({"compare", "level"})'
  BY <1>2 DEF StoreCmp, Underway, Cmp
<1>7. PinJustified' /\ CmpAwaited' /\ PinAwaited'
  BY <1>6, Zenon DEF PinJustified, CmpAwaited, PinAwaited
<1> QED BY <1>3, <1>4, <1>5, <1>7, Zenon

LEMMA CompareCmpStep ==
    ASSUME ClintInv, NEW h \in Harts, CompareCmp(h)
    PROVE  ClintInv'
<1> USE DEF ClintInv
<1>1. /\ writer[h].at = "compare" /\ writer[h].value \in Nat /\ now \in Nat
      /\ (writer[h].value <= now) \in BOOLEAN
  BY DEF CompareCmp, ClintTypeOK
<1>2. /\ writer' \in [Harts -> [at : At, value : Nat, level : BOOLEAN]]
      /\ writer'[h] = [at |-> "level", value |-> writer[h].value,
                       level |-> writer[h].value <= now]
      /\ \A k \in Harts : k # h => writer'[k] = writer[k]
  BY <1>1, WritingStep, Zenon DEF CompareCmp, At
<1>3. ClintTypeOK'
  BY <1>2, Zenon DEF CompareCmp, ClintTypeOK
<1>4. Writers' /\ MsipSet'
  BY <1>1, <1>2 DEF CompareCmp, Writers, MsipSet
<1>5. InOrder'
  BY <1>1, <1>2 DEF CompareCmp, InOrder, Alone, Idle, Cmp, ClintTypeOK
<1>6. /\ Underway(Cmp) => Underway(Cmp)'
      /\ Underway({"compare", "level"}) => Underway({"compare", "level"})'
  <2>1. mtimecmp' = mtimecmp
    BY Zenon DEF CompareCmp
  <2>2. /\ writer'[h].at \in Cmp /\ writer'[h].at \in {"compare", "level"}
        /\ writer'[h].value = writer[h].value
    BY <1>2 DEF Cmp
  <2> HIDE DEF ClintInv
  <2> QED BY <1>2, <2>1, <2>2, StillUnderway, SMTT(20)
<1>7. PinJustified' /\ CmpAwaited' /\ PinAwaited'
  BY <1>6, Zenon DEF CompareCmp, PinJustified, CmpAwaited, PinAwaited
<1> QED BY <1>3, <1>4, <1>5, <1>7, Zenon

\* The level of a write that was not overtaken is right if it is high, and if it
\* is low the timer is next.
LEMMA LevelCmpStep ==
    ASSUME ClintInv, NEW h \in Harts, LevelCmp(h)
    PROVE  ClintInv'
<1> USE DEF ClintInv
<1> DEFINE after == IF writer[h].level THEN Idle
                    ELSE [at |-> "spawn", value |-> writer[h].value, level |-> FALSE]
<1>1. writer[h].value \in Nat /\ writer[h].level \in BOOLEAN /\ writer[h].at = "level"
  BY Zenon DEF ClintTypeOK, LevelCmp
<1>2. /\ writer' \in [Harts -> [at : At, value : Nat, level : BOOLEAN]]
      /\ writer'[h] = after
      /\ \A k \in Harts : k # h => writer'[k] = writer[k]
  BY <1>1, WritingStep, Zenon DEF LevelCmp, At, Idle
<1>3. ClintTypeOK'
  BY <1>1, <1>2, Zenon DEF LevelCmp, ClintTypeOK
<1>4. Writers' /\ MsipSet'
  BY <1>1, <1>2 DEF LevelCmp, Writers, MsipSet, Idle
<1>5. InOrder'
  BY <1>1, <1>2 DEF LevelCmp, InOrder, Alone, Idle, Cmp, ClintTypeOK
<1>6. PinJustified'
  BY <1>1, Zenon DEF LevelCmp, PinJustified, Writers
<1>7. CmpAwaited'
  <2>1. CASE writer[h].level /\ writer[h].value = mtimecmp
    BY <1>1, <2>1 DEF LevelCmp, CmpAwaited, Writers, ClintTypeOK
  <2>2. CASE writer[h].level /\ writer[h].value # mtimecmp
    <3>1. ASSUME Underway(Cmp) PROVE Underway(Cmp)'
      <4>1. PICK k \in Harts : writer[k].at \in Cmp /\ writer[k].value = mtimecmp
        BY <3>1, Zenon DEF Underway
      <4>2. writer'[k] = writer[k] /\ mtimecmp' = mtimecmp
        BY <1>2, <2>2, <4>1, Zenon DEF LevelCmp
      <4> QED BY <4>1, <4>2, Zenon DEF Underway
    <3> QED BY <3>1, Zenon DEF LevelCmp, CmpAwaited
  <2>3. CASE ~writer[h].level
    <3>1. Underway(Cmp) => Underway(Cmp)'
      <4>1. mtimecmp' = mtimecmp
        BY Zenon DEF LevelCmp
      <4>2. writer'[h].at \in Cmp /\ writer'[h].value = writer[h].value
        BY <1>2, <2>3 DEF Cmp
      <4> HIDE DEF ClintInv
      <4> QED BY <1>2, <4>1, <4>2, StillUnderway, Zenon
    <3> QED BY <3>1, Zenon DEF LevelCmp, CmpAwaited
  <2> QED BY <1>1, <2>1, <2>2, <2>3, Zenon
<1>8. PinAwaited'
  <2> SUFFICES ASSUME ~mtip_pin', ~mtip_stale' PROVE Underway(Cmp)'
    BY Zenon DEF PinAwaited
  <2>1. ~writer[h].level /\ writer[h].value = mtimecmp /\ mtimecmp' = mtimecmp
    BY Zenon DEF LevelCmp
  <2> QED BY <1>2, <2>1 DEF Underway, Cmp
<1> QED BY <1>3, <1>4, <1>5, <1>6, <1>7, <1>8, Zenon

LEMMA SpawnStep ==
    ASSUME ClintInv, NEW h \in Harts, SpawnTimer(h)
    PROVE  ClintInv'
<1> USE DEF ClintInv, spawn_timer
<1>1. writer[h].value \in Nat /\ writer[h].at = "spawn"
  BY Zenon DEF ClintTypeOK, SpawnTimer
<1>2. /\ writer' \in [Harts -> [at : At, value : Nat, level : BOOLEAN]]
      /\ writer'[h] = Idle
      /\ \A k \in Harts : k # h => writer'[k] = writer[k]
  BY <1>1, WritingStep, Zenon DEF SpawnTimer, At, Idle
<1>3. ClintTypeOK'
  BY <1>1, <1>2, Zenon DEF SpawnTimer, ClintTypeOK
<1>4. Writers' /\ MsipSet'
  BY <1>1, <1>2 DEF SpawnTimer, Writers, MsipSet, Idle
<1>5. InOrder'
  BY <1>1, <1>2 DEF SpawnTimer, InOrder, Alone, Idle, Cmp, ClintTypeOK
<1>6. PinJustified'
  <2>1. Underway({"compare", "level"}) => Underway({"compare", "level"})'
    <3>1. mtimecmp' = mtimecmp
      BY Zenon DEF SpawnTimer
    <3> HIDE DEF ClintInv
    <3> QED BY <1>1, <1>2, <3>1, StillUnderway, Zenon
  <2> QED BY <2>1, Zenon DEF SpawnTimer, PinJustified
<1>7. CmpAwaited' /\ PinAwaited'
  <2>1. ASSUME Underway(Cmp) PROVE mtimecmp' \in timers' \/ Underway(Cmp)'
    <3>1. PICK k \in Harts : writer[k].at \in Cmp /\ writer[k].value = mtimecmp
      BY <2>1, Zenon DEF Underway
    <3>2. CASE k = h
      BY <3>1, <3>2, Zenon DEF SpawnTimer
    <3>3. CASE k # h
      BY <1>2, <3>1, <3>3, Zenon DEF SpawnTimer, Underway
    <3> QED BY <3>2, <3>3, Zenon
  <2> QED BY <2>1, Zenon DEF SpawnTimer, CmpAwaited, PinAwaited
<1> QED BY <1>3, <1>4, <1>5, <1>6, <1>7, Zenon

LEMMA TickStep ==
    ASSUME ClintInv, Tick
    PROVE  ClintInv'
<1> USE DEF ClintInv
<1>1. now' = now + 1 /\ now \in Nat /\ now' <= MaxTime /\ mtimecmp \in Nat
  BY TimeAssumption DEF Tick, ClintTypeOK
<1>2. ClintTypeOK'
  BY <1>1 DEF Tick, ClintTypeOK
<1>3. Writers'
  BY <1>1 DEF Tick, Writers, ClintTypeOK
<1>4. InOrder' /\ MsipSet'
  BY Zenon DEF Tick, InOrder, Settled, MsipSet
<1>5. \A S : Underway(S)' <=> Underway(S)
  BY Zenon DEF Tick, Underway
<1>6. PinJustified' /\ CmpAwaited' /\ PinAwaited'
  BY <1>1, <1>5 DEF Tick, PinJustified, CmpAwaited, PinAwaited
<1> QED BY <1>2, <1>3, <1>4, <1>6, Zenon

\* A timer that is due takes away only itself, and no value that is still to come.
LEMMA TimerFiresStep ==
    ASSUME ClintInv, NEW t \in timers, TimerFires(t)
    PROVE  ClintInv'
<1> USE DEF ClintInv
<1>1. ClintTypeOK'
  BY Zenon DEF TimerFires, ClintTypeOK
<1>2. Writers' /\ MsipSet'
  BY Zenon DEF TimerFires, Writers, MsipSet
<1>3. InOrder'
  BY Zenon DEF TimerFires, InOrder, Settled
<1>4. \A S : Underway(S)' <=> Underway(S)
  BY Zenon DEF TimerFires, Underway
<1>5. PinJustified' /\ PinAwaited'
  BY <1>4, Zenon DEF TimerFires, PinJustified, PinAwaited
<1>6. CmpAwaited'
  BY <1>4 DEF TimerFires, CmpAwaited, ClintTypeOK
<1> QED BY <1>1, <1>2, <1>3, <1>5, <1>6, Zenon

LEMMA TimerLevelStep ==
    ASSUME ClintInv, TimerLevel
    PROVE  ClintInv'
<1> USE DEF ClintInv
<1>1. ClintTypeOK'
  BY Zenon DEF TimerLevel, ClintTypeOK
<1>2. Writers' /\ MsipSet'
  BY Zenon DEF TimerLevel, Writers, MsipSet
<1>3. InOrder'
  BY DEF TimerLevel, InOrder, ClintTypeOK
<1>4. \A S : Underway(S)' <=> Underway(S)
  BY Zenon DEF TimerLevel, Underway
<1>5. PinJustified' /\ CmpAwaited'
  BY <1>4, Zenon DEF TimerLevel, PinJustified, CmpAwaited
<1>6. PinAwaited'
  <2> SUFFICES ASSUME ~mtip_pin', ~mtip_stale' PROVE PinAwaited'
    BY Zenon DEF PinAwaited
  <2>1. fired # "high"
    BY Zenon DEF TimerLevel
  <2>2. (fired = "high") = (mtimecmp <= now)
    BY Zenon DEF TimerLevel
  <2>3. mtimecmp > now
    BY <2>1, <2>2 DEF ClintTypeOK
  <2> QED BY <1>4, <2>3, Zenon DEF TimerLevel, CmpAwaited, PinAwaited
<1> QED BY <1>1, <1>2, <1>3, <1>5, <1>6, Zenon

LEMMA ClintInvariance == ClintSpec => []ClintInv
<1>1. ClintInv /\ [ClintNext]_clintVars => ClintInv'
  <2> SUFFICES ASSUME ClintInv, [ClintNext]_clintVars PROVE ClintInv'
    BY Zenon
  <2>1. CASE UNCHANGED clintVars
    BY <2>1 DEF clintVars, ClintInv, ClintTypeOK, Writers, InOrder, MsipSet, Underway,
                PinJustified, CmpAwaited, PinAwaited
  <2>2. ASSUME NEW h \in Harts, NEW v \in BOOLEAN, StoreMsip(h, v) PROVE ClintInv'
    BY <2>2, StoreMsipStep, Zenon
  <2>3. ASSUME NEW h \in Harts, NEW v \in 0..Never, StoreCmp(h, v) PROVE ClintInv'
    BY <2>3, StoreCmpStep, Zenon
  <2> QED BY <2>1, <2>2, <2>3, LevelMsipStep, CompareCmpStep, LevelCmpStep, SpawnStep,
             TickStep, TimerFiresStep, TimerLevelStep, Zenon DEF ClintNext
<1> QED BY <1>1, ClintInitInv, PTL DEF ClintSpec

\* The pins agree with the registers once writes and due timers are done with:
\* always in lockstep mode, and in threaded mode unless the thread that set the
\* level last was overtaken before its set_level (Clint::write, its timer task).
THEOREM ClintLevelsRight == ClintSpec => []LevelsRight
<1>1. ClintInv => LevelsRight
  <2> SUFFICES ASSUME ClintInv, \A h \in Harts : writer[h] = Idle, fired = "no",
                      \A t \in timers : t > now
               PROVE  /\ (threaded /\ mtip_stale) \/ (mtip_pin <=> mtimecmp <= now)
                      /\ (threaded /\ msip_stale) \/ (msip_pin <=> msip)
    BY Zenon DEF LevelsRight
  <2>1. ~Underway(Cmp) /\ ~Underway({"compare", "level"})
    BY DEF Underway, Idle, Cmp
  <2>2. ~threaded => ~msip_stale /\ ~mtip_stale
    BY Zenon DEF ClintInv, InOrder
  <2>3. ~mtip_stale /\ mtip_pin => mtimecmp <= now
    BY <2>1, Zenon DEF ClintInv, PinJustified
  <2>4. ~mtip_stale /\ ~mtip_pin => ~(mtimecmp <= now)
    BY <2>1, TimeAssumption DEF ClintInv, PinAwaited, ClintTypeOK
  <2>5. msip_stale \/ (msip_pin <=> msip)
    BY DEF ClintInv, MsipSet, Idle
  <2> QED BY <2>2, <2>3, <2>4, <2>5, Zenon DEF ClintInv, ClintTypeOK
<1> QED BY <1>1, ClintInvariance, PTL

\* In lockstep mode, where harts and the event loop share a thread, no level is
\* ever set that was out of date by then.
THEOREM LockstepNeverStale == ClintSpec => [](~threaded => ~msip_stale /\ ~mtip_stale)
<1>1. ClintInv => (~threaded => ~msip_stale /\ ~mtip_stale)
  BY Zenon DEF ClintInv, InOrder
<1> QED BY <1>1, ClintInvariance, PTL

=============================================================================
