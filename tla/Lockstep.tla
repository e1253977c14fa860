----------------------------- MODULE Lockstep -----------------------------
(***************************************************************************)
(* Lockstep mode: the event loop (fiber 0) and the harts share one         *)
(* FiberGroup.  Every time the event loop gets its turn, event_loop_wait   *)
(* (src/emu/event.s) adds one to the global cycle counter; a hart that has *)
(* executed a block of k cycles calls fiber_sleep(k - 1), and traps call   *)
(* fiber::sleep(1).  Harts also park (WFI) and are unparked by anyone.     *)
(***************************************************************************)
EXTENDS FiberGroup

VARIABLES
  timed,  \* history: fibers whose last fiber_sleep has not been overtaken
  left    \* history: cycles the global counter still lacks until it ends

lvars == <<vars, timed, left>>

LInit == Init /\ timed = {} /\ left = [f \in Fiber |-> 0]

\* fiber_sleep(n) asks to be resumed n + 1 cycles later; the event loop
\* always sleeps for one cycle.
LSleep(n) ==
  /\ cur = 0 => n = 0
  /\ Sleep(n)
  /\ timed' = timed \cup {cur}
  /\ left' = [left EXCEPT ![cur] = n + 1]

\* The global cycle counter advances when the event loop is resumed.
LSwitch ==
  /\ Switch
  /\ left' = [f \in Fiber |-> IF cur' = 0 /\ f \in timed THEN left[f] - 1 ELSE left[f]]
  /\ UNCHANGED timed

\* Mutant: the event loop parks like a hart.
LParkAny ==
  /\ PreparePause
  /\ timed' = timed \ {cur}
  /\ UNCHANGED left

\* Only harts execute WFI.
LPark ==
  /\ cur # 0
  /\ PreparePause
  /\ timed' = timed \ {cur}
  /\ UNCHANGED left

LOther ==
  /\ \/ \E f \in Fiber : Spawn(f) \/ Unpause(f)
     \/ Start \/ PauseAwaken \/ PauseWait \/ PauseSleep
  /\ UNCHANGED <<timed, left>>

LNext ==
  \/ \E n \in 0 .. MaxSleep : LSleep(n)
  \/ LSwitch
  \/ LPark
  \/ LOther

LSpec == LInit /\ [][LNext]_lvars

-----------------------------------------------------------------------------

LTypeOK ==
  /\ TypeOK
  /\ timed \subseteq Fiber
  /\ left \in [Fiber -> Int]

(***************************************************************************)
(* A fiber that asked to sleep for n + 1 cycles is resumed when the global *)
(* counter has advanced by exactly n + 1: never earlier, never later, and  *)
(* however the other harts sleep, execute WFI and are woken in between.    *)
(* This is what makes lockstep mode cycle-accurate.                        *)
(***************************************************************************)
CycleExact ==
  \A f \in timed : left[f] >= 0 /\ (at = "run" /\ cur = f => left[f] = 0)

(***************************************************************************)
(* While the event loop shares the group, the thread never blocks in       *)
(* pause: the cycle counter keeps advancing although every hart is in WFI. *)
(***************************************************************************)
ClockNeverBlocks == at # "wait"
=============================================================================
