---------------------------- MODULE FiberGroup ----------------------------
(***************************************************************************)
(* The cooperative scheduler of one FiberGroup (lib/fiber/src/lib.rs and   *)
(* lib/fiber/src/fiber.s).  All fibers of a group run on one thread.  They *)
(* form a ring in spawn order; next_avail short-cuts the ring to the next  *)
(* fiber that is not paused and is all that the assembly yield looks at.   *)
(*                                                                         *)
(* Fibers are numbered in spawn order, so the prev/next links of the ring  *)
(* are the cyclic order of the numbers still in ring, and the first/last   *)
(* fields of the group are the least and the greatest of them.             *)
(*                                                                         *)
(* pause and unpause hold the group mutex from start to end, so each of    *)
(* them is one step; the yield runs without the mutex and reads one        *)
(* next_avail at a time, so each hop is a step of its own.                 *)
(***************************************************************************)
EXTENDS Integers, FiniteSets

CONSTANTS N,        \* the number of fibers that may be spawned
          MaxSleep, \* the largest argument of fiber_sleep
          Returns   \* the fibers whose function may return

ASSUME NAssumption == N \in Nat \ {0}
ASSUME MaxSleepAssumption == MaxSleep \in Nat
ASSUME ReturnsAssumption == Returns \subseteq 0 .. N - 1

VARIABLES
  ring,             \* fibers linked by FiberData.prev / next
  paused,           \* FiberData.paused
  next_avail,       \* FiberData.next_avail
  cycles_to_sleep,  \* FiberData.cycles_to_sleep
  cur,              \* the fiber whose stack the thread is on (rbp in fiber.s)
  at,               \* where the thread is in the code, see Place
  returned,         \* cur has returned and run() is taking it out of the ring
  waiting,          \* fibers with a WaitEntry that unpark has not taken yet
  stray             \* history: run() has restarted a fiber that was parked

vars == <<ring, paused, next_avail, cycles_to_sleep, cur, at, returned,
          waiting, stray>>

Fiber == 0 .. N - 1

(***************************************************************************)
(* spawn: before run();  run: in the code of fiber cur;                    *)
(* prepared: between prepare_pause and pause;  wait: in condvar.wait of    *)
(* pause;  notified: that wait has been notified;  switch: in              *)
(* fiber_yield_raw, about to follow cur's next_avail;  unlink: in run(),   *)
(* after pause;  done: run() has returned.                                 *)
(***************************************************************************)
Place == {"spawn", "run", "prepared", "wait", "notified", "switch",
          "unlink", "done"}

Pausing == {"prepared", "wait", "notified"}

Avail == {f \in ring : ~paused[f]}

\* The fibers strictly between f and g in ring order (all others if f = g).
Arc(f, g) == {x \in Fiber : IF f < g THEN f < x /\ x < g ELSE x > f \/ x < g}

\* g is the first member of S met when the ring is followed from f.
IsNext(S, f, g) == g \in S /\ S \cap Arc(f, g) = {}

\* FiberGroupData.first and last, once ring is the set of linked fibers.
FirstOf(S) == CHOOSE f \in S : \A g \in S : f <= g
LastOf(S)  == CHOOSE f \in S : \A g \in S : g <= f

\* Mutant: the walk along prev stops after one fiber.
WalkOneStep(f, live) == {x \in ring : ring \cap Arc(x, f) = {}}

(***************************************************************************)
(* The fibers a walk along prev from f stores to: it starts at f's         *)
(* predecessor and stops after the first fiber whose paused flag is clear. *)
(***************************************************************************)
Walk(f, live) == {x \in ring : live \cap Arc(x, f) = {}}

Init ==
  /\ ring = {}
  /\ paused = [f \in Fiber |-> FALSE]
  /\ next_avail = [f \in Fiber |-> f]
  /\ cycles_to_sleep = [f \in Fiber |-> 0]
  /\ cur = 0
  /\ at = "spawn"
  /\ returned = FALSE
  /\ waiting = {}
  /\ stray = FALSE

\* spawn_fn: link a new fiber after the last one.
Spawn(f) ==
  /\ at = "spawn"
  /\ ring = 0 .. f - 1
  /\ ring' = ring \cup {f}
  /\ next_avail' = IF ring = {} THEN [next_avail EXCEPT ![f] = f]
                   ELSE [next_avail EXCEPT ![LastOf(ring)] = f,
                                            ![f] = next_avail[LastOf(ring)]]
  /\ paused' = [paused EXCEPT ![f] = FALSE]
  /\ cycles_to_sleep' = [cycles_to_sleep EXCEPT ![f] = 0]
  /\ UNCHANGED <<cur, at, returned, waiting, stray>>

\* run: enter the ring at first.
Start ==
  /\ at = "spawn" /\ ring # {}
  /\ cur' = FirstOf(ring)
  /\ at' = "run"
  /\ UNCHANGED <<ring, paused, next_avail, cycles_to_sleep, returned, waiting, stray>>

\* fiber_sleep(n), up to the first read of next_avail.
Sleep(n) ==
  /\ at = "run"
  /\ cycles_to_sleep' = [cycles_to_sleep EXCEPT ![cur] = n]
  /\ at' = "switch"
  /\ UNCHANGED <<ring, paused, next_avail, cur, returned, waiting, stray>>

\* Mutant: the fiber is resumed on the turn that counts its last cycle down.
SwitchEarly ==
  LET g == next_avail[cur] IN
  /\ at = "switch"
  /\ cur' = g
  /\ at' = IF cycles_to_sleep[g] <= 1 THEN "run" ELSE at
  /\ cycles_to_sleep' = [cycles_to_sleep EXCEPT ![g] = IF @ = 0 THEN 0 ELSE @ - 1]
  /\ UNCHANGED <<ring, paused, next_avail, returned, waiting, stray>>

\* Mutant: cycles left to sleep are tested but never counted down.
SwitchNoCount ==
  /\ at = "switch"
  /\ cur' = next_avail[cur]
  /\ at' = IF cycles_to_sleep[cur'] = 0 THEN "run" ELSE at
  /\ UNCHANGED <<ring, paused, next_avail, cycles_to_sleep, returned, waiting, stray>>

\* Mutant: the counter is decremented before it is tested.
SwitchDecFirst ==
  LET g == next_avail[cur] IN
  /\ at = "switch"
  /\ cur' = g
  /\ cycles_to_sleep' = [cycles_to_sleep EXCEPT ![g] = @ - 1]
  /\ at' = IF cycles_to_sleep'[g] <= 0 THEN "run" ELSE at
  /\ UNCHANGED <<ring, paused, next_avail, returned, waiting, stray>>

\* One turn of the loop of fiber_yield_raw: hop to next_avail, count down a
\* fiber that has cycles left to sleep, resume any other.
Switch ==
  LET g == next_avail[cur] IN
  /\ at = "switch"
  /\ cur' = g
  /\ IF cycles_to_sleep[g] = 0
     THEN at' = "run" /\ UNCHANGED cycles_to_sleep
     ELSE /\ cycles_to_sleep' = [cycles_to_sleep EXCEPT ![g] = @ - 1]
          /\ UNCHANGED at
  /\ UNCHANGED <<ring, paused, next_avail, returned, waiting, stray>>

\* Mutant: the entry is queued but the paused flag is left to pause.
PreparePauseNoFlag ==
  /\ at = "run"
  /\ waiting' = waiting \cup {cur}
  /\ at' = "prepared"
  /\ UNCHANGED <<ring, paused, next_avail, cycles_to_sleep, cur, returned, stray>>

\* park, up to the release of the wait list: the entry is queued and
\* prepare_pause has set the flag.
PreparePause ==
  /\ at = "run"
  /\ waiting' = waiting \cup {cur}
  /\ paused' = [paused EXCEPT ![cur] = TRUE]
  /\ at' = "prepared"
  /\ UNCHANGED <<ring, next_avail, cycles_to_sleep, cur, returned, stray>>

(***************************************************************************)
(* pause, from taking the group mutex (again, after a notification) to     *)
(* releasing it, and the fiber_sleep(0) of park that follows a pause that  *)
(* returned false.  run() calls pause for a fiber that has returned and    *)
(* ignores the result.                                                     *)
(***************************************************************************)
PauseAwaken ==
  /\ at \in {"prepared", "notified"}
  /\ ~paused[cur]
  /\ at' = IF returned THEN "unlink" ELSE "run"
  /\ UNCHANGED <<ring, paused, next_avail, cycles_to_sleep, cur, returned, waiting, stray>>

PauseWait ==
  /\ at \in {"prepared", "notified"}
  /\ paused[cur] /\ next_avail[cur] = cur
  /\ at' = "wait"
  /\ UNCHANGED <<ring, paused, next_avail, cycles_to_sleep, cur, returned, waiting, stray>>

\* Mutant: pause does not lead the predecessors past the paused fiber.
PauseSleepNoWalk ==
  /\ at \in {"prepared", "notified"}
  /\ paused[cur] /\ next_avail[cur] # cur
  /\ IF returned
     THEN at' = "unlink" /\ UNCHANGED cycles_to_sleep
     ELSE at' = "switch" /\ cycles_to_sleep' = [cycles_to_sleep EXCEPT ![cur] = 0]
  /\ UNCHANGED <<ring, paused, next_avail, cur, returned, waiting, stray>>

PauseSleep ==
  /\ at \in {"prepared", "notified"}
  /\ paused[cur] /\ next_avail[cur] # cur
  /\ next_avail' = [f \in Fiber |-> IF f \in Walk(cur, Avail) THEN next_avail[cur]
                                    ELSE next_avail[f]]
  /\ IF returned
     THEN at' = "unlink" /\ UNCHANGED cycles_to_sleep
     ELSE at' = "switch" /\ cycles_to_sleep' = [cycles_to_sleep EXCEPT ![cur] = 0]
  /\ UNCHANGED <<ring, paused, cur, returned, waiting, stray>>

\* Mutant: unpause does not notify the condition variable of the group.
UnpauseNoNotify(f) ==
  /\ f \in waiting \cap ring
  /\ waiting' = waiting \ {f}
  /\ paused' = [paused EXCEPT ![f] = FALSE]
  /\ next_avail' = [x \in Fiber |-> IF x \in Walk(f, Avail \cup {f}) THEN f
                                    ELSE next_avail[x]]
  /\ UNCHANGED <<ring, cycles_to_sleep, cur, at, returned, stray>>

\* unpark takes f's entry and calls unpause, on any thread.
Unpause(f) ==
  /\ f \in waiting \cap ring
  /\ waiting' = waiting \ {f}
  /\ paused' = [paused EXCEPT ![f] = FALSE]
  /\ next_avail' = [x \in Fiber |-> IF x \in Walk(f, Avail \cup {f}) THEN f
                                    ELSE next_avail[x]]
  /\ at' = IF at = "wait" THEN "notified" ELSE at
  /\ UNCHANGED <<ring, cycles_to_sleep, cur, returned, stray>>

\* The fiber's function returns to run() through fiber_exit.
Return ==
  /\ at = "run" /\ cur \in Returns
  /\ IF ring = {cur}
     THEN at' = "done" /\ ring' = {} /\ UNCHANGED <<paused, returned>>
     ELSE /\ at' = "prepared" /\ returned' = TRUE /\ UNCHANGED ring
          /\ paused' = [paused EXCEPT ![cur] = TRUE]
  /\ UNCHANGED <<next_avail, cycles_to_sleep, cur, waiting, stray>>

\* run(): unlink the fiber that returned and enter the ring at first again.
Unlink ==
  /\ at = "unlink"
  /\ ring' = ring \ {cur}
  /\ cur' = FirstOf(ring')
  /\ stray' = (stray \/ cur' \in waiting)
  /\ at' = "run"
  /\ returned' = FALSE
  /\ UNCHANGED <<paused, next_avail, cycles_to_sleep, waiting>>

Thread ==
  \/ \E n \in 0 .. MaxSleep : Sleep(n)
  \/ Switch
  \/ PreparePause
  \/ PauseAwaken
  \/ PauseWait
  \/ PauseSleep
  \/ Return
  \/ Unlink

Next ==
  \/ \E f \in Fiber : Spawn(f)
  \/ Start
  \/ Thread
  \/ \E f \in Fiber : Unpause(f)

Spec == Init /\ [][Next]_vars

\* The steps by which a running fiber lets go of the thread.
GiveUp == (\E n \in 0 .. MaxSleep : Sleep(n)) \/ PauseWait \/ PauseSleep \/ Return

(***************************************************************************)
(* The thread of a group never stops for good inside the scheduler (weak   *)
(* fairness of its steps), and a fiber that keeps getting the thread lets  *)
(* go of it in the end (strong fairness of GiveUp): harts yield after      *)
(* every block of translated code and the event loop in event_loop_wait,   *)
(* so none of them only parks and is unparked before it has paused.        *)
(***************************************************************************)
FairSpec == Spec /\ WF_vars(Start) /\ WF_vars(Thread) /\ SF_vars(GiveUp)

-----------------------------------------------------------------------------

TypeOK ==
  /\ ring \subseteq Fiber
  /\ paused \in [Fiber -> BOOLEAN]
  /\ next_avail \in [Fiber -> Fiber]
  /\ cycles_to_sleep \in [Fiber -> 0 .. MaxSleep]
  /\ cur \in Fiber
  /\ at \in Place
  /\ returned \in BOOLEAN
  /\ waiting \subseteq Fiber
  /\ stray \in BOOLEAN

(***************************************************************************)
(* While the thread is between prepare_pause and the end of pause, cur is  *)
(* already flagged but the links still lead to it, except those an unpause *)
(* has meanwhile redirected.                                               *)
(***************************************************************************)
Linked == IF at \in Pausing THEN Avail \cup {cur} ELSE Avail

(***************************************************************************)
(* The short-cuts are right: every fiber of the ring, paused or not, leads *)
(* to the next available one (or, during a pause, to cur if that comes     *)
(* first), although pause and unpause only repair the links up to the      *)
(* first available predecessor.  cur's own link, the one the next yield    *)
(* follows, is exact; it is cur itself when nothing else can run.          *)
(***************************************************************************)
NextAvailRight ==
  stray \/
  /\ \A f \in ring : \/ IsNext(Avail, f, next_avail[f])
                     \/ IsNext(Linked, f, next_avail[f])
  /\ cur \in ring => IsNext(Linked, cur, next_avail[cur])

(***************************************************************************)
(* The yield only ever resumes a fiber that is in the ring and not paused: *)
(* whatever unpause does between two hops, "both of which are available to *)
(* run" (comment in unpause).  Holds until run() restarts a parked fiber.  *)
(***************************************************************************)
RunsAvailable == stray \/ (at = "run" => cur \in Avail)

(***************************************************************************)
(* The thread blocks in pause only while no fiber of the group can run: a  *)
(* notification cannot be lost between the test of next_avail and the      *)
(* wait, and an unpause of any fiber ends the wait.                        *)
(***************************************************************************)
BlocksOnlyIfIdle == stray \/ (at = "wait" => Avail = {})

(***************************************************************************)
(* A fiber in the ring is flagged paused exactly while it is parked (its   *)
(* wait entry is queued) or being removed: no wake-up is dropped between   *)
(* prepare_pause and pause.                                                *)
(***************************************************************************)
PausedIffParked ==
  stray \/ \A f \in ring : paused[f] <=> f \in waiting \/ (returned /\ f = cur)

(***************************************************************************)
(* The ring as pause, unpause, spawn_fn and run leave it, at every moment: *)
(* links, resumed fiber, idle thread and flags are right together.         *)
(***************************************************************************)
RingRight == NextAvailRight /\ RunsAvailable /\ BlocksOnlyIfIdle /\ PausedIffParked

(***************************************************************************)
(* A fiber that is available gets to run again, however many fibers pause, *)
(* wake, sleep or return meanwhile.                                        *)
(***************************************************************************)
NoStarvation ==
  \A f \in Fiber :
    (at # "spawn" /\ f \in Avail) ~> (at = "run" /\ cur = f) \/ f \notin ring \/ stray

RR == INSTANCE RoundRobin WITH avail <- Avail, turn <- cur, running <- at # "spawn"

(***************************************************************************)
(* The group implements its abstract specification: run() enters the ring  *)
(* once, at its first fiber; after that the turn moves only when a hop of  *)
(* the yield passes it to the next fiber that is not paused at that        *)
(* moment, or when a fiber that has returned hands it to the first fiber,  *)
(* which is not paused either; and only the running fiber pauses or        *)
(* leaves.  This goes on until run() restarts a parked fiber.              *)
(***************************************************************************)
TakesTurns == RR!Init /\ [][RR!Next \/ stray']_(RR!vars)

(***************************************************************************)
(* "Blocks the current fiber until this condition variable receives a      *)
(* notification" (Condvar::wait, mutex.rs:212): no fiber resumes while its *)
(* wait entry is still queued.                                             *)
(***************************************************************************)
ParkedUntilUnparked == ~stray
=============================================================================
