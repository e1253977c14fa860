------------------------- MODULE FiberGroupProofs -------------------------
(***************************************************************************)
(* Proofs, for any number of fibers, that the links of a FiberGroup are    *)
(* always right, that only available fibers are resumed, that the thread   *)
(* blocks only when the group is idle, and that the group implements       *)
(* RoundRobin; and, for any number of harts and any length of sleep, that  *)
(* lockstep mode, whose clock is a group, is cycle-exact.                  *)
(***************************************************************************)
EXTENDS Lockstep, WellFoundedInduction, TLAPS

\* A non-empty set of fibers has a least member, so first is well defined.
LEMMA LeastFiber ==
  ASSUME NEW S \in SUBSET Fiber, S # {}
  PROVE  FirstOf(S) \in S /\ \A g \in S : FirstOf(S) <= g
<1>1. PICK x \in S : \A y \in S : ~(<<y, x>> \in OpToRel(<, Nat))
  <2>1. S \subseteq Nat
    BY NAssumption DEF Fiber
  <2> QED BY <2>1, NatLessThanWellFounded, WFMin, Zenon
<1>2. \A y \in S : ~(y < x)
  <2> TAKE y \in S
  <2>1. y \in Nat /\ x \in Nat
    BY NAssumption DEF Fiber
  <2> QED BY <1>1, <2>1, Zenon DEF OpToRel
<1>3. \A y \in S : x <= y
  BY <1>2, NAssumption DEF Fiber
<1> QED BY <1>3, Zenon DEF FirstOf

\* The last fiber of an initial segment of the ring.
LEMMA LastSpawned ==
  ASSUME NEW f \in Fiber, f # 0
  PROVE  LastOf(0 .. f - 1) = f - 1
<1>1. f - 1 \in 0 .. f - 1 /\ \A g \in 0 .. f - 1 : g <= f - 1
  BY NAssumption DEF Fiber
<1>2. \A g \in 0 .. f - 1 : f - 1 <= g => g = f - 1
  BY NAssumption DEF Fiber
<1>3. LastOf(0 .. f - 1) \in 0 .. f - 1 /\ \A g \in 0 .. f - 1 : g <= LastOf(0 .. f - 1)
  BY <1>1, Zenon DEF LastOf
<1> QED BY <1>1, <1>2, <1>3, Zenon

\* The way from f to g lies on the way from f over c to g.
LEMMA ArcSplit ==
  ASSUME NEW f \in Fiber, NEW c \in Fiber, NEW g \in Fiber, NEW x \in Arc(f, g)
  PROVE  x \in Arc(f, c) \/ x = c \/ x \in Arc(c, g)
BY NAssumption DEF Arc, Fiber

\* A stop u on the way from f to g cuts the way short.
LEMMA ArcPrefix ==
  ASSUME NEW f \in Fiber, NEW g \in Fiber, NEW u \in Arc(f, g), NEW x \in Arc(f, u)
  PROVE  x \in Arc(f, g)
BY NAssumption DEF Arc, Fiber

\* The ends are not on the way.
LEMMA ArcEnds ==
  ASSUME NEW f \in Fiber, NEW g \in Fiber
  PROVE  f \notin Arc(f, g) /\ g \notin Arc(f, g)
BY NAssumption DEF Arc, Fiber

\* From f round to f itself the way passes every other fiber.
LEMMA ArcRound ==
  ASSUME NEW f \in Fiber
  PROVE  Arc(f, f) = Fiber \ {f}
BY NAssumption DEF Arc, Fiber

-----------------------------------------------------------------------------

\* Before run() the ring is an initial segment and nothing has happened yet.
Spawning ==
  at = "spawn" =>
    /\ \E k \in 0 .. N : ring = 0 .. k - 1
    /\ paused = [f \in Fiber |-> FALSE]
    /\ waiting = {} /\ ~returned /\ ~stray

\* Where the thread is tells whether cur is in the ring and has returned.
Placed ==
  /\ at \notin {"spawn", "done"} => ring # {} /\ (stray \/ cur \in ring)
  /\ at = "done" => ring = {}
  /\ returned => at \in Pausing \cup {"unlink"} /\ ring # {cur}
  /\ at = "unlink" => returned

\* A fiber that is being removed has no wait entry, so nobody unpauses it.
Leaving == stray \/ (returned => cur \notin waiting)

\* The inductive invariant.  NextAvailRight needs PausedIffParked (the fiber
\* being removed cannot be unpaused) and RunsAvailable (the fiber about to
\* pause was available), and these need NextAvailRight for the yield.
IInv ==
  /\ TypeOK
  /\ Spawning
  /\ Placed
  /\ NextAvailRight
  /\ RunsAvailable
  /\ BlocksOnlyIfIdle
  /\ PausedIffParked
  /\ Leaving

LEMMA InitIInv == Init => IInv
<1> SUFFICES ASSUME Init PROVE IInv
  BY Zenon
<1>1. TypeOK
  <2>1. 0 \in Fiber /\ 0 \in 0 .. MaxSleep
    BY NAssumption, MaxSleepAssumption DEF Fiber
  <2> QED BY <2>1, Zenon DEF Init, TypeOK, Place
<1>2. Spawning
  <2>1. ring = 0 .. 0 - 1 /\ 0 \in 0 .. N
    BY NAssumption DEF Init
  <2> QED BY <2>1, Zenon DEF Init, Spawning
<1> QED BY <1>1, <1>2, Zenon DEF Init, IInv, Placed, NextAvailRight, RunsAvailable,
           BlocksOnlyIfIdle, PausedIffParked, Leaving, Pausing

LEMMA ShapeStep ==
  ASSUME IInv, Next
  PROVE  TypeOK' /\ Spawning' /\ Placed'
<1> USE NAssumption, MaxSleepAssumption
<1>0. TypeOK /\ Spawning /\ Placed
  BY Zenon DEF IInv
<1> USE <1>0
<1>1. ASSUME NEW f \in Fiber, Spawn(f) PROVE TypeOK' /\ Spawning' /\ Placed'
  <2>1. next_avail' \in [Fiber -> Fiber]
    <3>1. CASE f = 0
      <4>1. ring = {}
        BY <1>1, <3>1 DEF Spawn
      <4> QED BY <1>1, <4>1, Zenon DEF Spawn, TypeOK
    <3>2. CASE f # 0
      <4>1. ring # {} /\ LastOf(ring) = f - 1 /\ f - 1 \in Fiber
        BY <1>1, <3>2, LastSpawned DEF Spawn, Fiber
      <4>2. next_avail' = [next_avail EXCEPT ![f - 1] = f, ![f] = next_avail[f - 1]]
        BY <1>1, <4>1, Zenon DEF Spawn
      <4> QED BY <4>1, <4>2, Zenon DEF TypeOK
    <3> QED BY <3>1, <3>2, Zenon
  <2>2. ring' = 0 .. (f + 1) - 1 /\ f + 1 \in 0 .. N
    BY <1>1 DEF Spawn, Fiber
  <2>3. paused' = [x \in Fiber |-> FALSE]
    BY <1>1, Zenon DEF Spawn, Spawning
  <2>4. Spawning'
    BY <1>1, <2>2, <2>3, Zenon DEF Spawn, Spawning
  <2>5. Placed'
    BY <1>1, Zenon DEF Spawn, Placed, Spawning, Pausing
  <2>6. cycles_to_sleep' \in [Fiber -> 0 .. MaxSleep]
    BY <1>1 DEF Spawn, TypeOK
  <2>7. TypeOK'
    BY <1>1, <2>1, <2>6, Zenon DEF Spawn, TypeOK
  <2> QED BY <2>4, <2>5, <2>7, Zenon
<1>2. ASSUME Start PROVE TypeOK' /\ Spawning' /\ Placed'
  <2>1. FirstOf(ring) \in ring
    BY <1>2, LeastFiber, Zenon DEF Start, TypeOK
  <2> QED BY <1>2, <2>1, Zenon DEF Start, TypeOK, Place, Spawning, Placed, Pausing
<1>3. ASSUME NEW n \in 0 .. MaxSleep, Sleep(n) PROVE TypeOK' /\ Spawning' /\ Placed'
  BY <1>3, Zenon DEF Sleep, TypeOK, Place, Spawning, Placed, Pausing
<1>4. ASSUME Switch PROVE TypeOK' /\ Spawning' /\ Placed'
  <2>1. stray \/ next_avail[cur] \in ring
    BY <1>4, Zenon DEF IInv, Switch, Placed, NextAvailRight, IsNext, Linked, Avail, Pausing
  <2>2. next_avail[cur] \in Fiber
    BY Zenon DEF TypeOK
  <2>3. TypeOK'
    BY <1>4, <2>2 DEF Switch, TypeOK, Place
  <2>4. Spawning' /\ Placed'
    BY <1>4, <2>1, Zenon DEF Switch, Spawning, Placed, Pausing
  <2> QED BY <2>3, <2>4, Zenon
<1>5. ASSUME PreparePause PROVE TypeOK' /\ Spawning' /\ Placed'
  BY <1>5, Zenon DEF PreparePause, TypeOK, Place, Spawning, Placed, Pausing
<1>6. ASSUME PauseAwaken PROVE TypeOK' /\ Spawning' /\ Placed'
  BY <1>6, Zenon DEF PauseAwaken, TypeOK, Place, Spawning, Placed, Pausing
<1>7. ASSUME PauseWait PROVE TypeOK' /\ Spawning' /\ Placed'
  BY <1>7, Zenon DEF PauseWait, TypeOK, Place, Spawning, Placed, Pausing
<1>8. ASSUME PauseSleep PROVE TypeOK' /\ Spawning' /\ Placed'
  BY <1>8 DEF PauseSleep, TypeOK, Place, Spawning, Placed, Pausing
<1>9. ASSUME Return PROVE TypeOK' /\ Spawning' /\ Placed'
  BY <1>9, Zenon DEF Return, TypeOK, Place, Spawning, Placed, Pausing
<1>10. ASSUME Unlink PROVE TypeOK' /\ Spawning' /\ Placed'
  <2>1. ring' \in SUBSET Fiber /\ ring' # {}
    BY <1>10, Zenon DEF Unlink, TypeOK, Placed
  <2>2. cur' \in ring'
    BY <1>10, <2>1, LeastFiber, Zenon DEF Unlink
  <2> QED BY <1>10, <2>1, <2>2, Zenon DEF Unlink, TypeOK, Place, Spawning, Placed, Pausing
<1>11. ASSUME NEW f \in Fiber, Unpause(f) PROVE TypeOK' /\ Spawning' /\ Placed'
  BY <1>11, Zenon DEF Unpause, TypeOK, Place, Spawning, Placed, Pausing
<1> QED BY <1>1, <1>2, <1>3, <1>4, <1>5, <1>6, <1>7, <1>8, <1>9, <1>10, <1>11, Zenon
        DEF Next, Thread

\* What IInv says of the links outside and inside a pause.
Links ==
  /\ \A f \in ring : IsNext(Avail, f, next_avail[f]) \/ IsNext(Linked, f, next_avail[f])
  /\ cur \in ring => IsNext(Linked, cur, next_avail[cur])

Good ==
  /\ Links
  /\ returned => cur \notin waiting
  /\ at = "run" => cur \in Avail
  /\ at = "wait" => Avail = {}
  /\ \A f \in ring : paused[f] <=> f \in waiting \/ (returned /\ f = cur)

LEMMA IInvGood == IInv <=> TypeOK /\ Spawning /\ Placed /\ (stray \/ Good)
BY Zenon DEF IInv, Good, Links, NextAvailRight, RunsAvailable, BlocksOnlyIfIdle,
       PausedIffParked, Leaving

LEMMA SpawnGood ==
  ASSUME IInv, ~stray, NEW f \in Fiber, Spawn(f)
  PROVE  Good'
<1> USE NAssumption
<1>1. TypeOK /\ Spawning /\ Placed /\ Links /\ at = "spawn"
  BY Zenon DEF IInv, NextAvailRight, Links, Spawn
<1>2. Avail' = ring' /\ Linked' = ring' /\ Avail = ring /\ Linked = ring
  <2>1. \A x \in ring : x \in Fiber /\ ~paused[x]
    BY <1>1, Zenon DEF Spawning, TypeOK
  <2>2. \A x \in ring' : ~paused'[x]
    BY <1>1, <2>1, Zenon DEF Spawn, TypeOK
  <2> QED BY <1>1, <2>1, <2>2, Zenon DEF Spawn, Avail, Linked, Pausing
<1>3. \A x \in ring' : IsNext(ring', x, next_avail'[x])
  <2>1. CASE f = 0
    BY <1>1, <2>1 DEF Spawn, IsNext, Arc, Fiber, TypeOK
  <2>2. CASE f # 0
    <3>1. ring # {} /\ LastOf(ring) = f - 1 /\ f - 1 \in ring /\ f - 1 \in Fiber
      BY <2>2, LastSpawned DEF Spawn, Fiber
    <3>2. next_avail' = [next_avail EXCEPT ![f - 1] = f, ![f] = next_avail[f - 1]]
      BY <3>1, Zenon DEF Spawn
    <3>3. IsNext(ring, f - 1, next_avail[f - 1])
      BY <1>1, <1>2, <3>1, Zenon DEF Links
    <3>4. next_avail[f - 1] = 0
      <4>1. 0 \in ring
        BY <2>2 DEF Spawn, Fiber
      <4> QED BY <3>3, <4>1 DEF Spawn, IsNext, Arc, Fiber
    <3>5. IsNext(ring', f - 1, f) /\ IsNext(ring', f, 0)
      BY <2>2 DEF Spawn, IsNext, Arc, Fiber
    <3>6. ASSUME NEW x \in ring, x # f - 1 PROVE IsNext(ring', x, next_avail[x])
      <4>1. IsNext(ring, x, next_avail[x])
        BY <1>1, <1>2, Zenon DEF Links
      <4>2. x + 1 \in ring /\ x \in Fiber
        BY <3>6 DEF Spawn, Fiber
      <4>3. next_avail[x] = x + 1
        BY <4>1, <4>2 DEF Spawn, IsNext, Arc, Fiber
      <4> QED BY <4>2, <4>3 DEF Spawn, IsNext, Arc, Fiber
    <3>7. f \notin ring /\ ring' = ring \cup {f}
      BY DEF Spawn, Fiber
    <3>8. next_avail'[f - 1] = f /\ next_avail'[f] = 0
      BY <3>1, <3>2, <3>4 DEF TypeOK, IInv
    <3>9. \A x \in ring : x # f - 1 => next_avail'[x] = next_avail[x]
      BY <3>2, <3>7, <1>1, Zenon DEF TypeOK
    <3> QED BY <3>5, <3>6, <3>7, <3>8, <3>9, Zenon
  <2> QED BY <2>1, <2>2, Zenon
<1>4. Links'
  BY <1>2, <1>3, Zenon DEF Links
<1>5. at' = "spawn" /\ waiting' = {} /\ ~returned' /\ \A x \in ring' : ~paused'[x]
  BY <1>1, Zenon DEF Spawn, Spawning, TypeOK
<1> QED BY <1>4, <1>5, Zenon DEF Good

\* During a pause of cur that ends in a yield, the links that led to cur are
\* turned to the fiber cur leads to.
LEMMA PauseSleepGood ==
  ASSUME IInv, ~stray, PauseSleep
  PROVE  Good'
<1>1. TypeOK /\ Placed /\ Good
  BY IInvGood, Zenon DEF IInv
<1> DEFINE g == next_avail[cur]
<1>2. cur \in ring /\ Linked = Avail \cup {cur} /\ cur \notin Avail
  BY <1>1, Zenon DEF PauseSleep, Placed, Linked, Pausing, Avail
<1>3. g \in Avail /\ Avail \cap Arc(cur, g) = {}
  BY <1>1, <1>2, Zenon DEF Good, Links, IsNext, PauseSleep
<1>4. ring' = ring /\ Avail' = Avail /\ Linked' = Avail
  BY Zenon DEF PauseSleep, Avail, Linked, Pausing
<1>5. Avail \subseteq Fiber /\ cur \in Fiber /\ g \in Fiber /\ ring \subseteq Fiber
  BY <1>1, <1>3, Zenon DEF TypeOK, Avail
<1>6. ASSUME NEW f \in ring PROVE IsNext(Avail, f, next_avail'[f])
  <2>1. f \in Fiber
    BY <1>5, Zenon
  <2>2. CASE f \in Walk(cur, Avail)
    <3>1. next_avail'[f] = g
      BY <2>1, <2>2, Zenon DEF PauseSleep
    <3>2. Avail \cap Arc(f, cur) = {}
      BY <2>2, Zenon DEF Walk
    <3>3. Avail \cap Arc(f, g) = {}
      BY <1>2, <1>3, <1>5, <2>1, <3>2, ArcSplit, Zenon
    <3> QED BY <1>3, <3>1, <3>3, Zenon DEF IsNext
  <2>3. CASE f \notin Walk(cur, Avail)
    <3>1. next_avail'[f] = next_avail[f]
      BY <2>1, <2>3, Zenon DEF PauseSleep
    <3>2. Avail \cap Arc(f, cur) # {}
      BY <2>3, Zenon DEF Walk
    <3> QED BY <1>1, <1>2, <3>1, <3>2, Zenon DEF Good, Links, IsNext
  <2> QED BY <2>2, <2>3, Zenon
<1>7. Links'
  BY <1>4, <1>6, Zenon DEF Links
<1> QED BY <1>1, <1>7, Zenon DEF Good, PauseSleep

\* An unpause of u turns to u the links of the fibers that have nothing
\* available before u; the others still lead to a fiber before u.
LEMMA UnpauseGood ==
  ASSUME IInv, ~stray, NEW u \in Fiber, Unpause(u)
  PROVE  Good'
<1>1. TypeOK /\ Placed /\ Spawning /\ Good
  BY IInvGood, Zenon DEF IInv
<1>2. /\ u \in ring /\ ring' = ring /\ cur' = cur /\ returned' = returned
      /\ at' \in Pausing <=> at \in Pausing
      /\ at \notin {"spawn", "done"}
  BY <1>1, Zenon DEF Unpause, Pausing, Spawning, Placed
<1>3. cur \in ring /\ cur \in Fiber /\ ring \subseteq Fiber
  BY <1>1, <1>2, Zenon DEF Placed, TypeOK
<1>4. Avail' = Avail \cup {u}
  BY <1>1, <1>2, Zenon DEF Unpause, Avail, TypeOK
<1>5. Linked' = Linked \cup {u}
  BY <1>2, <1>4, Zenon DEF Linked
<1>6. ASSUME NEW f \in ring, f \in Walk(u, Avail \cup {u})
      PROVE  IsNext(Avail', f, next_avail'[f]) /\ (f = cur => IsNext(Linked', f, next_avail'[f]))
  <2>1. next_avail'[f] = u
    BY <1>3, <1>6, Zenon DEF Unpause
  <2>2. Avail' \cap Arc(f, u) = {}
    BY <1>4, <1>6, Zenon DEF Walk
  <2>3. f \notin Arc(f, u)
    BY <1>3, ArcEnds, Zenon
  <2> QED BY <1>4, <1>5, <2>1, <2>2, <2>3, Zenon DEF IsNext, Linked
<1>7. ASSUME NEW f \in ring, f \notin Walk(u, Avail \cup {u}), NEW S,
             IsNext(S, f, next_avail[f]), Avail \subseteq S
      PROVE  IsNext(S \cup {u}, f, next_avail'[f])
  <2>1. next_avail'[f] = next_avail[f] /\ next_avail[f] \in Fiber
    BY <1>1, <1>3, <1>7, Zenon DEF Unpause, TypeOK
  <2>2. PICK a \in Avail : a \in Arc(f, u)
    BY <1>3, <1>7, ArcEnds, Zenon DEF Walk
  <2>3. u \notin Arc(f, next_avail[f])
    BY <1>3, <1>7, <2>1, <2>2, ArcPrefix, Zenon DEF IsNext
  <2> QED BY <1>7, <2>1, <2>3, Zenon DEF IsNext
<1>8. Links'
  <2>1. ASSUME NEW f \in ring
        PROVE IsNext(Avail', f, next_avail'[f]) \/ IsNext(Linked', f, next_avail'[f])
    <3>1. IsNext(Avail, f, next_avail[f]) \/ IsNext(Linked, f, next_avail[f])
      BY <1>1, Zenon DEF Good, Links
    <3>2. Avail \subseteq Avail /\ Avail \subseteq Linked
      BY Zenon DEF Linked
    <3> QED BY <1>4, <1>5, <1>6, <1>7, <3>1, <3>2, Zenon
  <2>2. IsNext(Linked', cur, next_avail'[cur])
    <3>1. IsNext(Linked, cur, next_avail[cur]) /\ Avail \subseteq Linked
      BY <1>1, <1>3, Zenon DEF Good, Links, Linked
    <3> QED BY <1>3, <1>5, <1>6, <1>7, <3>1, Zenon
  <2> QED BY <1>2, <2>1, <2>2, Zenon DEF Links
<1>9. at' # "wait" /\ (returned' => cur' \notin waiting') /\ (at' = "run" => cur' \in Avail')
  BY <1>1, <1>2, <1>4 DEF Unpause, Good
<1>10. \A f \in ring' : paused'[f] <=> f \in waiting' \/ (returned' /\ f = cur')
  <2>1. ~(returned /\ u = cur)
    BY <1>1, Zenon DEF Unpause, Good
  <2> QED BY <1>1, <1>2, <1>3, <2>1 DEF Unpause, Good, TypeOK
<1> QED BY <1>8, <1>9, <1>10, Zenon DEF Good

\* The steps that leave the set of links a pause or a yield relies on alone.
LEMMA LocalGood ==
  ASSUME IInv, ~stray, ~stray',
         Start \/ (\E n \in 0 .. MaxSleep : Sleep(n)) \/ Switch \/ PreparePause
         \/ PauseAwaken \/ PauseWait \/ Return \/ Unlink
  PROVE  Good'
<1>1. TypeOK /\ Placed /\ Spawning /\ Good /\ Links
  BY IInvGood, Zenon DEF Good
<1>2. CASE Start
  <2>1. FirstOf(ring) \in ring
    BY <1>1, <1>2, LeastFiber, Zenon DEF Start, TypeOK
  <2>2. Avail' = Avail /\ Linked' = Linked /\ Linked = Avail /\ Avail = ring
    BY <1>1, <1>2, Zenon DEF Start, Avail, Linked, Pausing, Spawning, TypeOK
  <2>3. Links'
    BY <1>1, <1>2, <2>1, <2>2, Zenon DEF Start, Links
  <2> QED BY <1>1, <1>2, <2>1, <2>2, <2>3, Zenon DEF Start, Good, Spawning
<1>3. ASSUME NEW n \in 0 .. MaxSleep, Sleep(n) PROVE Good'
  <2>1. Avail' = Avail /\ Linked' = Linked
    BY <1>3, Zenon DEF Sleep, Avail, Linked, Pausing
  <2> QED BY <1>1, <1>3, <2>1, Zenon DEF Sleep, Good, Links
<1>4. CASE Switch
  <2>1. Avail' = Avail /\ Linked' = Avail /\ Linked = Avail
    BY <1>4, Zenon DEF Switch, Avail, Linked, Pausing
  <2>2. cur' \in Avail /\ ~returned
    BY <1>1, <1>4, <2>1, Zenon DEF Switch, Links, IsNext, Placed, Pausing
  <2>3. Links'
    BY <1>1, <1>4, <2>1, Zenon DEF Switch, Links
  <2> QED BY <1>1, <1>4, <2>1, <2>2, <2>3, Zenon DEF Switch, Good
<1>5. CASE PreparePause
  <2>1. Avail' = Avail \ {cur} /\ Linked = Avail /\ Linked' = Avail
    BY <1>1, <1>5, Zenon DEF PreparePause, Avail, Linked, Pausing, Good, TypeOK
  <2>2. Links'
    BY <1>1, <1>5, <2>1, Zenon DEF PreparePause, Links
  <2>3. ~returned /\ ~returned'
    BY <1>1, <1>5, Zenon DEF PreparePause, Placed, Pausing
  <2> QED BY <1>1, <1>5, <2>2, <2>3, Zenon DEF PreparePause, Good, TypeOK
<1>6. CASE PauseAwaken
  <2>1. Avail' = Avail /\ Linked' = Avail /\ Linked = Avail /\ cur \in Avail
    BY <1>1, <1>6, Zenon DEF PauseAwaken, Avail, Linked, Pausing, Placed
  <2> QED BY <1>1, <1>6, <2>1, Zenon DEF PauseAwaken, Good, Links
<1>7. CASE PauseWait
  <2>1. Avail' = Avail /\ Linked' = Linked /\ Linked = Avail \cup {cur}
    BY <1>7, Zenon DEF PauseWait, Avail, Linked, Pausing
  <2>2. cur \in ring /\ cur \in Fiber /\ cur \notin Avail /\ Avail \subseteq Fiber
    BY <1>1, <1>7, Zenon DEF PauseWait, Placed, TypeOK, Avail
  <2>3. Avail = {}
    <3>1. Linked \cap Arc(cur, cur) = {}
      BY <1>1, <1>7, <2>2, Zenon DEF PauseWait, Links, IsNext
    <3> QED BY <2>1, <2>2, <3>1, ArcRound, Zenon
  <2> QED BY <1>1, <1>7, <2>1, <2>3, Zenon DEF PauseWait, Good, Links
<1>8. CASE Return
  <2>1. CASE ring = {cur}
    BY <1>1, <1>8, <2>1, Zenon DEF Return, Good, Links, Placed, Pausing
  <2>2. CASE ring # {cur}
    <3>1. Avail' = Avail \ {cur} /\ Linked = Avail /\ Linked' = Avail
      BY <1>1, <1>8, <2>2 DEF Return, Avail, Linked, Pausing, Good, TypeOK
    <3>2. Links'
      BY <1>1, <1>8, <2>2, <3>1, Zenon DEF Return, Links
    <3>3. ~returned /\ returned' /\ cur \in ring /\ cur \notin waiting
      BY <1>1, <1>8, <2>2, Zenon DEF Return, Placed, Pausing, Good, Avail
    <3> QED BY <1>1, <1>8, <2>2, <3>2, <3>3, Zenon DEF Return, Good, TypeOK
  <2> QED BY <2>1, <2>2, Zenon
<1>9. CASE Unlink
  <2>1. returned /\ paused[cur] /\ cur \in ring /\ cur \notin Avail
    BY <1>1, <1>9, Zenon DEF Unlink, Placed, Good, Avail
  <2>2. Avail' = Avail /\ Linked' = Avail /\ Linked = Avail
    BY <1>9, <2>1, Zenon DEF Unlink, Avail, Linked, Pausing
  <2>3. Links'
    BY <1>1, <1>9, <2>2, Zenon DEF Unlink, Links
  <2>4. ring' \in SUBSET Fiber /\ ring' # {}
    BY <1>1, <1>9, <2>1, Zenon DEF Unlink, TypeOK, Placed
  <2>5. cur' \in ring' /\ cur' \notin waiting
    BY <1>9, <2>4, LeastFiber, Zenon DEF Unlink
  <2> QED BY <1>1, <1>9, <2>3, <2>5, Zenon DEF Unlink, Good, Avail
<1> QED BY <1>2, <1>3, <1>4, <1>5, <1>6, <1>7, <1>8, <1>9, Zenon

LEMMA StepIInv == IInv /\ [Next]_vars => IInv'
<1> SUFFICES ASSUME IInv, [Next]_vars PROVE IInv'
  BY Zenon
<1>1. CASE Next
  <2>1. TypeOK' /\ Spawning' /\ Placed'
    BY <1>1, ShapeStep, Zenon
  <2>2. stray => stray'
    BY <1>1, Zenon DEF Next, Thread, Spawn, Start, Sleep, Switch, PreparePause, PauseAwaken,
                PauseWait, PauseSleep, Return, Unlink, Unpause
  <2>3. stray' \/ Good'
    BY <1>1, <2>2, SpawnGood, LocalGood, PauseSleepGood, UnpauseGood, Zenon DEF Next, Thread
  <2>4. (IInv <=> TypeOK /\ Spawning /\ Placed /\ (stray \/ Good))'
    BY Zenon DEF IInv, Good, Links, NextAvailRight, RunsAvailable, BlocksOnlyIfIdle,
           PausedIffParked, Leaving
  <2> QED BY <2>1, <2>3, <2>4, Zenon
<1>2. CASE UNCHANGED vars
  BY <1>2, Zenon DEF vars, IInv, TypeOK, Spawning, Placed, NextAvailRight, RunsAvailable,
              BlocksOnlyIfIdle, PausedIffParked, Leaving, Linked, Avail, IsNext
<1> QED BY <1>1, <1>2, Zenon

LEMMA Invariance == Spec => []IInv
BY InitIInv, StepIInv, PTL DEF Spec

\* Every variable keeps its type, for any number of fibers.
THEOREM TypeCorrect == Spec => []TypeOK
<1>1. IInv => TypeOK
  BY Zenon DEF IInv
<1> QED BY <1>1, Invariance, PTL

\* The next_avail links that pause, unpause, spawn_fn and run maintain are
\* right at every moment, for any number of fibers.
THEOREM LinksCorrect == Spec => []NextAvailRight
<1>1. IInv => NextAvailRight
  BY Zenon DEF IInv
<1> QED BY <1>1, Invariance, PTL

\* The yield resumes only fibers that are not paused.
THEOREM ResumeCorrect == Spec => []RunsAvailable
<1>1. IInv => RunsAvailable
  BY Zenon DEF IInv
<1> QED BY <1>1, Invariance, PTL

\* The thread of the group blocks in pause only while no fiber can run.
THEOREM BlockCorrect == Spec => []BlocksOnlyIfIdle
<1>1. IInv => BlocksOnlyIfIdle
  BY Zenon DEF IInv
<1> QED BY <1>1, Invariance, PTL

\* A fiber is flagged paused exactly while its wait entry is queued.
THEOREM FlagCorrect == Spec => []PausedIffParked
<1>1. IInv => PausedIffParked
  BY Zenon DEF IInv
<1> QED BY <1>1, Invariance, PTL

\* The four together: the ring is right, for any number of fibers.
THEOREM RingCorrect == Spec => []RingRight
BY LinksCorrect, ResumeCorrect, BlockCorrect, FlagCorrect, PTL DEF RingRight

\* Every step of the group, as long as no parked fiber is restarted, is a
\* step of RoundRobin or leaves its state alone.
LEMMA StepTakesTurns ==
  ASSUME IInv, ~stray, ~stray', [Next]_vars
  PROVE  [RR!Next]_(RR!vars)
<1> USE DEF RR!vars, RR!Fiber, Fiber
<1> DEFINE running == at # "spawn"
<1>1. TypeOK /\ Placed /\ Spawning /\ Good /\ Links
  BY IInvGood, Zenon DEF Good
<1>2. ASSUME NEW f \in Fiber, Spawn(f) PROVE RR!Next
  <2>1. f \notin ring /\ ring' = ring \cup {f} /\ cur' = cur
    BY <1>2 DEF Spawn
  <2>2. Avail' = Avail \cup {f}
    BY <1>1, <1>2, <2>1, Zenon DEF Spawn, Avail, TypeOK
  <2>3. ~running /\ running' = running
    BY <1>2, Zenon DEF Spawn
  <2> QED BY <2>1, <2>2, <2>3, Zenon DEF RR!Next, RR!Join
<1>3. ASSUME Start PROVE RR!Next
  <2>1. RR!IsFirst(FirstOf(ring), ring)
    BY <1>1, <1>3, LeastFiber, Zenon DEF Start, TypeOK, RR!IsFirst
  <2>2. ~running /\ running' = TRUE
    BY <1>3 DEF Start
  <2> QED BY <1>3, <2>1, <2>2, Zenon DEF Start, Avail, RR!Next, RR!Enter
<1>4. ASSUME NEW n \in 0 .. MaxSleep, Sleep(n) PROVE UNCHANGED RR!vars
  <2>1. running' = running
    BY <1>4 DEF Sleep
  <2> QED BY <1>4, <2>1, Zenon DEF Sleep, Avail
<1>5. ASSUME Switch PROVE RR!Next
  <2>1. IsNext(Avail, cur, cur') /\ UNCHANGED <<ring, Avail>>
    BY <1>1, <1>5, Zenon DEF Switch, Links, Placed, Linked, Pausing, Avail
  <2>2. running /\ running' = running
    BY <1>5 DEF Switch
  <2> QED BY <2>1, <2>2, Zenon DEF IsNext, Arc, RR!Next, RR!PassTurn, RR!Between
<1>6. ASSUME PreparePause PROVE RR!Next
  <2>1. Avail' = Avail \ {cur} /\ UNCHANGED <<ring, cur>>
    BY <1>1, <1>6, Zenon DEF PreparePause, Avail, TypeOK
  <2>2. running /\ running' = running
    BY <1>6 DEF PreparePause
  <2> QED BY <2>1, <2>2, Zenon DEF RR!Next, RR!Block
<1>7. ASSUME PauseAwaken \/ PauseWait \/ PauseSleep PROVE UNCHANGED RR!vars
  <2>1. running' = running
    BY <1>7 DEF PauseAwaken, PauseWait, PauseSleep
  <2> QED BY <1>7, <2>1, Zenon DEF PauseAwaken, PauseWait, PauseSleep, Avail
<1>8. ASSUME Return PROVE RR!Next
  <2>0. running /\ running' = running
    BY <1>8 DEF Return
  <2>1. CASE ring = {cur}
    <3>1. Avail' = Avail \ {cur} /\ ring' = ring \ {cur} /\ ring' = {} /\ cur' = cur
      BY <1>8, <2>1, Zenon DEF Return, Avail
    <3> QED BY <2>0, <2>1, <3>1, Zenon DEF RR!Next, RR!Leave
  <2>2. CASE ring # {cur}
    <3>1. Avail' = Avail \ {cur} /\ UNCHANGED <<ring, cur>>
      BY <1>1, <1>8, <2>2, Zenon DEF Return, Avail, TypeOK
    <3> QED BY <2>0, <3>1, Zenon DEF RR!Next, RR!Block
  <2> QED BY <2>1, <2>2, Zenon
<1>9. ASSUME Unlink PROVE RR!Next
  <2>1. returned /\ cur \in ring /\ ring' = ring \ {cur} /\ ring' # {}
    BY <1>1, <1>9, Zenon DEF Unlink, Placed
  <2>2. Avail' = Avail \ {cur}
    BY <1>9, <2>1, Zenon DEF Unlink, Avail
  <2>3. ring' \in SUBSET Fiber
    BY <1>1, <2>1, Zenon DEF TypeOK
  <2>4. cur' = FirstOf(ring') /\ cur' \notin waiting /\ paused' = paused
    BY <1>9, Zenon DEF Unlink
  <2>5. RR!IsFirst(cur', ring')
    BY <2>1, <2>3, <2>4, LeastFiber, Zenon DEF RR!IsFirst
  <2>6. cur' \in Avail'
    BY <1>1, <2>1, <2>4, <2>5, Zenon DEF Good, Avail, RR!IsFirst
  <2>7. running /\ running' = running
    BY <1>9 DEF Unlink
  <2> QED BY <2>1, <2>2, <2>5, <2>6, <2>7, Zenon DEF RR!Next, RR!Leave
<1>10. ASSUME NEW f \in Fiber, Unpause(f) PROVE RR!Next
  <2>1. f \in ring /\ Avail' = Avail \cup {f} /\ UNCHANGED <<ring, cur>>
    BY <1>1, <1>10, Zenon DEF Unpause, Avail, TypeOK
  <2>2. running /\ running' = running
    BY <1>1, <1>10 DEF Unpause, Spawning
  <2> QED BY <2>1, <2>2, Zenon DEF RR!Next, RR!Wake
<1>11. ASSUME UNCHANGED vars PROVE UNCHANGED RR!vars
  BY <1>11, Zenon DEF vars, Avail
<1> QED BY <1>2, <1>3, <1>4, <1>5, <1>6, <1>7, <1>8, <1>9, <1>10, <1>11, Zenon DEF Next, Thread

\* The fibers take turns as RoundRobin says for any number of fibers, whatever
\* they do and whichever of them return, until run() restarts a parked fiber.
THEOREM ImplementsRoundRobin == Spec => TakesTurns
<1>1. Init => RR!Init
  BY Zenon DEF Init, RR!Init, Avail
<1>2. IInv /\ [Next]_vars => [RR!Next \/ stray']_(RR!vars)
  <2>1. stray /\ [Next]_vars => stray'
    BY Zenon DEF Next, vars, Thread, Spawn, Start, Sleep, Switch, PreparePause, PauseAwaken,
           PauseWait, PauseSleep, Return, Unlink, Unpause
  <2> QED BY <2>1, StepTakesTurns, Zenon
<1> QED BY <1>1, <1>2, Invariance, PTL DEF Spec, TakesTurns

\* A group none of whose fibers returns never restarts a parked fiber, so it
\* implements RoundRobin outright; this is the group of a running system.
THEOREM RunningImplementsRoundRobin ==
  ASSUME Returns = {}
  PROVE  Spec => RR!Spec
<1> DEFINE I == ~stray /\ ~returned /\ at # "unlink"
<1>1. Init => I
  BY Zenon DEF Init
<1>2. ASSUME I, [Next]_vars PROVE I'
  <2>1. ~Return /\ ~Unlink
    BY <1>2, Zenon DEF Return, Unlink
  <2>2. CASE \E f \in Fiber : Spawn(f) \/ Unpause(f)
    BY <1>2, <2>2 DEF Spawn, Unpause
  <2>3. CASE Start \/ (\E n \in 0 .. MaxSleep : Sleep(n)) \/ Switch \/ PreparePause
    BY <1>2, <2>3 DEF Start, Sleep, Switch, PreparePause
  <2>4. CASE PauseAwaken \/ PauseWait \/ PauseSleep
    BY <1>2, <2>4 DEF PauseAwaken, PauseWait, PauseSleep
  <2>5. CASE UNCHANGED vars
    BY <1>2, <2>5, Zenon DEF vars
  <2> QED BY <1>2, <2>1, <2>2, <2>3, <2>4, <2>5, Zenon DEF Next, Thread
<1>3. I => ~stray
  BY Zenon
<1>4. ~stray' => ([RR!Next \/ stray']_(RR!vars) => [RR!Next]_(RR!vars))
  BY Zenon
<1> HIDE DEF I
<1> QED BY <1>1, <1>2, <1>3, <1>4, ImplementsRoundRobin, PTL DEF Spec, TakesTurns, RR!Spec

-----------------------------------------------------------------------------
(* Lockstep mode.                                                          *)

\* The event loop, fiber 0, is always available and asks for single cycles,
\* and no fiber returns.
Clock ==
  /\ ~stray /\ ~returned /\ at \notin {"unlink", "done"}
  /\ at # "spawn" => 0 \in Avail
  /\ at \in Pausing => cur # 0
  /\ cycles_to_sleep[0] = 0

\* Every round of turns starts with the event loop.  A sleeper the round has
\* passed already lacks one cycle more than its counter says.
Owed(f) == IF at = "run" /\ cur = f THEN 0
           ELSE cycles_to_sleep[f] + (IF f <= cur THEN 1 ELSE 0)

\* The inductive invariant: sleepers are available, so no hop skips them, and
\* what they still owe is fixed by their counter and the place of the round.
LockInv ==
  /\ IInv
  /\ Clock
  /\ timed \subseteq Fiber /\ left \in [Fiber -> Int]
  /\ at = "spawn" => timed = {}
  /\ at \in Pausing => cur \notin timed
  /\ timed \subseteq Avail
  /\ \A f \in timed : left[f] = Owed(f)

LEMMA ZeroFiber == 0 \in Fiber
BY NAssumption DEF Fiber

LEMMA LInitInv == LInit => LockInv
<1> SUFFICES ASSUME LInit PROVE LockInv
  BY Zenon
<1>1. IInv
  BY InitIInv, Zenon DEF LInit
<1>2. Clock
  BY ZeroFiber, Zenon DEF LInit, Init, Clock, Pausing
<1> QED BY <1>1, <1>2 DEF LInit, Init, LockInv, Pausing

LEMMA LNextNext == LNext => Next
BY Zenon DEF LNext, LSleep, LSwitch, LPark, LOther, Next, Thread

LEMMA LSleepInv ==
  ASSUME LockInv, NEW n \in 0 .. MaxSleep, LSleep(n), IInv'
  PROVE  LockInv'
<1>1. TypeOK /\ IInv /\ Clock /\ cur \in Avail /\ cur \in Fiber /\ n \in Nat
  BY MaxSleepAssumption DEF LockInv, IInv, Clock, LSleep, Sleep, RunsAvailable, TypeOK
<1>2. Avail' = Avail /\ cur' = cur /\ at = "run" /\ at' = "switch"
  BY Zenon DEF LSleep, Sleep, Avail
<1>3. Clock'
  <2>1. cycles_to_sleep'[0] = 0
    BY <1>1, ZeroFiber, Zenon DEF LSleep, Sleep, Clock, TypeOK
  <2> QED BY <1>1, <1>2, <2>1, Zenon DEF LSleep, Sleep, Clock, Pausing
<1>4. ASSUME NEW f \in timed' PROVE left'[f] = Owed(f)'
  <2>1. CASE f = cur
    <3>1. left'[f] = n + 1 /\ cycles_to_sleep'[f] = n
      BY <1>1, <2>1, Zenon DEF LSleep, Sleep, TypeOK, LockInv
    <3> QED BY <1>1, <1>2, <2>1, <3>1, NAssumption DEF Owed, Fiber
  <2>2. CASE f # cur
    <3>1. f \in timed /\ f \in Fiber
      BY <2>2, Zenon DEF LSleep, LockInv
    <3>2. left'[f] = left[f] /\ cycles_to_sleep'[f] = cycles_to_sleep[f]
      BY <1>1, <2>2, <3>1, Zenon DEF LSleep, Sleep, TypeOK, LockInv
    <3> QED BY <1>2, <2>2, <3>1, <3>2, Zenon DEF Owed, LockInv
  <2> QED BY <2>1, <2>2, Zenon
<1>5. timed' \subseteq Fiber /\ left' \in [Fiber -> Int] /\ timed' \subseteq Avail'
  BY <1>1, <1>2 DEF LSleep, LockInv
<1> QED BY <1>2, <1>3, <1>4, <1>5, Zenon DEF LockInv, Pausing

LEMMA LSwitchInv ==
  ASSUME LockInv, LSwitch, IInv'
  PROVE  LockInv'
<1> DEFINE g == next_avail[cur]
<1>1. TypeOK /\ IInv /\ Clock /\ Placed /\ ~stray /\ at = "switch"
  BY Zenon DEF LockInv, IInv, Clock, LSwitch, Switch
<1>2. /\ Avail' = Avail /\ cur' = g /\ at' \in {"run", "switch"}
      /\ timed' = timed /\ ring' = ring
  BY <1>1, Zenon DEF LSwitch, Switch, Avail
<1>3. g \in Avail /\ Avail \cap Arc(cur, g) = {} /\ 0 \in Avail
  BY <1>1, Zenon DEF IInv, NextAvailRight, Placed, Linked, Pausing, IsNext, Clock
<1>4. Avail \subseteq Fiber /\ cur \in Fiber /\ g \in Fiber /\ 0 \in Fiber
  BY <1>1, <1>3, ZeroFiber, Zenon DEF TypeOK, Avail
\* The round either goes on to a later fiber or starts again at 0.
<1>5. g = 0 \/ cur < g
  BY <1>3, <1>4, NAssumption DEF Arc, Fiber
<1>6. /\ cycles_to_sleep \in [Fiber -> 0 .. MaxSleep]
      /\ cycles_to_sleep'[0] = 0
      /\ \A f \in Fiber : f # g => cycles_to_sleep'[f] = cycles_to_sleep[f]
      /\ IF cycles_to_sleep[g] = 0 THEN at' = "run" /\ cycles_to_sleep'[g] = 0
         ELSE at' = "switch" /\ cycles_to_sleep'[g] = cycles_to_sleep[g] - 1
  BY <1>1, <1>4 DEF LSwitch, Switch, TypeOK, Clock
<1>7. Clock'
  BY <1>1, <1>2, <1>3, <1>6, Zenon DEF LSwitch, Switch, Clock, Pausing
<1>8. ASSUME NEW f \in timed PROVE left'[f] = Owed(f)'
  <2>1. f \in Avail /\ f \in Fiber /\ left[f] \in Int /\ left[f] = Owed(f)
    BY Zenon DEF LockInv
  <2>2. left[f] = cycles_to_sleep[f] + (IF f <= cur THEN 1 ELSE 0)
    BY <1>1, <2>1, Zenon DEF Owed
  <2>3. f \notin Arc(cur, g)
    BY <1>3, <2>1, Zenon
  <2>4. CASE g = 0
    <3>1. left'[f] = left[f] - 1
      BY <1>2, <2>1, <2>4, Zenon DEF LSwitch
    <3>2. f <= cur
      BY <1>4, <2>1, <2>3, <2>4, NAssumption DEF Arc, Fiber
    <3>3. CASE f = 0
      <4>1. at' = "run" /\ cycles_to_sleep[f] = 0 /\ cur' = f
        BY <1>1, <1>2, <1>6, <2>4, <3>3, Zenon DEF Clock
      <4> QED BY <2>2, <3>1, <3>2, <4>1 DEF Owed
    <3>4. CASE f # 0
      <4>1. ~(f <= cur') /\ cycles_to_sleep'[f] = cycles_to_sleep[f]
            /\ cycles_to_sleep[f] \in Int
        BY <1>2, <1>6, <2>1, <2>4, <3>4, NAssumption, MaxSleepAssumption DEF Fiber
      <4> QED BY <1>2, <2>2, <2>4, <3>1, <3>2, <3>4, <4>1 DEF Owed
    <3> QED BY <3>3, <3>4, Zenon
  <2>5. CASE g # 0
    <3>1. left'[f] = left[f]
      BY <1>2, <2>1, <2>5, Zenon DEF LSwitch
    <3>2. cur < g /\ cycles_to_sleep[f] \in Int
      BY <1>5, <1>6, <2>1, <2>5, MaxSleepAssumption
    <3>3. CASE f = g
      <4>1. ~(f <= cur) /\ f <= cur'
        BY <1>2, <1>4, <3>2, <3>3, NAssumption DEF Fiber
      <4> QED BY <1>2, <1>6, <2>2, <3>1, <3>2, <3>3, <4>1 DEF Owed
    <3>4. CASE f # g
      <4>1. f <= cur <=> f <= cur'
        BY <1>2, <1>4, <2>1, <2>3, <3>2, <3>4, NAssumption DEF Arc, Fiber
      <4>2. cycles_to_sleep'[f] = cycles_to_sleep[f]
        BY <1>6, <2>1, <3>4, Zenon
      <4> QED BY <1>2, <2>2, <3>1, <3>4, <4>1, <4>2, Zenon DEF Owed
    <3> QED BY <3>3, <3>4, Zenon
  <2> QED BY <2>4, <2>5, Zenon
<1>9. left' \in [Fiber -> Int]
  BY DEF LSwitch, LockInv
<1> QED BY <1>1, <1>2, <1>7, <1>8, <1>9, Zenon DEF LockInv, Pausing

LEMMA LParkInv ==
  ASSUME LockInv, LPark, IInv'
  PROVE  LockInv'
<1>1. TypeOK /\ Clock /\ at = "run" /\ at' = "prepared" /\ cur' = cur /\ cur # 0
  BY Zenon DEF LockInv, IInv, LPark, PreparePause
<1>2. Avail' = Avail \ {cur}
  BY <1>1, Zenon DEF LPark, PreparePause, Avail, TypeOK
<1>3. Clock'
  BY <1>1, <1>2, Zenon DEF LPark, PreparePause, Clock, Pausing
<1>4. ASSUME NEW f \in timed' PROVE left'[f] = Owed(f)'
  BY <1>1, Zenon DEF LPark, PreparePause, LockInv, Owed
<1> QED BY <1>1, <1>2, <1>3, <1>4, Zenon DEF LPark, LockInv, Pausing

LEMMA LOtherInv ==
  ASSUME LockInv, LOther, IInv'
  PROVE  LockInv'
<1>1. TypeOK /\ IInv /\ Clock /\ Spawning /\ UNCHANGED <<timed, left>>
  BY Zenon DEF LockInv, IInv, LOther
<1>2. ASSUME NEW f \in Fiber, Spawn(f) PROVE LockInv'
  <2>1. at = "spawn" /\ at' = "spawn" /\ timed = {}
    BY <1>2, Zenon DEF LockInv, Spawn
  <2>2. Clock'
    BY <1>1, <1>2, <2>1, ZeroFiber, Zenon DEF Spawn, Clock, TypeOK, Pausing
  <2> QED BY <1>1, <2>1, <2>2, Zenon DEF LockInv, Pausing
<1>3. ASSUME NEW f \in Fiber, Unpause(f) PROVE LockInv'
  <2>1. Avail' = Avail \cup {f} /\ cur' = cur
    BY <1>1, <1>3, Zenon DEF Unpause, Avail, TypeOK
  <2>2. /\ at' \in Pausing <=> at \in Pausing
        /\ at' = "run" <=> at = "run"
        /\ at' = "spawn" <=> at = "spawn"
    BY <1>3, Zenon DEF Unpause, Pausing
  <2>3. Clock'
    BY <1>1, <1>3, <2>1, <2>2, Zenon DEF Unpause, Clock
  <2>4. ASSUME NEW x \in timed PROVE left'[x] = Owed(x)'
    BY <1>1, <1>3, <2>1, <2>2, Zenon DEF Unpause, LockInv, Owed
  <2> QED BY <1>1, <2>1, <2>2, <2>3, <2>4, Zenon DEF LockInv
<1>4. ASSUME Start PROVE LockInv'
  <2>1. PICK k \in 0 .. N : ring = 0 .. k - 1
    BY <1>1, <1>4, Zenon DEF Start, Spawning
  <2>2. 0 \in ring
    BY <1>4, <2>1, NAssumption DEF Start
  <2>3. 0 \in Avail'
    BY <1>1, <1>4, <2>2, ZeroFiber, Zenon DEF Start, Spawning, Avail
  <2>4. Clock'
    BY <1>1, <1>4, <2>3, Zenon DEF Start, Clock, Pausing
  <2>5. timed = {}
    BY <1>4, Zenon DEF Start, LockInv
  <2> QED BY <1>1, <1>4, <2>4, <2>5, Zenon DEF Start, LockInv, Pausing
<1>5. ASSUME PauseAwaken \/ PauseWait PROVE LockInv'
  <2>1. /\ Avail' = Avail /\ cur' = cur /\ at \in Pausing
        /\ at' \in {"run", "wait"} /\ cur \notin timed
    BY <1>1, <1>5, Zenon DEF PauseAwaken, PauseWait, Avail, Pausing, Clock, LockInv
  <2>2. Clock'
    BY <1>1, <1>5, <2>1 DEF PauseAwaken, PauseWait, Clock, Pausing
  <2>3. ASSUME NEW x \in timed PROVE left'[x] = Owed(x)'
    BY <1>1, <1>5, <2>1, Zenon DEF PauseAwaken, PauseWait, LockInv, Owed, Pausing
  <2> QED BY <1>1, <2>1, <2>2, <2>3, Zenon DEF LockInv
<1>6. ASSUME PauseSleep PROVE LockInv'
  <2>1. Avail' = Avail /\ cur' = cur /\ at \in Pausing /\ at' = "switch"
        /\ cur \notin timed /\ cur # 0
    BY <1>1, <1>6, Zenon DEF PauseSleep, Avail, Pausing, Clock, LockInv
  <2>2. cycles_to_sleep'[0] = 0
    BY <1>1, <1>6, <2>1, ZeroFiber, Zenon DEF PauseSleep, Clock, TypeOK
  <2>3. Clock'
    BY <1>1, <1>6, <2>1, <2>2, Zenon DEF PauseSleep, Clock, Pausing
  <2>4. ASSUME NEW x \in timed PROVE left'[x] = Owed(x)'
    <3>1. cycles_to_sleep'[x] = cycles_to_sleep[x]
      BY <1>1, <1>6, <2>1, Zenon DEF PauseSleep, TypeOK, LockInv
    <3> QED BY <1>1, <2>1, <3>1, Zenon DEF LockInv, Owed, Pausing
  <2> QED BY <1>1, <2>1, <2>3, <2>4, Zenon DEF LockInv, Pausing
<1> QED BY <1>2, <1>3, <1>4, <1>5, <1>6, Zenon DEF LOther

LEMMA LockStep == LockInv /\ [LNext]_lvars => LockInv'
<1> SUFFICES ASSUME LockInv, [LNext]_lvars PROVE LockInv'
  BY Zenon
<1>1. CASE LNext
  <2>1. IInv'
    BY <1>1, LNextNext, StepIInv, Zenon DEF LockInv
  <2> QED BY <1>1, <2>1, LSleepInv, LSwitchInv, LParkInv, LOtherInv, Zenon DEF LNext
<1>2. CASE UNCHANGED lvars
  <2>1. IInv'
    BY <1>2, StepIInv, Zenon DEF LockInv, lvars
  <2> QED BY <1>2, <2>1, Zenon DEF lvars, vars, LockInv, Clock, Owed, Avail
<1> QED BY <1>1, <1>2, Zenon

\* Lockstep mode is cycle-exact: for any number of harts and any sleeping
\* times, fiber_sleep(n) resumes its caller exactly n + 1 cycles later.
THEOREM LockstepCycleExact == LSpec => []CycleExact
<1>1. LockInv => CycleExact
  <2> SUFFICES ASSUME LockInv, NEW f \in timed
               PROVE  left[f] >= 0 /\ (at = "run" /\ cur = f => left[f] = 0)
    BY Zenon DEF CycleExact
  <2>1. cycles_to_sleep[f] \in Nat
    BY MaxSleepAssumption DEF LockInv, IInv, TypeOK
  <2> QED BY <2>1 DEF LockInv, Owed
<1> QED BY <1>1, LInitInv, LockStep, PTL DEF LSpec

\* The thread of a lockstep group never blocks, so its clock never stops.
THEOREM LockstepClockNeverBlocks == LSpec => []ClockNeverBlocks
<1>1. LockInv => ClockNeverBlocks
  BY Zenon DEF LockInv, IInv, Clock, BlocksOnlyIfIdle, ClockNeverBlocks
<1> QED BY <1>1, LInitInv, LockStep, PTL DEF LSpec

=============================================================================
