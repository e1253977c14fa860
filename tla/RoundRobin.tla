---------------------------- MODULE RoundRobin ----------------------------
(***************************************************************************)
(* What a FiberGroup promises the code above it: it is entered once, at    *)
(* its first fiber; from then on its fibers take turns in ring order, a    *)
(* turn always goes to the next fiber that is available at that moment,    *)
(* and only the fiber whose turn it is can become unavailable or leave.    *)
(* A fiber that leaves hands the turn to the first fiber of the ring,      *)
(* which is available.                                                     *)
(***************************************************************************)
EXTENDS Integers

CONSTANT N

VARIABLES ring,    \* the fibers of the group
          avail,   \* those that are not paused
          turn,    \* the fiber whose turn it is
          running  \* the group has been entered

vars == <<ring, avail, turn, running>>

Fiber == 0 .. N - 1

Between(f, g) == {x \in Fiber : IF f < g THEN f < x /\ x < g ELSE x > f \/ x < g}

IsFirst(f, S) == f \in S /\ \A g \in S : f <= g

Init == ring = {} /\ avail = {} /\ turn = 0 /\ running = FALSE

Join(f) ==
  /\ ~running
  /\ f \notin ring
  /\ ring' = ring \cup {f}
  /\ avail' = avail \cup {f}
  /\ UNCHANGED <<turn, running>>

Enter ==
  /\ ~running
  /\ running' = TRUE
  /\ IsFirst(turn', ring)
  /\ UNCHANGED <<ring, avail>>

PassTurn ==
  /\ running
  /\ turn' \in avail
  /\ avail \cap Between(turn, turn') = {}
  /\ UNCHANGED <<ring, avail, running>>

Block ==
  /\ running
  /\ avail' = avail \ {turn}
  /\ UNCHANGED <<ring, turn, running>>

Wake(f) ==
  /\ running
  /\ f \in ring
  /\ avail' = avail \cup {f}
  /\ UNCHANGED <<ring, turn, running>>

Leave ==
  /\ running
  /\ turn \in ring
  /\ ring' = ring \ {turn}
  /\ avail' = avail \ {turn}
  /\ IF ring' = {} THEN turn' = turn ELSE IsFirst(turn', ring') /\ turn' \in avail'
  /\ UNCHANGED running

Next ==
  \/ \E f \in Fiber : Join(f) \/ Wake(f)
  \/ Enter
  \/ PassTurn
  \/ Block
  \/ Leave

Spec == Init /\ [][Next]_vars
=============================================================================
