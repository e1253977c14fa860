------------------------------ MODULE Monitor ------------------------------
(***************************************************************************)
(* What the fiber mutex and condition variable promise together: a monitor *)
(* whose notifications are sent by the owner.                              *)
(***************************************************************************)
CONSTANTS Fibers, Threads, None

VARIABLES owner,   \* the process that holds the mutex, or None
          waiters  \* the fibers waiting on the condition variable

vars == <<owner, waiters>>

Init == owner = None /\ waiters = {}

Acquire(p) ==
  /\ owner = None
  /\ p \notin waiters
  /\ owner' = p
  /\ UNCHANGED waiters

Release ==
  /\ owner # None
  /\ owner' = None
  /\ UNCHANGED waiters

Wait(f) ==
  /\ owner = f
  /\ owner' = None
  /\ waiters' = waiters \cup {f}

NotifyOne ==
  /\ owner # None
  /\ \E f \in waiters : waiters' = waiters \ {f}
  /\ UNCHANGED owner

NotifyAll ==
  /\ owner # None
  /\ waiters' = {}
  /\ UNCHANGED owner

Next ==
  \/ \E p \in Fibers \cup Threads : Acquire(p)
  \/ Release
  \/ \E f \in Fibers : Wait(f)
  \/ NotifyOne
  \/ NotifyAll

Spec == Init /\ [][Next]_vars
=============================================================================
