----------------------------- MODULE FiberSync -----------------------------
(***************************************************************************)
(* The fiber mutex and condition variable (lib/fiber/src/mutex.rs) and the *)
(* parking lot under them (lib/fiber/src/park.rs), one atomic access or    *)
(* one critical section of a wait list per step.  One mutex M and one      *)
(* condition variable C, as in the pair wfi_mutex / wfi_condvar.           *)
(*                                                                         *)
(* Fibers park; other threads take the mutex by spinning.  How the fibers  *)
(* share threads does not matter here: a parked fiber runs again after     *)
(* FiberGroup::unpause, which module FiberGroup shows.  The build is for   *)
(* x86-64, where compare_exchange_weak does not fail spuriously.  A local  *)
(* variable or a wait entry that will not be read again goes back to its   *)
(* initial value.                                                          *)
(***************************************************************************)
EXTENDS Integers, Sequences, FiniteSets

CONSTANTS Fibers,       \* processes that run in a FiberGroup
          Threads,      \* other threads
          None,         \* a null pointer
          SpinLimit,    \* spinwait limit of lock_slow (20 in the code)
          UseNotifyAll  \* whether the clients call notify_all

ASSUME ProcessAssumption == Fibers \cap Threads = {} /\ None \notin Fibers \cup Threads
ASSUME NoneAssumption == None \notin [head : Fibers, tail : Fibers]
ASSUME SpinAssumption == SpinLimit \in Nat
ASSUME NotifyAssumption == UseNotifyAll \in BOOLEAN

VARIABLES
  locked,     \* RawMutex.locked, as the set of the bits that are set
  has_queue,  \* Condvar.has_queue
  list,       \* WAIT_LIST_MAP: head and tail, or None, for M and C
  next,       \* WaitEntry.next of the entry that each fiber's park on M, on C made
  paused,     \* FiberData.paused
  pc,         \* where each process is, see Label
  ret,        \* where the unlock or notification in progress returns to
  state,      \* the local `state` of lock_slow
  spinwait,   \* the local `spinwait` of lock_slow
  ptr         \* the fiber unpark_one or unpark_all is about to unpause

vars == <<locked, has_queue, list, next, paused, pc, ret, state, spinwait, ptr>>

Proc == Fibers \cup Threads
Key == {"M", "C"}

Label == {"idle", "lock", "load", "loop", "park", "parked", "held", "unlock_slow",
          "unpause", "wait_unlock", "wait_parked", "notify", "clear", "take",
          "unpause_all", "follow"}

Init ==
  /\ locked = {}
  /\ has_queue = FALSE
  /\ list = [k \in Key |-> None]
  /\ next = [k \in Key |-> [f \in Fibers |-> None]]
  /\ paused = [f \in Fibers |-> FALSE]
  /\ pc = [p \in Proc |-> "idle"]
  /\ ret = [p \in Proc |-> "idle"]
  /\ state = [p \in Proc |-> {}]
  /\ spinwait = [p \in Proc |-> 0]
  /\ ptr = [p \in Proc |-> None]

Goto(p, l) == pc' = [pc EXCEPT ![p] = l]

-----------------------------------------------------------------------------
(* park.rs *)

\* Mutant: the entry becomes the tail without being linked to the old one.
EnqueueUnlinked(k, f) ==
  /\ list' = [list EXCEPT ![k] = IF @ = None THEN [head |-> f, tail |-> f]
                                 ELSE [@ EXCEPT !.tail = f]]
  /\ next' = [next EXCEPT ![k][f] = None]
  /\ paused' = [paused EXCEPT ![f] = TRUE]

\* park, in the critical section of the list: append a fresh entry and
\* prepare_pause.
Enqueue(k, f) ==
  /\ IF list[k] = None
     THEN /\ list' = [list EXCEPT ![k] = [head |-> f, tail |-> f]]
          /\ next' = [next EXCEPT ![k][f] = None]
     ELSE /\ list' = [list EXCEPT ![k].tail = f]
          /\ next' = [next EXCEPT ![k] = [@ EXCEPT ![f] = None, ![list[k].tail] = f]]
  /\ paused' = [paused EXCEPT ![f] = TRUE]

\* unpark_one, in the critical section of the list, which is not empty:
\* take the first entry off.
Dequeue(p, k) ==
  LET f == list[k].head IN
  /\ list' = [list EXCEPT ![k] = IF next[k][f] = None THEN None
                                 ELSE [@ EXCEPT !.head = next[k][f]]]
  /\ next' = [next EXCEPT ![k][f] = None]
  /\ ptr' = [ptr EXCEPT ![p] = f]

HaveMore(k) == next[k][list[k].head] # None

\* unpark_one, after the critical section: unpause the fiber taken.
Unpause(p) ==
  /\ pc[p] = "unpause"
  /\ paused' = [paused EXCEPT ![ptr[p]] = FALSE]
  /\ ptr' = [ptr EXCEPT ![p] = None]
  /\ Goto(p, ret[p])
  /\ ret' = [ret EXCEPT ![p] = "idle"]
  /\ UNCHANGED <<locked, has_queue, list, next, state, spinwait>>

\* Mutant: a parked fiber may resume although nobody unpaused it.
ResumeAnyway(f) ==
  /\ pc[f] \in {"parked", "wait_parked"}
  /\ Goto(f, IF pc[f] = "parked" THEN "load" ELSE "lock")
  /\ UNCHANGED <<locked, has_queue, list, next, paused, ret, state, spinwait, ptr>>

\* The fiber is resumed: the pause in park ends once the flag is clear, and
\* lock_slow reads the state again or wait_slow takes the mutex.
Resume(f) ==
  /\ pc[f] \in {"parked", "wait_parked"}
  /\ ~paused[f]
  /\ Goto(f, IF pc[f] = "parked" THEN "load" ELSE "lock")
  /\ UNCHANGED <<locked, has_queue, list, next, paused, ret, state, spinwait, ptr>>

-----------------------------------------------------------------------------
(* RawMutex *)

\* The fast path of lock.
Lock(p) ==
  /\ pc[p] \in {"idle", "lock"}
  /\ IF locked = {}
     THEN locked' = {"LOCKED"} /\ Goto(p, "held")
     ELSE UNCHANGED locked /\ Goto(p, "load")
  /\ UNCHANGED <<has_queue, list, next, paused, ret, state, spinwait, ptr>>

TryLock(p) ==
  /\ pc[p] = "idle"
  /\ "LOCKED" \notin locked
  /\ locked' = locked \cup {"LOCKED"}
  /\ Goto(p, "held")
  /\ UNCHANGED <<has_queue, list, next, paused, ret, state, spinwait, ptr>>

\* lock_slow: read the state, on entry and after each park.
Load(p) ==
  /\ pc[p] = "load"
  /\ state' = [state EXCEPT ![p] = locked]
  /\ spinwait' = [spinwait EXCEPT ![p] = 0]
  /\ Goto(p, "loop")
  /\ UNCHANGED <<locked, has_queue, list, next, paused, ret, ptr>>

\* compare_exchange(state, new): on success go to l, on failure take the
\* value read into state and stay in the loop.
CompareExchange(p, new, l) ==
  IF locked = state[p]
  THEN /\ locked' = new /\ Goto(p, l) /\ state' = [state EXCEPT ![p] = {}]
       /\ spinwait' = [spinwait EXCEPT ![p] = 0]
  ELSE state' = [state EXCEPT ![p] = locked] /\ UNCHANGED <<locked, pc, spinwait>>

\* Mutant: the LOCKED bit is stored without comparing.
LoopAcquireStore(p) ==
  /\ pc[p] = "loop"
  /\ "LOCKED" \notin state[p]
  /\ locked' = state[p] \cup {"LOCKED"}
  /\ Goto(p, "held")
  /\ state' = [state EXCEPT ![p] = {}] /\ spinwait' = [spinwait EXCEPT ![p] = 0]
  /\ UNCHANGED <<has_queue, list, next, paused, ret, ptr>>

LoopAcquire(p) ==
  /\ pc[p] = "loop"
  /\ "LOCKED" \notin state[p]
  /\ CompareExchange(p, state[p] \cup {"LOCKED"}, "held")
  /\ UNCHANGED <<has_queue, list, next, paused, ret, ptr>>

\* Mutant: one turn too many.
SpinsOnceMore(p) == p \in Threads \/ ("PARKED" \notin state[p] /\ spinwait[p] <= SpinLimit)

\* Whether lock_slow reads the state again instead of parking.
Spins(p) == p \in Threads \/ ("PARKED" \notin state[p] /\ spinwait[p] < SpinLimit)

LoopSpin(p) ==
  /\ pc[p] = "loop"
  /\ "LOCKED" \in state[p] /\ Spins(p)
  /\ state' = [state EXCEPT ![p] = locked]
  /\ spinwait' = [spinwait EXCEPT ![p] = IF p \in Threads THEN @ ELSE @ + 1]
  /\ UNCHANGED <<locked, has_queue, list, next, paused, pc, ret, ptr>>

LoopPark(p) ==
  /\ pc[p] = "loop"
  /\ "LOCKED" \in state[p] /\ ~Spins(p)
  /\ IF "PARKED" \in state[p]
     THEN /\ Goto(p, "park") /\ state' = [state EXCEPT ![p] = {}]
          /\ spinwait' = [spinwait EXCEPT ![p] = 0] /\ UNCHANGED locked
     ELSE CompareExchange(p, state[p] \cup {"PARKED"}, "park")
  /\ UNCHANGED <<has_queue, list, next, paused, ret, ptr>>

\* Mutant: the park is not validated.
LockParkUnchecked(f) ==
  /\ pc[f] = "park"
  /\ Enqueue("M", f) /\ Goto(f, "parked")
  /\ UNCHANGED <<locked, has_queue, ret, state, spinwait, ptr>>

\* The park of lock_slow, with its validation.
LockPark(f) ==
  /\ pc[f] = "park"
  /\ IF locked = {"LOCKED", "PARKED"}
     THEN Enqueue("M", f) /\ Goto(f, "parked")
     ELSE Goto(f, "load") /\ UNCHANGED <<list, next, paused>>
  /\ UNCHANGED <<locked, has_queue, ret, state, spinwait, ptr>>

\* unlock, called by the client or by Condvar::wait before it pauses.
Unlock(p) ==
  /\ pc[p] \in {"held", "wait_unlock"}
  /\ LET back == IF pc[p] = "held" THEN "idle" ELSE "wait_parked" IN
     IF locked = {"LOCKED"}
     THEN locked' = {} /\ Goto(p, back) /\ UNCHANGED ret
     ELSE /\ Goto(p, "unlock_slow") /\ ret' = [ret EXCEPT ![p] = back]
          /\ UNCHANGED locked
  /\ UNCHANGED <<has_queue, list, next, paused, state, spinwait, ptr>>

\* Mutant: the PARKED bit is kept but nobody is woken.
UnlockSlowNoWake(p) ==
  /\ pc[p] = "unlock_slow"
  /\ locked' = locked \ {"LOCKED"}
  /\ Goto(p, ret[p]) /\ ret' = [ret EXCEPT ![p] = "idle"]
  /\ UNCHANGED <<has_queue, list, next, ptr, paused, state, spinwait>>

\* Mutant: the PARKED bit is cleared although more fibers wait.
UnlockSlowNoMore(p) ==
  /\ pc[p] = "unlock_slow"
  /\ locked' = {}
  /\ IF list["M"] = None
     THEN /\ Goto(p, ret[p]) /\ ret' = [ret EXCEPT ![p] = "idle"]
          /\ UNCHANGED <<list, next, ptr>>
     ELSE Dequeue(p, "M") /\ Goto(p, "unpause") /\ UNCHANGED ret
  /\ UNCHANGED <<has_queue, paused, state, spinwait>>

\* unlock_slow: unpark_one and its callback, in the critical section.
UnlockSlow(p) ==
  /\ pc[p] = "unlock_slow"
  /\ IF list["M"] = None
     THEN /\ locked' = {} /\ Goto(p, ret[p]) /\ ret' = [ret EXCEPT ![p] = "idle"]
          /\ UNCHANGED <<list, next, ptr>>
     ELSE /\ Dequeue(p, "M")
          /\ locked' = IF HaveMore("M") THEN {"PARKED"} ELSE {}
          /\ Goto(p, "unpause") /\ UNCHANGED ret
  /\ UNCHANGED <<has_queue, paused, state, spinwait>>

-----------------------------------------------------------------------------
(* Condvar; its callers hold the mutex *)

\* wait_slow: park with its validation, which sets has_queue.
Wait(f) ==
  /\ pc[f] = "held"
  /\ Enqueue("C", f)
  /\ has_queue' = TRUE
  /\ Goto(f, "wait_unlock")
  /\ UNCHANGED <<locked, ret, state, spinwait, ptr>>

NotifyOne(p) ==
  /\ pc[p] = "held"
  /\ has_queue
  /\ Goto(p, "notify")
  /\ UNCHANGED <<locked, has_queue, list, next, paused, ret, state, spinwait, ptr>>

\* Mutant: has_queue is cleared although more fibers wait.
NotifyOneSlowClears(p) ==
  /\ pc[p] = "notify"
  /\ has_queue' = FALSE
  /\ IF list["C"] = None
     THEN Goto(p, "held") /\ UNCHANGED <<list, next, ptr, ret>>
     ELSE Dequeue(p, "C") /\ Goto(p, "unpause") /\ ret' = [ret EXCEPT ![p] = "held"]
  /\ UNCHANGED <<locked, paused, state, spinwait>>

NotifyOneSlow(p) ==
  /\ pc[p] = "notify"
  /\ IF list["C"] = None
     THEN has_queue' = FALSE /\ Goto(p, "held") /\ UNCHANGED <<list, next, ptr, ret>>
     ELSE /\ Dequeue(p, "C")
          /\ has_queue' = (has_queue /\ HaveMore("C"))
          /\ Goto(p, "unpause") /\ ret' = [ret EXCEPT ![p] = "held"]
  /\ UNCHANGED <<locked, paused, state, spinwait>>

NotifyAll(p) ==
  /\ UseNotifyAll
  /\ pc[p] = "held"
  /\ has_queue
  /\ Goto(p, "clear")
  /\ UNCHANGED <<locked, has_queue, list, next, paused, ret, state, spinwait, ptr>>

\* notify_all_slow: clear has_queue ...
NotifyAllSlow(p) ==
  /\ pc[p] = "clear"
  /\ has_queue' = FALSE
  /\ Goto(p, "take")
  /\ UNCHANGED <<locked, list, next, paused, ret, state, spinwait, ptr>>

\* Mutant: the list is read but not taken.
UnparkAllTakeKeeps(p) ==
  /\ pc[p] = "take"
  /\ ptr' = [ptr EXCEPT ![p] = IF list["C"] = None THEN None ELSE list["C"].head]
  /\ Goto(p, IF list["C"] = None THEN "held" ELSE "unpause_all")
  /\ UNCHANGED <<locked, has_queue, list, next, paused, ret, state, spinwait>>

\* Mutant: the list is dropped.
UnparkAllTakeDrops(p) ==
  /\ pc[p] = "take"
  /\ list' = [list EXCEPT !["C"] = None]
  /\ Goto(p, "held")
  /\ UNCHANGED <<locked, has_queue, next, paused, ret, state, spinwait, ptr>>

\* ... and unpark_all: take the list ...
UnparkAllTake(p) ==
  /\ pc[p] = "take"
  /\ list' = [list EXCEPT !["C"] = None]
  /\ ptr' = [ptr EXCEPT ![p] = IF list["C"] = None THEN None ELSE list["C"].head]
  /\ Goto(p, IF list["C"] = None THEN "held" ELSE "unpause_all")
  /\ UNCHANGED <<locked, has_queue, next, paused, ret, state, spinwait>>

\* ... unpause the fiber of the entry ...
UnparkAllUnpause(p) ==
  /\ pc[p] = "unpause_all"
  /\ paused' = [paused EXCEPT ![ptr[p]] = FALSE]
  /\ Goto(p, "follow")
  /\ UNCHANGED <<locked, has_queue, list, next, ret, state, spinwait, ptr>>

\* ... and only then read the entry's next.  The entry is on the stack of
\* that fiber: if the fiber has left this park and parked on the mutex, the
\* memory may hold its entry for the mutex instead.
UnparkAllFollow(p) ==
  LET f == ptr[p] IN
  /\ pc[p] = "follow"
  /\ \E k \in IF pc[f] = "parked" THEN Key ELSE {"C"} :
       /\ ptr' = [ptr EXCEPT ![p] = next[k][f]]
       /\ Goto(p, IF next[k][f] = None THEN "held" ELSE "unpause_all")
  /\ next' = [next EXCEPT !["C"][f] = None]
  /\ UNCHANGED <<locked, has_queue, list, paused, ret, state, spinwait>>

-----------------------------------------------------------------------------

\* What p does once it has called an operation, up to the call's return.
Run(p) ==
  \/ (pc[p] = "lock" /\ Lock(p))
  \/ Load(p) \/ LoopAcquire(p) \/ LoopSpin(p)
  \/ (pc[p] = "wait_unlock" /\ Unlock(p))
  \/ UnlockSlow(p) \/ Unpause(p)
  \/ NotifyOneSlow(p)
  \/ NotifyAllSlow(p) \/ UnparkAllTake(p) \/ UnparkAllUnpause(p) \/ UnparkAllFollow(p)

RunFiber(f) == Run(f) \/ LoopPark(f) \/ LockPark(f) \/ Resume(f)

\* The calls of the clients.
Call(p) ==
  \/ (pc[p] = "idle" /\ Lock(p))
  \/ TryLock(p)
  \/ (pc[p] = "held" /\ Unlock(p))
  \/ NotifyOne(p) \/ NotifyAll(p)

Next ==
  \/ \E p \in Proc : Run(p) \/ Call(p)
  \/ \E f \in Fibers : LoopPark(f) \/ LockPark(f) \/ Resume(f) \/ Wait(f)

Spec == Init /\ [][Next]_vars

(***************************************************************************)
(* Every process keeps going once it has called an operation, and one that *)
(* holds the mutex gives it up in the end, by unlock or by wait: the code  *)
(* holds wfi_mutex only for the few instructions of fire_alarm and         *)
(* wait_alarm.                                                             *)
(***************************************************************************)
Release(p) == (pc[p] = "held" /\ Unlock(p)) \/ (p \in Fibers /\ Wait(p))

FairSpec ==
  /\ Spec
  /\ \A p \in Proc : WF_vars(Run(p)) /\ SF_vars(Release(p))
  /\ \A f \in Fibers : WF_vars(RunFiber(f))

-----------------------------------------------------------------------------

TypeOK ==
  /\ locked \subseteq {"LOCKED", "PARKED"}
  /\ has_queue \in BOOLEAN
  /\ list \in [Key -> [head : Fibers, tail : Fibers] \cup {None}]
  /\ next \in [Key -> [Fibers -> Fibers \cup {None}]]
  /\ paused \in [Fibers -> BOOLEAN]
  /\ pc \in [Proc -> Label]
  /\ ret \in [Proc -> {"idle", "held", "wait_parked"}]
  /\ state \in [Proc -> SUBSET {"LOCKED", "PARKED"}]
  /\ spinwait \in [Proc -> 0 .. SpinLimit]
  /\ ptr \in [Proc -> Fibers \cup {None}]

\* p has acquired the mutex and not yet stored its release.
Holding(p) ==
  \/ pc[p] \in {"held", "unlock_slow", "wait_unlock", "notify", "clear", "take",
               "unpause_all", "follow"}
  \/ pc[p] = "unpause" /\ ret[p] = "held"

(***************************************************************************)
(* At most one process is between lock and unlock, whatever mixture of     *)
(* fast paths, parking, spinning threads and condition variable waits got  *)
(* it there; and the LOCKED bit is set exactly while there is one, so an   *)
(* abandoned bit cannot block everybody.                                   *)
(***************************************************************************)
MutualExclusion ==
  /\ \A p, q \in Proc : Holding(p) /\ Holding(q) => p = q
  /\ "LOCKED" \in locked <=> \E p \in Proc : Holding(p)

\* The fibers on the linked list that starts at f: those in every set that has
\* f and, with an entry, the one it points to.
Chain(nx, f) ==
  {g \in Fibers : \A S \in SUBSET Fibers :
     f \in S /\ (\A h \in S : nx[h] # None => nx[h] \in S) => g \in S}

From(k, f) == Chain(next[k], f)

Members(k) == IF list[k] = None THEN {} ELSE From(k, list[k].head)

(***************************************************************************)
(* While fibers wait on the mutex the PARKED bit is set, so that no unlock *)
(* takes the fast path past them; validation, the list's critical section  *)
(* and the plain store in unlock_slow keep this true together.             *)
(***************************************************************************)
QueueSetsParkedBit == list["M"] # None => "PARKED" \in locked

(***************************************************************************)
(* If fibers wait on the mutex while it is free, some process is awake (or *)
(* about to be unpaused) and on its way to take it; nobody sleeps next to  *)
(* a free mutex that no one else will take and release again.              *)
(***************************************************************************)
FreeMutexHasTaker ==
  list["M"] # None /\ "LOCKED" \notin locked =>
    \E p \in Proc :
      \/ pc[p] \in {"lock", "load", "loop", "park"}
      \/ p \in Fibers /\ pc[p] = "parked" /\ ~paused[p]
      \/ pc[p] = "unpause" /\ pc[ptr[p]] = "parked"

(***************************************************************************)
(* While fibers wait on the condition variable, has_queue is set or a      *)
(* notify_all is about to take them all: a notification sent under the     *)
(* mutex never misses a waiter.                                            *)
(***************************************************************************)
QueueSetsHasQueue ==
  list["C"] # None => has_queue \/ \E p \in Proc : pc[p] = "take"

(***************************************************************************)
(* The mutex excludes, and both hints say so when fibers are queued.       *)
(***************************************************************************)
SyncSafe == MutualExclusion /\ QueueSetsParkedBit /\ QueueSetsHasQueue

(***************************************************************************)
(* "Wakes up all blocked fibers on this condvar" (notify_all,              *)
(* mutex.rs:204) and "Park the fiber until woekn up by unlock again"       *)
(* (mutex.rs:71): every paused fiber is still on a wait list or on its way *)
(* to be unpaused by someone who took it off; none is forgotten.           *)
(***************************************************************************)
NoneForgotten ==
  \A f \in Fibers :
    paused[f] =>
      \/ f \in Members("M") \cup Members("C")
      \/ \E p \in Proc :
           \/ pc[p] = "unpause" /\ ptr[p] = f
           \/ pc[p] \in {"unpause_all", "follow"} /\ f \in From("C", ptr[p])

(***************************************************************************)
(* A fiber that parked on the mutex is woken in the end.                   *)
(***************************************************************************)
ParkedIsWoken == \A f \in Fibers : pc[f] = "parked" ~> pc[f] # "parked"

\* The abstract monitor: its owner, and the fibers that wait on the condition
\* variable, which a fiber joins when it releases the mutex.
Owner == IF \E p \in Proc : Holding(p) THEN CHOOSE p \in Proc : Holding(p) ELSE None
Waiters == {f \in Members("C") : ~Holding(f)}

Abs == INSTANCE Monitor WITH owner <- Owner, waiters <- Waiters

(***************************************************************************)
(* Mutex and condition variable implement a monitor: the mutex has one     *)
(* owner, wait releases it and joins the waiters in one step, a waiter     *)
(* takes the mutex again only after a notification removed it from the     *)
(* waiters, and a notification takes one waiter.                           *)
(***************************************************************************)
ImplementsMonitor == Abs!Spec
=============================================================================
