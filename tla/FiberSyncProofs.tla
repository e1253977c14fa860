-------------------------- MODULE FiberSyncProofs --------------------------
(***************************************************************************)
(* Proofs, for any sets of fibers and threads and any spin limit, that the *)
(* fiber mutex excludes, and that its PARKED bit and the condition         *)
(* variable's has_queue flag never hide a waiter; and, for clients that do *)
(* not call notify_all, that no paused fiber is forgotten, that somebody is*)
(* on the way to a free mutex that fibers wait for, and that the mutex and *)
(* the condition variable implement a monitor.                             *)
(***************************************************************************)
EXTENDS FiberSync, TLAPS

FiberLabel == {"park", "parked", "wait_unlock", "wait_parked"}

\* What a process at a given place knows of its own variables.
LocalAt(p) ==
  /\ pc[p] \in FiberLabel => p \in Fibers
  /\ pc[p] \in {"unpause", "unpause_all", "follow"} => ptr[p] \in Fibers
  /\ pc[p] = "unlock_slow" => ret[p] \in {"idle", "wait_parked"}
  /\ pc[p] \in {"unlock_slow", "unpause"} /\ ret[p] = "wait_parked" => p \in Fibers

Local == \A p \in Proc : LocalAt(p)

\* The inductive invariant: QueueSetsHasQueue needs MutualExclusion (only the
\* holder notifies), which needs Local (where an unlock returns to).
IInv == TypeOK /\ Local /\ MutualExclusion /\ QueueSetsParkedBit /\ QueueSetsHasQueue

LEMMA InitIInv == Init => IInv
<1> SUFFICES ASSUME Init PROVE IInv
  BY Zenon
<1> USE ProcessAssumption, SpinAssumption DEF Init
<1>1. TypeOK
  <2>1. 0 \in 0 .. SpinLimit /\ {} \in SUBSET {"LOCKED", "PARKED"} /\ "idle" \in Label
    BY DEF Label
  <2>2. spinwait \in [Proc -> 0 .. SpinLimit] /\ state \in [Proc -> SUBSET {"LOCKED", "PARKED"}]
    BY <2>1, Zenon
  <2>3. /\ list \in [Key -> [head : Fibers, tail : Fibers] \cup {None}]
        /\ next \in [Key -> [Fibers -> Fibers \cup {None}]]
        /\ ptr \in [Proc -> Fibers \cup {None}]
    BY Zenon
  <2> QED BY <2>1, <2>2, <2>3, Zenon DEF TypeOK
<1>2. Local /\ MutualExclusion
  BY Zenon DEF Local, LocalAt, FiberLabel, MutualExclusion, Holding
<1> QED BY <1>1, <1>2, Zenon DEF IInv, QueueSetsParkedBit, QueueSetsHasQueue, Key

-----------------------------------------------------------------------------
(* Types and local knowledge *)

LEMMA EnqueueType ==
  ASSUME TypeOK, NEW k \in Key, NEW f \in Fibers, Enqueue(k, f)
  PROVE  /\ list' \in [Key -> [head : Fibers, tail : Fibers] \cup {None}]
         /\ next' \in [Key -> [Fibers -> Fibers \cup {None}]]
         /\ paused' \in [Fibers -> BOOLEAN]
<1>1. list[k] \in [head : Fibers, tail : Fibers] \cup {None} /\ next[k] \in [Fibers -> Fibers \cup {None}]
  BY Zenon DEF TypeOK
<1>2. paused' \in [Fibers -> BOOLEAN]
  BY Zenon DEF Enqueue, TypeOK
<1>3. CASE list[k] = None
  <2>1. list' = [list EXCEPT ![k] = [head |-> f, tail |-> f]]
    BY <1>3, Zenon DEF Enqueue
  <2>2. next' = [next EXCEPT ![k] = [next[k] EXCEPT ![f] = None]]
    BY <1>3, Zenon DEF Enqueue
  <2>3. [next[k] EXCEPT ![f] = None] \in [Fibers -> Fibers \cup {None}]
    BY <1>1, Zenon
  <2> QED BY <1>2, <2>1, <2>2, <2>3, Zenon DEF TypeOK
<1>4. CASE list[k] # None
  <2>1. list[k] \in [head : Fibers, tail : Fibers]
    BY <1>1, <1>4, Zenon
  <2>2. list' = [list EXCEPT ![k] = [list[k] EXCEPT !.tail = f]]
    BY <1>4, Zenon DEF Enqueue
  <2>3. [list[k] EXCEPT !.tail = f] \in [head : Fibers, tail : Fibers]
    BY <2>1, Zenon
  <2>4. [next[k] EXCEPT ![f] = None, ![list[k].tail] = f] \in [Fibers -> Fibers \cup {None}]
    BY <1>1, <2>1, Zenon
  <2>5. next' = [next EXCEPT ![k] = [next[k] EXCEPT ![f] = None, ![list[k].tail] = f]]
    BY <1>4, Zenon DEF Enqueue
  <2> QED BY <1>2, <2>2, <2>3, <2>4, <2>5, Zenon DEF TypeOK
<1> QED BY <1>3, <1>4, Zenon

LEMMA DequeueType ==
  ASSUME TypeOK, NEW p \in Proc, NEW k \in Key, list[k] # None, Dequeue(p, k)
  PROVE  /\ list' \in [Key -> [head : Fibers, tail : Fibers] \cup {None}]
         /\ next' \in [Key -> [Fibers -> Fibers \cup {None}]]
         /\ ptr' \in [Proc -> Fibers \cup {None}]
         /\ ptr'[p] \in Fibers
         /\ \A q \in Proc : q # p => ptr'[q] = ptr[q]
         /\ list'[k] # None => HaveMore(k)
<1> DEFINE f == list[k].head
<1>1. list[k] \in [head : Fibers, tail : Fibers] /\ next[k] \in [Fibers -> Fibers \cup {None}]
  BY Zenon DEF TypeOK
<1>2. f \in Fibers /\ next[k][f] \in Fibers \cup {None}
  BY <1>1, Zenon
<1>3. ptr' = [ptr EXCEPT ![p] = f]
  BY Zenon DEF Dequeue
<1>4. [next[k] EXCEPT ![f] = None] \in [Fibers -> Fibers \cup {None}]
  BY <1>1, Zenon
<1>5. next' = [next EXCEPT ![k] = [next[k] EXCEPT ![f] = None]]
  BY Zenon DEF Dequeue
<1>6. CASE next[k][f] = None
  <2>1. list' = [list EXCEPT ![k] = None]
    BY <1>6, Zenon DEF Dequeue
  <2> QED BY <1>2, <1>3, <1>4, <1>5, <2>1, Zenon DEF TypeOK
<1>7. CASE next[k][f] # None
  <2>1. list' = [list EXCEPT ![k] = [list[k] EXCEPT !.head = next[k][f]]]
    BY <1>7, Zenon DEF Dequeue
  <2>2. [list[k] EXCEPT !.head = next[k][f]] \in [head : Fibers, tail : Fibers]
    BY <1>1, <1>2, <1>7, Zenon
  <2> QED BY <1>2, <1>3, <1>4, <1>5, <1>7, <2>1, <2>2, Zenon DEF TypeOK, HaveMore
<1> QED BY <1>6, <1>7, Zenon

\* A dead copy of the state is typed.
LEMMA EmptyState ==
  ASSUME NEW s \in [Proc -> SUBSET {"LOCKED", "PARKED"}], NEW p \in Proc
  PROVE  [s EXCEPT ![p] = {}] \in [Proc -> SUBSET {"LOCKED", "PARKED"}]
<1>1. {} \in SUBSET {"LOCKED", "PARKED"}
  BY Zenon
<1> QED BY <1>1, Zenon

LEMMA ExchangeType ==
  ASSUME TypeOK, NEW p \in Proc, NEW l \in Label,
         NEW new \in SUBSET {"LOCKED", "PARKED"}, CompareExchange(p, new, l)
  PROVE  /\ locked' \subseteq {"LOCKED", "PARKED"}
         /\ pc' \in [Proc -> Label]
         /\ state' \in [Proc -> SUBSET {"LOCKED", "PARKED"}]
         /\ spinwait' \in [Proc -> 0 .. SpinLimit]
<1>1. 0 \in 0 .. SpinLimit
  BY SpinAssumption
<1>2. CASE locked = state[p]
  <2>1. state' \in [Proc -> SUBSET {"LOCKED", "PARKED"}]
    BY <1>2, EmptyState DEF CompareExchange, TypeOK
  <2>2. /\ locked' = new /\ pc' = [pc EXCEPT ![p] = l]
        /\ spinwait' = [spinwait EXCEPT ![p] = 0]
    BY <1>2, Zenon DEF CompareExchange, Goto
  <2>3. pc' \in [Proc -> Label]
    BY <2>2, Zenon DEF TypeOK
  <2>4. spinwait' \in [Proc -> 0 .. SpinLimit]
    BY <1>1, <2>2, Zenon DEF TypeOK
  <2> QED BY <2>1, <2>2, <2>3, <2>4, Zenon
<1>3. CASE locked # state[p]
  <2>1. state' = [state EXCEPT ![p] = locked] /\ UNCHANGED <<locked, pc, spinwait>>
    BY <1>3, Zenon DEF CompareExchange
  <2>2. state' \in [Proc -> SUBSET {"LOCKED", "PARKED"}]
    BY <2>1, Zenon DEF TypeOK
  <2> QED BY <2>1, <2>2, Zenon DEF TypeOK
<1> QED BY <1>2, <1>3, Zenon

\* The steps of Next, by name.
LEMMA Steps ==
  ASSUME Next
  PROVE  \/ \E p \in Proc : \/ Lock(p) \/ TryLock(p) \/ Load(p) \/ LoopAcquire(p)
                            \/ LoopSpin(p) \/ Unlock(p) \/ UnlockSlow(p) \/ Unpause(p)
                            \/ NotifyOne(p) \/ NotifyOneSlow(p) \/ NotifyAll(p)
                            \/ NotifyAllSlow(p) \/ UnparkAllTake(p)
                            \/ UnparkAllUnpause(p) \/ UnparkAllFollow(p)
         \/ \E f \in Fibers : LoopPark(f) \/ LockPark(f) \/ Resume(f) \/ Wait(f)
BY Zenon DEF Next, Run, Call

LEMMA TypeStep ==
  ASSUME TypeOK, Local, Next
  PROVE  TypeOK'
<1> USE ProcessAssumption, SpinAssumption DEF Goto
<1>1. ASSUME NEW p \in Proc, Lock(p) \/ TryLock(p) PROVE TypeOK'
  BY <1>1, Zenon DEF Lock, TryLock, TypeOK, Label
<1>2. ASSUME NEW p \in Proc, Load(p) PROVE TypeOK'
  <2>1. 0 \in 0 .. SpinLimit
    OBVIOUS
  <2> QED BY <1>2, <2>1, Zenon DEF Load, TypeOK, Label
<1>3. ASSUME NEW p \in Proc, LoopAcquire(p) PROVE TypeOK'
  <2>1. CompareExchange(p, state[p] \cup {"LOCKED"}, "held") /\ "held" \in Label
    BY <1>3, Zenon DEF LoopAcquire, Label
  <2>2. state[p] \cup {"LOCKED"} \subseteq {"LOCKED", "PARKED"}
    BY Zenon DEF TypeOK
  <2> QED BY <1>3, <2>1, <2>2, ExchangeType, Zenon DEF LoopAcquire, TypeOK
<1>4. ASSUME NEW p \in Proc, LoopSpin(p) PROVE TypeOK'
  <2>1. (IF p \in Threads THEN spinwait[p] ELSE spinwait[p] + 1) \in 0 .. SpinLimit
    BY <1>4 DEF LoopSpin, Spins, TypeOK
  <2> QED BY <1>4, <2>1, Zenon DEF LoopSpin, TypeOK, Label
<1>5. ASSUME NEW p \in Proc, Unlock(p) PROVE TypeOK'
  BY <1>5, Zenon DEF Unlock, TypeOK, Label
<1>6. ASSUME NEW p \in Proc, UnlockSlow(p) PROVE TypeOK'
  <2>1. ret[p] \in Label /\ "M" \in Key
    BY Zenon DEF TypeOK, Label, Key
  <2>2. CASE list["M"] = None
    BY <1>6, <2>1, <2>2, Zenon DEF UnlockSlow, TypeOK
  <2>3. CASE list["M"] # None
    <3>1. Dequeue(p, "M")
      BY <1>6, <2>3, Zenon DEF UnlockSlow
    <3>2. locked' \subseteq {"LOCKED", "PARKED"} /\ pc' \in [Proc -> Label]
      BY <1>6, <2>3 DEF UnlockSlow, TypeOK, Label
    <3>3. UNCHANGED <<ret, has_queue, paused, state, spinwait>>
      BY <1>6, <2>3, Zenon DEF UnlockSlow
    <3> QED BY <2>1, <2>3, <3>1, <3>2, <3>3, DequeueType, Zenon DEF TypeOK
  <2> QED BY <2>2, <2>3, Zenon
<1>7. ASSUME NEW p \in Proc, Unpause(p) PROVE TypeOK'
  <2>1. ret[p] \in Label
    BY Zenon DEF TypeOK, Label
  <2> QED BY <1>7, <2>1, Zenon DEF Unpause, TypeOK
<1>8. ASSUME NEW p \in Proc, NotifyOne(p) \/ NotifyAll(p) \/ NotifyAllSlow(p) PROVE TypeOK'
  BY <1>8, Zenon DEF NotifyOne, NotifyAll, NotifyAllSlow, TypeOK, Label
<1>9. ASSUME NEW p \in Proc, NotifyOneSlow(p) PROVE TypeOK'
  <2>1. "C" \in Key
    BY Zenon DEF Key
  <2>2. CASE list["C"] = None
    BY <1>9, <2>2, Zenon DEF NotifyOneSlow, TypeOK, Label
  <2>3. CASE list["C"] # None
    <3>1. Dequeue(p, "C")
      BY <1>9, <2>3, Zenon DEF NotifyOneSlow
    <3>2. has_queue' \in BOOLEAN
      BY <1>9, <2>3, Zenon DEF NotifyOneSlow
    <3> QED BY <1>9, <2>1, <2>3, <3>1, <3>2, DequeueType, Zenon DEF NotifyOneSlow, TypeOK, Label
  <2> QED BY <2>2, <2>3, Zenon
<1>10. ASSUME NEW p \in Proc, UnparkAllTake(p) PROVE TypeOK'
  <2>1. "C" \in Key /\ list["C"] \in [head : Fibers, tail : Fibers] \cup {None}
    BY Zenon DEF Key, TypeOK
  <2>2. (IF list["C"] = None THEN None ELSE list["C"].head) \in Fibers \cup {None}
    BY <2>1, Zenon
  <2>3. list' \in [Key -> [head : Fibers, tail : Fibers] \cup {None}]
    BY <1>10, <2>1, Zenon DEF UnparkAllTake, TypeOK
  <2>4. ptr' \in [Proc -> Fibers \cup {None}]
    BY <1>10, <2>2, Zenon DEF UnparkAllTake, TypeOK
  <2> QED BY <1>10, <2>3, <2>4, Zenon DEF UnparkAllTake, TypeOK, Label
<1>11. ASSUME NEW p \in Proc, UnparkAllUnpause(p) PROVE TypeOK'
  BY <1>11, Zenon DEF UnparkAllUnpause, TypeOK, Label
<1>12. ASSUME NEW p \in Proc, UnparkAllFollow(p) PROVE TypeOK'
  <2>1. ptr[p] \in Fibers
    BY <1>12, Zenon DEF UnparkAllFollow, Local, LocalAt
  <2>2. PICK k \in Key : /\ ptr' = [ptr EXCEPT ![p] = next[k][ptr[p]]]
                         /\ pc' = [pc EXCEPT ![p] = IF next[k][ptr[p]] = None THEN "held"
                                                    ELSE "unpause_all"]
    BY <1>12, Zenon DEF UnparkAllFollow, Key
  <2>3. next[k][ptr[p]] \in Fibers \cup {None}
    BY <2>1 DEF TypeOK
  <2>4. ptr' \in [Proc -> Fibers \cup {None}] /\ pc' \in [Proc -> Label]
    BY <2>2, <2>3, Zenon DEF TypeOK, Label
  <2>5. "C" \in Key /\ next["C"] \in [Fibers -> Fibers \cup {None}]
    BY Zenon DEF Key, TypeOK
  <2>6. next' = [next EXCEPT !["C"] = [next["C"] EXCEPT ![ptr[p]] = None]]
    BY <1>12, Zenon DEF UnparkAllFollow
  <2>7. next' \in [Key -> [Fibers -> Fibers \cup {None}]]
    BY <2>1, <2>5, <2>6, Zenon DEF TypeOK
  <2> QED BY <1>12, <2>4, <2>7, Zenon DEF UnparkAllFollow, TypeOK
<1>13. ASSUME NEW f \in Fibers, LoopPark(f) PROVE TypeOK'
  <2>1. 0 \in 0 .. SpinLimit /\ f \in Proc /\ "park" \in Label
    BY DEF Label, Proc
  <2>2. CASE "PARKED" \in state[f]
    <3>1. state' \in [Proc -> SUBSET {"LOCKED", "PARKED"}]
      BY <1>13, <2>1, <2>2, EmptyState DEF LoopPark, TypeOK
    <3>2. pc' \in [Proc -> Label] /\ spinwait' \in [Proc -> 0 .. SpinLimit]
      BY <1>13, <2>1, <2>2 DEF LoopPark, TypeOK
    <3> QED BY <1>13, <2>2, <3>1, <3>2, Zenon DEF LoopPark, TypeOK
  <2>3. CASE "PARKED" \notin state[f]
    <3>1. CompareExchange(f, state[f] \cup {"PARKED"}, "park")
      BY <1>13, <2>3, Zenon DEF LoopPark
    <3>2. state[f] \cup {"PARKED"} \subseteq {"LOCKED", "PARKED"}
      BY <2>1, Zenon DEF TypeOK
    <3> QED BY <1>13, <2>1, <3>1, <3>2, ExchangeType, Zenon DEF LoopPark, TypeOK
  <2> QED BY <2>2, <2>3, Zenon
<1>14. ASSUME NEW f \in Fibers, LockPark(f) PROVE TypeOK'
  <2>1. f \in Proc /\ "M" \in Key
    BY Zenon DEF Proc, Key
  <2>2. CASE locked = {"LOCKED", "PARKED"}
    <3>1. Enqueue("M", f)
      BY <1>14, <2>2, Zenon DEF LockPark
    <3> QED BY <1>14, <2>1, <2>2, <3>1, EnqueueType, Zenon DEF LockPark, TypeOK, Label
  <2>3. CASE locked # {"LOCKED", "PARKED"}
    BY <1>14, <2>1, <2>3, Zenon DEF LockPark, TypeOK, Label
  <2> QED BY <2>2, <2>3, Zenon
<1>15. ASSUME NEW f \in Fibers, Resume(f) PROVE TypeOK'
  BY <1>15, Zenon DEF Resume, TypeOK, Label, Proc
<1>16. ASSUME NEW f \in Fibers, Wait(f) PROVE TypeOK'
  <2>1. f \in Proc /\ "C" \in Key /\ Enqueue("C", f)
    BY <1>16, Zenon DEF Proc, Key, Wait
  <2> QED BY <1>16, <2>1, EnqueueType, Zenon DEF Wait, TypeOK, Label
<1> QED BY Steps, <1>1, <1>2, <1>3, <1>4, <1>5, <1>6, <1>7, <1>8, <1>9, <1>10, <1>11,
           <1>12, <1>13, <1>14, <1>15, <1>16, Zenon

\* A step of p moves p only.
LEMMA LocalFrame ==
  ASSUME Local, NEW p \in Proc, LocalAt(p)',
         \A q \in Proc \ {p} : pc'[q] = pc[q] /\ ret'[q] = ret[q] /\ ptr'[q] = ptr[q]
  PROVE  Local'
BY Zenon DEF Local, LocalAt

LEMMA LocalStep ==
  ASSUME TypeOK, Local, Next
  PROVE  Local'
<1> USE ProcessAssumption DEF Goto, FiberLabel
<1>a. pc \in [Proc -> Label] /\ ret \in [Proc -> {"idle", "held", "wait_parked"}]
      /\ ptr \in [Proc -> Fibers \cup {None}]
  BY Zenon DEF TypeOK
<1>b. \A k \in Key : list[k] \in [head : Fibers, tail : Fibers] \cup {None}
  BY Zenon DEF TypeOK
<1>1. ASSUME NEW p \in Proc, Lock(p) PROVE Local'
  <2>8. \A q \in Proc \ {p} : pc'[q] = pc[q] /\ ret'[q] = ret[q] /\ ptr'[q] = ptr[q]
    BY <1>1, <1>a, Zenon DEF Lock
  <2>9. LocalAt(p)'
    BY <1>1, <1>a, Zenon DEF Lock, Local, LocalAt
  <2> QED BY <2>8, <2>9, LocalFrame, Zenon
<1>2. ASSUME NEW p \in Proc, TryLock(p) PROVE Local'
  <2>8. \A q \in Proc \ {p} : pc'[q] = pc[q] /\ ret'[q] = ret[q] /\ ptr'[q] = ptr[q]
    BY <1>2, <1>a, Zenon DEF TryLock
  <2>9. LocalAt(p)'
    BY <1>2, <1>a, Zenon DEF TryLock, Local, LocalAt
  <2> QED BY <2>8, <2>9, LocalFrame, Zenon
<1>3. ASSUME NEW p \in Proc, Load(p) PROVE Local'
  <2>8. \A q \in Proc \ {p} : pc'[q] = pc[q] /\ ret'[q] = ret[q] /\ ptr'[q] = ptr[q]
    BY <1>3, <1>a, Zenon DEF Load
  <2>9. LocalAt(p)'
    BY <1>3, <1>a, Zenon DEF Load, Local, LocalAt
  <2> QED BY <2>8, <2>9, LocalFrame, Zenon
<1>4. ASSUME NEW p \in Proc, LoopSpin(p) PROVE Local'
  <2>8. \A q \in Proc \ {p} : pc'[q] = pc[q] /\ ret'[q] = ret[q] /\ ptr'[q] = ptr[q]
    BY <1>4, <1>a, Zenon DEF LoopSpin
  <2>9. LocalAt(p)'
    BY <1>4, <1>a, Zenon DEF LoopSpin, Local, LocalAt
  <2> QED BY <2>8, <2>9, LocalFrame, Zenon
<1>5. ASSUME NEW p \in Proc, LoopAcquire(p) PROVE Local'
  <2>8. \A q \in Proc \ {p} : pc'[q] = pc[q] /\ ret'[q] = ret[q] /\ ptr'[q] = ptr[q]
    BY <1>5, <1>a, Zenon DEF LoopAcquire, CompareExchange
  <2>9. LocalAt(p)'
    BY <1>5, <1>a, Zenon DEF LoopAcquire, CompareExchange, Local, LocalAt
  <2> QED BY <2>8, <2>9, LocalFrame, Zenon
<1>6. ASSUME NEW p \in Proc, Unlock(p) PROVE Local'
  <2>8. \A q \in Proc \ {p} : pc'[q] = pc[q] /\ ret'[q] = ret[q] /\ ptr'[q] = ptr[q]
    BY <1>6, <1>a, Zenon DEF Unlock
  <2>9. LocalAt(p)'
    BY <1>6, <1>a DEF Unlock, Local, LocalAt
  <2> QED BY <2>8, <2>9, LocalFrame, Zenon
<1>7. ASSUME NEW p \in Proc, UnlockSlow(p) PROVE Local'
  <2>1. list["M"] # None => list["M"].head \in Fibers
    BY <1>b, Zenon DEF Key
  <2>8. \A q \in Proc \ {p} : pc'[q] = pc[q] /\ ret'[q] = ret[q] /\ ptr'[q] = ptr[q]
    BY <1>7, <1>a, Zenon DEF UnlockSlow, Dequeue
  <2>9. LocalAt(p)'
    BY <1>7, <1>a, <2>1, Zenon DEF UnlockSlow, Dequeue, Local, LocalAt
  <2> QED BY <2>8, <2>9, LocalFrame, Zenon
<1>8. ASSUME NEW p \in Proc, Unpause(p) PROVE Local'
  <2>8. \A q \in Proc \ {p} : pc'[q] = pc[q] /\ ret'[q] = ret[q] /\ ptr'[q] = ptr[q]
    BY <1>8, <1>a, Zenon DEF Unpause
  <2>9. LocalAt(p)'
    BY <1>8, <1>a, Zenon DEF Unpause, Local, LocalAt
  <2> QED BY <2>8, <2>9, LocalFrame, Zenon
<1>9. ASSUME NEW p \in Proc, NotifyOne(p) PROVE Local'
  <2>8. \A q \in Proc \ {p} : pc'[q] = pc[q] /\ ret'[q] = ret[q] /\ ptr'[q] = ptr[q]
    BY <1>9, <1>a, Zenon DEF NotifyOne
  <2>9. LocalAt(p)'
    BY <1>9, <1>a, Zenon DEF NotifyOne, Local, LocalAt
  <2> QED BY <2>8, <2>9, LocalFrame, Zenon
<1>10. ASSUME NEW p \in Proc, NotifyAll(p) PROVE Local'
  <2>8. \A q \in Proc \ {p} : pc'[q] = pc[q] /\ ret'[q] = ret[q] /\ ptr'[q] = ptr[q]
    BY <1>10, <1>a, Zenon DEF NotifyAll
  <2>9. LocalAt(p)'
    BY <1>10, <1>a, Zenon DEF NotifyAll, Local, LocalAt
  <2> QED BY <2>8, <2>9, LocalFrame, Zenon
<1>11. ASSUME NEW p \in Proc, NotifyOneSlow(p) PROVE Local'
  <2>1. list["C"] # None => list["C"].head \in Fibers
    BY <1>b, Zenon DEF Key
  <2>8. \A q \in Proc \ {p} : pc'[q] = pc[q] /\ ret'[q] = ret[q] /\ ptr'[q] = ptr[q]
    BY <1>11, <1>a, Zenon DEF NotifyOneSlow, Dequeue
  <2>9. LocalAt(p)'
    BY <1>11, <1>a, <2>1 DEF NotifyOneSlow, Dequeue, Local, LocalAt
  <2> QED BY <2>8, <2>9, LocalFrame, Zenon
<1>12. ASSUME NEW p \in Proc, NotifyAllSlow(p) PROVE Local'
  <2>8. \A q \in Proc \ {p} : pc'[q] = pc[q] /\ ret'[q] = ret[q] /\ ptr'[q] = ptr[q]
    BY <1>12, <1>a, Zenon DEF NotifyAllSlow
  <2>9. LocalAt(p)'
    BY <1>12, <1>a, Zenon DEF NotifyAllSlow, Local, LocalAt
  <2> QED BY <2>8, <2>9, LocalFrame, Zenon
<1>13. ASSUME NEW p \in Proc, UnparkAllTake(p) PROVE Local'
  <2>1. list["C"] # None => list["C"].head \in Fibers
    BY <1>b, Zenon DEF Key
  <2>8. \A q \in Proc \ {p} : pc'[q] = pc[q] /\ ret'[q] = ret[q] /\ ptr'[q] = ptr[q]
    BY <1>13, <1>a, Zenon DEF UnparkAllTake
  <2>9. LocalAt(p)'
    BY <1>13, <1>a, <2>1, Zenon DEF UnparkAllTake, Local, LocalAt
  <2> QED BY <2>8, <2>9, LocalFrame, Zenon
<1>14. ASSUME NEW p \in Proc, UnparkAllUnpause(p) PROVE Local'
  <2>8. \A q \in Proc \ {p} : pc'[q] = pc[q] /\ ret'[q] = ret[q] /\ ptr'[q] = ptr[q]
    BY <1>14, <1>a, Zenon DEF UnparkAllUnpause
  <2>9. LocalAt(p)'
    BY <1>14, <1>a, Zenon DEF UnparkAllUnpause, Local, LocalAt
  <2> QED BY <2>8, <2>9, LocalFrame, Zenon
<1>15. ASSUME NEW p \in Proc, UnparkAllFollow(p) PROVE Local'
  <2>1. ptr[p] \in Fibers
    BY <1>15, Zenon DEF UnparkAllFollow, Local, LocalAt
  <2>2. \A k \in Key : next[k][ptr[p]] \in Fibers \cup {None}
    BY <2>1 DEF TypeOK
  <2>8. \A q \in Proc \ {p} : pc'[q] = pc[q] /\ ret'[q] = ret[q] /\ ptr'[q] = ptr[q]
    BY <1>15, <1>a, Zenon DEF UnparkAllFollow, Key
  <2>9. LocalAt(p)'
    BY <1>15, <1>a, <2>1, <2>2 DEF UnparkAllFollow, Key, Local, LocalAt
  <2> QED BY <2>8, <2>9, LocalFrame, Zenon
<1>16. ASSUME NEW f \in Fibers, LoopPark(f) PROVE Local'
  <2>0. f \in Proc
    BY <1>16, Zenon DEF Proc
  <2>8. \A q \in Proc \ {f} : pc'[q] = pc[q] /\ ret'[q] = ret[q] /\ ptr'[q] = ptr[q]
    BY <1>16, <1>a, <2>0, Zenon DEF LoopPark, CompareExchange
  <2>9. LocalAt(f)'
    BY <1>16, <1>a, <2>0, Zenon DEF LoopPark, CompareExchange, Local, LocalAt
  <2> QED BY <2>8, <2>9, <2>0, LocalFrame, Zenon
<1>17. ASSUME NEW f \in Fibers, LockPark(f) PROVE Local'
  <2>0. f \in Proc
    BY <1>17, Zenon DEF Proc
  <2>8. \A q \in Proc \ {f} : pc'[q] = pc[q] /\ ret'[q] = ret[q] /\ ptr'[q] = ptr[q]
    BY <1>17, <1>a, <2>0, Zenon DEF LockPark
  <2>9. LocalAt(f)'
    BY <1>17, <1>a, <2>0, Zenon DEF LockPark, Local, LocalAt
  <2> QED BY <2>8, <2>9, <2>0, LocalFrame, Zenon
<1>18. ASSUME NEW f \in Fibers, Resume(f) PROVE Local'
  <2>0. f \in Proc
    BY <1>18, Zenon DEF Proc
  <2>8. \A q \in Proc \ {f} : pc'[q] = pc[q] /\ ret'[q] = ret[q] /\ ptr'[q] = ptr[q]
    BY <1>18, <1>a, <2>0, Zenon DEF Resume
  <2>9. LocalAt(f)'
    BY <1>18, <1>a, <2>0, Zenon DEF Resume, Local, LocalAt
  <2> QED BY <2>8, <2>9, <2>0, LocalFrame, Zenon
<1>19. ASSUME NEW f \in Fibers, Wait(f) PROVE Local'
  <2>0. f \in Proc
    BY <1>19, Zenon DEF Proc
  <2>8. \A q \in Proc \ {f} : pc'[q] = pc[q] /\ ret'[q] = ret[q] /\ ptr'[q] = ptr[q]
    BY <1>19, <1>a, <2>0, Zenon DEF Wait
  <2>9. LocalAt(f)'
    BY <1>19, <1>a, <2>0, Zenon DEF Wait, Local, LocalAt
  <2> QED BY <2>8, <2>9, <2>0, LocalFrame, Zenon
<1> QED BY Steps, <1>1, <1>2, <1>3, <1>4, <1>5, <1>6, <1>7, <1>8, <1>9, <1>10,
           <1>11, <1>12, <1>13, <1>14, <1>15, <1>16, <1>17, <1>18, <1>19, Zenon

-----------------------------------------------------------------------------
(* Mutual exclusion *)

\* A step of p keeps, acquires or releases the mutex.
LEMMA OneHolder ==
  ASSUME MutualExclusion, NEW p \in Proc,
         \A q \in Proc : q # p => (Holding(q)' <=> Holding(q)),
         \/ (Holding(p)' <=> Holding(p)) /\ ("LOCKED" \in locked' <=> "LOCKED" \in locked)
         \/ "LOCKED" \notin locked /\ Holding(p)' /\ "LOCKED" \in locked'
         \/ Holding(p) /\ ~Holding(p)' /\ "LOCKED" \notin locked'
  PROVE  MutualExclusion'
BY Zenon DEF MutualExclusion

\* A step of p that only moves p leaves the others' hold alone.
LEMMA OthersHold ==
  ASSUME NEW q \in Proc, pc'[q] = pc[q], ret'[q] = ret[q]
  PROVE  Holding(q)' <=> Holding(q)
BY Zenon DEF Holding

LEMMA ExclusionStep ==
  ASSUME TypeOK, Local, MutualExclusion, Next
  PROVE  MutualExclusion'
<1> USE DEF Goto
<1>a. pc \in [Proc -> Label] /\ ret \in [Proc -> {"idle", "held", "wait_parked"}]
  BY Zenon DEF TypeOK
<1>1. ASSUME NEW p \in Proc, Lock(p) \/ TryLock(p) PROVE MutualExclusion'
  <2>1. \A q \in Proc : q # p => (Holding(q)' <=> Holding(q))
    BY <1>1, <1>a, OthersHold, Zenon DEF Lock, TryLock
  <2> QED BY <1>1, <1>a, <2>1, OneHolder DEF Lock, TryLock, Holding
<1>2. ASSUME NEW p \in Proc, Load(p) \/ LoopSpin(p) PROVE MutualExclusion'
  <2>1. \A q \in Proc : q # p => (Holding(q)' <=> Holding(q))
    BY <1>2, <1>a, OthersHold, Zenon DEF Load, LoopSpin
  <2> QED BY <1>2, <1>a, <2>1, OneHolder DEF Load, LoopSpin, Holding
<1>3. ASSUME NEW p \in Proc, LoopAcquire(p) PROVE MutualExclusion'
  <2>1. \A q \in Proc : q # p => (Holding(q)' <=> Holding(q))
    BY <1>3, <1>a, OthersHold, Zenon DEF LoopAcquire, CompareExchange
  <2> QED BY <1>3, <1>a, <2>1, OneHolder DEF LoopAcquire, CompareExchange, Holding
<1>4. ASSUME NEW p \in Proc, Unlock(p) PROVE MutualExclusion'
  <2>1. \A q \in Proc : q # p => (Holding(q)' <=> Holding(q))
    BY <1>4, <1>a, OthersHold, Zenon DEF Unlock
  <2> QED BY <1>4, <1>a, <2>1, OneHolder DEF Unlock, Holding
<1>5. ASSUME NEW p \in Proc, UnlockSlow(p) PROVE MutualExclusion'
  <2>1. \A q \in Proc : q # p => (Holding(q)' <=> Holding(q))
    BY <1>5, <1>a, OthersHold, Zenon DEF UnlockSlow
  <2>2. Holding(p) /\ ret[p] \in {"idle", "wait_parked"} /\ locked' \in {{}, {"PARKED"}}
    BY <1>5, Zenon DEF UnlockSlow, Holding, Local, LocalAt
  <2>3. ~Holding(p)'
    BY <1>5, <1>a, <2>2, Zenon DEF UnlockSlow, Holding
  <2> QED BY <2>1, <2>2, <2>3, OneHolder, Zenon
<1>6. ASSUME NEW p \in Proc, Unpause(p) PROVE MutualExclusion'
  <2>1. \A q \in Proc : q # p => (Holding(q)' <=> Holding(q))
    BY <1>6, <1>a, OthersHold, Zenon DEF Unpause
  <2>2. Holding(p)' <=> Holding(p)
    BY <1>6, <1>a, Zenon DEF Unpause, Holding
  <2> QED BY <1>6, <2>1, <2>2, OneHolder, Zenon DEF Unpause
<1>7. ASSUME NEW p \in Proc, NotifyOne(p) \/ NotifyAll(p) \/ NotifyAllSlow(p)
             \/ UnparkAllTake(p) \/ UnparkAllUnpause(p) \/ UnparkAllFollow(p)
      PROVE  MutualExclusion'
  <2> USE DEF NotifyOne, NotifyAll, NotifyAllSlow, UnparkAllTake, UnparkAllUnpause,
              UnparkAllFollow
  <2>1. \A q \in Proc : q # p => (Holding(q)' <=> Holding(q))
    BY <1>7, <1>a, OthersHold, Zenon
  <2>2. Holding(p)' <=> Holding(p)
    BY <1>7, <1>a, Zenon DEF Holding
  <2> QED BY <1>7, <2>1, <2>2, OneHolder, Zenon
<1>8. ASSUME NEW p \in Proc, NotifyOneSlow(p) PROVE MutualExclusion'
  <2>1. \A q \in Proc : q # p => (Holding(q)' <=> Holding(q))
    BY <1>8, <1>a, OthersHold, Zenon DEF NotifyOneSlow
  <2>2. Holding(p)' <=> Holding(p)
    BY <1>8, <1>a, Zenon DEF NotifyOneSlow, Holding
  <2> QED BY <1>8, <2>1, <2>2, OneHolder, Zenon DEF NotifyOneSlow
<1>9. ASSUME NEW f \in Fibers, LoopPark(f) PROVE MutualExclusion'
  <2>0. f \in Proc
    BY Zenon DEF Proc
  <2>1. \A q \in Proc : q # f => (Holding(q)' <=> Holding(q))
    BY <1>9, <1>a, <2>0, OthersHold, Zenon DEF LoopPark, CompareExchange
  <2>2. ~Holding(f) /\ ~Holding(f)'
    BY <1>9, <1>a, <2>0, Zenon DEF LoopPark, CompareExchange, Holding
  <2>3. "LOCKED" \in locked' <=> "LOCKED" \in locked
    BY <1>9, Zenon DEF LoopPark, CompareExchange
  <2> QED BY <2>0, <2>1, <2>2, <2>3, OneHolder, Zenon
<1>10. ASSUME NEW f \in Fibers, LockPark(f) \/ Resume(f) \/ Wait(f) PROVE MutualExclusion'
  <2>0. f \in Proc
    BY Zenon DEF Proc
  <2>1. \A q \in Proc : q # f => (Holding(q)' <=> Holding(q))
    BY <1>10, <1>a, <2>0, OthersHold, Zenon DEF LockPark, Resume, Wait
  <2>2. (Holding(f)' <=> Holding(f)) /\ locked' = locked
    BY <1>10, <1>a, <2>0, Zenon DEF LockPark, Resume, Wait, Holding
  <2> QED BY <2>0, <2>1, <2>2, OneHolder, Zenon
<1> QED BY Steps, <1>1, <1>2, <1>3, <1>4, <1>5, <1>6, <1>7, <1>8, <1>9, <1>10, Zenon

-----------------------------------------------------------------------------
(* The flags that stand for non-empty queues *)

\* A step of p that touches neither list nor flag.
LEMMA FlagKept ==
  ASSUME pc \in [Proc -> Label], QueueSetsHasQueue,
         NEW p \in Proc, NEW l \in Label, pc[p] # "take",
         pc' = pc \/ pc' = [pc EXCEPT ![p] = l],
         list' = list, has_queue' = has_queue
  PROVE  QueueSetsHasQueue'
BY Zenon DEF QueueSetsHasQueue

LEMMA FlagStep ==
  ASSUME IInv, Next
  PROVE  QueueSetsParkedBit' /\ QueueSetsHasQueue'
<1> USE ProcessAssumption DEF Goto
<1>a. /\ pc \in [Proc -> Label] /\ ret \in [Proc -> {"idle", "held", "wait_parked"}]
      /\ list \in [Key -> [head : Fibers, tail : Fibers] \cup {None}]
  BY Zenon DEF IInv, TypeOK
<1>b. QueueSetsParkedBit /\ QueueSetsHasQueue
  BY Zenon DEF IInv
<1>c. Key = {"M", "C"}
  BY Zenon DEF Key
<1>1. ASSUME NEW p \in Proc, Lock(p) PROVE QueueSetsParkedBit' /\ QueueSetsHasQueue'
  <2>1. list' = list /\ has_queue' = has_queue /\ pc[p] # "take"
    BY <1>1, Zenon DEF Lock
  <2>2. \E l \in Label : pc' = pc \/ pc' = [pc EXCEPT ![p] = l]
    BY <1>1, <1>a, Zenon DEF Lock, Label
  <2>3. list["M"] # None => "PARKED" \in locked'
    BY <1>1, <1>b, Zenon DEF Lock, QueueSetsParkedBit
  <2> QED BY <2>1, <2>2, <2>3, <1>a, <1>b, FlagKept, Zenon DEF QueueSetsParkedBit
<1>2. ASSUME NEW p \in Proc, TryLock(p) PROVE QueueSetsParkedBit' /\ QueueSetsHasQueue'
  <2>1. list' = list /\ has_queue' = has_queue /\ pc[p] # "take"
    BY <1>2, Zenon DEF TryLock
  <2>2. \E l \in Label : pc' = pc \/ pc' = [pc EXCEPT ![p] = l]
    BY <1>2, <1>a, Zenon DEF TryLock, Label
  <2>3. list["M"] # None => "PARKED" \in locked'
    BY <1>2, <1>b, Zenon DEF TryLock, QueueSetsParkedBit
  <2> QED BY <2>1, <2>2, <2>3, <1>a, <1>b, FlagKept, Zenon DEF QueueSetsParkedBit
<1>3. ASSUME NEW p \in Proc, Load(p) PROVE QueueSetsParkedBit' /\ QueueSetsHasQueue'
  <2>1. list' = list /\ has_queue' = has_queue /\ pc[p] # "take"
    BY <1>3, Zenon DEF Load
  <2>2. \E l \in Label : pc' = pc \/ pc' = [pc EXCEPT ![p] = l]
    BY <1>3, <1>a, Zenon DEF Load, Label
  <2>3. list["M"] # None => "PARKED" \in locked'
    BY <1>3, <1>b, Zenon DEF Load, QueueSetsParkedBit
  <2> QED BY <2>1, <2>2, <2>3, <1>a, <1>b, FlagKept, Zenon DEF QueueSetsParkedBit
<1>4. ASSUME NEW p \in Proc, LoopSpin(p) PROVE QueueSetsParkedBit' /\ QueueSetsHasQueue'
  <2>1. list' = list /\ has_queue' = has_queue /\ pc[p] # "take"
    BY <1>4, Zenon DEF LoopSpin
  <2>2. \E l \in Label : pc' = pc \/ pc' = [pc EXCEPT ![p] = l]
    BY <1>4, <1>a, Zenon DEF LoopSpin, Label
  <2>3. list["M"] # None => "PARKED" \in locked'
    BY <1>4, <1>b, Zenon DEF LoopSpin, QueueSetsParkedBit
  <2> QED BY <2>1, <2>2, <2>3, <1>a, <1>b, FlagKept, Zenon DEF QueueSetsParkedBit
<1>5. ASSUME NEW p \in Proc, LoopAcquire(p) PROVE QueueSetsParkedBit' /\ QueueSetsHasQueue'
  <2>1. list' = list /\ has_queue' = has_queue /\ pc[p] # "take"
    BY <1>5, Zenon DEF LoopAcquire, CompareExchange
  <2>2. \E l \in Label : pc' = pc \/ pc' = [pc EXCEPT ![p] = l]
    BY <1>5, <1>a, Zenon DEF LoopAcquire, CompareExchange, Label
  <2>3. list["M"] # None => "PARKED" \in locked'
    BY <1>5, <1>b, Zenon DEF LoopAcquire, CompareExchange, QueueSetsParkedBit
  <2> QED BY <2>1, <2>2, <2>3, <1>a, <1>b, FlagKept, Zenon DEF QueueSetsParkedBit
<1>6. ASSUME NEW p \in Proc, Unlock(p) PROVE QueueSetsParkedBit' /\ QueueSetsHasQueue'
  <2>1. list' = list /\ has_queue' = has_queue /\ pc[p] # "take"
    BY <1>6, Zenon DEF Unlock
  <2>2. \E l \in Label : pc' = pc \/ pc' = [pc EXCEPT ![p] = l]
    BY <1>6, <1>a, Zenon DEF Unlock, Label
  <2>3. list["M"] # None => "PARKED" \in locked'
    BY <1>6, <1>b DEF Unlock, QueueSetsParkedBit
  <2> QED BY <2>1, <2>2, <2>3, <1>a, <1>b, FlagKept, Zenon DEF QueueSetsParkedBit
<1>7. ASSUME NEW p \in Proc, Unpause(p) PROVE QueueSetsParkedBit' /\ QueueSetsHasQueue'
  <2>1. list' = list /\ has_queue' = has_queue /\ pc[p] # "take"
    BY <1>7, Zenon DEF Unpause
  <2>2. \E l \in Label : pc' = pc \/ pc' = [pc EXCEPT ![p] = l]
    BY <1>7, <1>a, Zenon DEF Unpause, Label
  <2>3. list["M"] # None => "PARKED" \in locked'
    BY <1>7, <1>b, Zenon DEF Unpause, QueueSetsParkedBit
  <2> QED BY <2>1, <2>2, <2>3, <1>a, <1>b, FlagKept, Zenon DEF QueueSetsParkedBit
<1>8. ASSUME NEW p \in Proc, NotifyOne(p) PROVE QueueSetsParkedBit' /\ QueueSetsHasQueue'
  <2>1. list' = list /\ has_queue' = has_queue /\ pc[p] # "take"
    BY <1>8, Zenon DEF NotifyOne
  <2>2. \E l \in Label : pc' = pc \/ pc' = [pc EXCEPT ![p] = l]
    BY <1>8, <1>a, Zenon DEF NotifyOne, Label
  <2>3. list["M"] # None => "PARKED" \in locked'
    BY <1>8, <1>b, Zenon DEF NotifyOne, QueueSetsParkedBit
  <2> QED BY <2>1, <2>2, <2>3, <1>a, <1>b, FlagKept, Zenon DEF QueueSetsParkedBit
<1>9. ASSUME NEW p \in Proc, NotifyAll(p) PROVE QueueSetsParkedBit' /\ QueueSetsHasQueue'
  <2>1. list' = list /\ has_queue' = has_queue /\ pc[p] # "take"
    BY <1>9, Zenon DEF NotifyAll
  <2>2. \E l \in Label : pc' = pc \/ pc' = [pc EXCEPT ![p] = l]
    BY <1>9, <1>a, Zenon DEF NotifyAll, Label
  <2>3. list["M"] # None => "PARKED" \in locked'
    BY <1>9, <1>b, Zenon DEF NotifyAll, QueueSetsParkedBit
  <2> QED BY <2>1, <2>2, <2>3, <1>a, <1>b, FlagKept, Zenon DEF QueueSetsParkedBit
<1>10. ASSUME NEW p \in Proc, UnparkAllUnpause(p) PROVE QueueSetsParkedBit' /\ QueueSetsHasQueue'
  <2>1. list' = list /\ has_queue' = has_queue /\ pc[p] # "take"
    BY <1>10, Zenon DEF UnparkAllUnpause
  <2>2. \E l \in Label : pc' = pc \/ pc' = [pc EXCEPT ![p] = l]
    BY <1>10, <1>a, Zenon DEF UnparkAllUnpause, Label
  <2>3. list["M"] # None => "PARKED" \in locked'
    BY <1>10, <1>b, Zenon DEF UnparkAllUnpause, QueueSetsParkedBit
  <2> QED BY <2>1, <2>2, <2>3, <1>a, <1>b, FlagKept, Zenon DEF QueueSetsParkedBit
<1>11. ASSUME NEW f \in Fibers, LoopPark(f) PROVE QueueSetsParkedBit' /\ QueueSetsHasQueue'
  <2>0. f \in Proc
    BY Zenon DEF Proc
  <2>1. list' = list /\ has_queue' = has_queue /\ pc[f] # "take"
    BY <1>11, Zenon DEF LoopPark, CompareExchange
  <2>2. \E l \in Label : pc' = pc \/ pc' = [pc EXCEPT ![f] = l]
    BY <1>11, <1>a, Zenon DEF LoopPark, CompareExchange, Label
  <2>3. list["M"] # None => "PARKED" \in locked'
    BY <1>11, <1>b, Zenon DEF LoopPark, CompareExchange, QueueSetsParkedBit
  <2> QED BY <2>0, <2>1, <2>2, <2>3, <1>a, <1>b, FlagKept, Zenon DEF QueueSetsParkedBit
<1>12. ASSUME NEW f \in Fibers, Resume(f) PROVE QueueSetsParkedBit' /\ QueueSetsHasQueue'
  <2>0. f \in Proc
    BY Zenon DEF Proc
  <2>1. list' = list /\ has_queue' = has_queue /\ pc[f] # "take"
    BY <1>12, Zenon DEF Resume
  <2>2. \E l \in Label : pc' = pc \/ pc' = [pc EXCEPT ![f] = l]
    BY <1>12, <1>a, Zenon DEF Resume, Label
  <2>3. list["M"] # None => "PARKED" \in locked'
    BY <1>12, <1>b, Zenon DEF Resume, QueueSetsParkedBit
  <2> QED BY <2>0, <2>1, <2>2, <2>3, <1>a, <1>b, FlagKept, Zenon DEF QueueSetsParkedBit
<1>13. ASSUME NEW p \in Proc, UnlockSlow(p) PROVE QueueSetsParkedBit' /\ QueueSetsHasQueue'
  <2>1. list'["C"] = list["C"] /\ has_queue' = has_queue
    BY <1>13, <1>a, <1>c, Zenon DEF UnlockSlow, Dequeue
  <2>2. \A q \in Proc : pc[q] = "take" => pc'[q] = "take"
    BY <1>13, <1>a, Zenon DEF UnlockSlow
  <2>3. list'["M"] # None => "PARKED" \in locked'
    BY <1>13, <1>a, <1>c, Zenon DEF UnlockSlow, Dequeue, HaveMore
  <2> QED BY <2>1, <2>2, <2>3, <1>b, Zenon DEF QueueSetsParkedBit, QueueSetsHasQueue
<1>14. ASSUME NEW p \in Proc, NotifyOneSlow(p) PROVE QueueSetsParkedBit' /\ QueueSetsHasQueue'
  <2>1. list'["M"] = list["M"] /\ locked' = locked
    BY <1>14, <1>a, <1>c, SMTT(20) DEF NotifyOneSlow, Dequeue
  <2>2. \A q \in Proc : pc[q] # "take"
    BY <1>14, Zenon DEF NotifyOneSlow, IInv, MutualExclusion, Holding
  <2>3. list["C"] # None => has_queue
    BY <2>2, <1>b, Zenon DEF QueueSetsHasQueue
  <2>4. list'["C"] # None => has_queue'
    BY <1>14, <2>3, <1>a, <1>c, Zenon DEF NotifyOneSlow, Dequeue, HaveMore
  <2> QED BY <2>1, <2>4, <1>b, Zenon DEF QueueSetsParkedBit, QueueSetsHasQueue
<1>15. ASSUME NEW p \in Proc, NotifyAllSlow(p) PROVE QueueSetsParkedBit' /\ QueueSetsHasQueue'
  <2>1. list' = list /\ locked' = locked /\ pc'[p] = "take"
    BY <1>15, <1>a, Zenon DEF NotifyAllSlow
  <2> QED BY <2>1, <1>b, Zenon DEF QueueSetsParkedBit, QueueSetsHasQueue
<1>16. ASSUME NEW p \in Proc, UnparkAllTake(p) PROVE QueueSetsParkedBit' /\ QueueSetsHasQueue'
  <2>1. list'["C"] = None /\ list'["M"] = list["M"] /\ locked' = locked
    BY <1>16, <1>a, <1>c, Zenon DEF UnparkAllTake
  <2> QED BY <2>1, <1>b, Zenon DEF QueueSetsParkedBit, QueueSetsHasQueue
<1>17. ASSUME NEW p \in Proc, UnparkAllFollow(p) PROVE QueueSetsParkedBit' /\ QueueSetsHasQueue'
  <2>1. list' = list /\ locked' = locked /\ has_queue' = has_queue
    BY <1>17, SMTT(20) DEF UnparkAllFollow
  <2>2. \A q \in Proc : pc[q] = "take" => pc'[q] = "take"
    BY <1>17, <1>a, Zenon DEF UnparkAllFollow
  <2> QED BY <2>1, <2>2, <1>b, Zenon DEF QueueSetsParkedBit, QueueSetsHasQueue
<1>18. ASSUME NEW f \in Fibers, LockPark(f) PROVE QueueSetsParkedBit' /\ QueueSetsHasQueue'
  <2>0. f \in Proc
    BY Zenon DEF Proc
  <2>1. /\ list'["C"] = list["C"] /\ locked' = locked /\ has_queue' = has_queue
        /\ list' = list \/ locked = {"LOCKED", "PARKED"}
    BY <1>18, <1>a, <1>c, Zenon DEF LockPark, Enqueue
  <2>2. \A q \in Proc : pc[q] = "take" => pc'[q] = "take"
    BY <1>18, <2>0, <1>a, Zenon DEF LockPark
  <2> QED BY <2>1, <2>2, <1>b, Zenon DEF QueueSetsParkedBit, QueueSetsHasQueue
<1>19. ASSUME NEW f \in Fibers, Wait(f) PROVE QueueSetsParkedBit' /\ QueueSetsHasQueue'
  <2>1. list'["M"] = list["M"] /\ locked' = locked /\ has_queue'
    BY <1>19, <1>a, <1>c, Zenon DEF Wait, Enqueue
  <2> QED BY <2>1, <1>b, Zenon DEF QueueSetsParkedBit, QueueSetsHasQueue
<1> QED BY Steps, <1>1, <1>2, <1>3, <1>4, <1>5, <1>6, <1>7, <1>8, <1>9, <1>10,
           <1>11, <1>12, <1>13, <1>14, <1>15, <1>16, <1>17, <1>18, <1>19, Zenon

LEMMA Invariance == Spec => []IInv
<1>1. IInv /\ [Next]_vars => IInv'
  <2> SUFFICES ASSUME IInv, [Next]_vars PROVE IInv'
    BY Zenon
  <2>1. CASE Next
    BY <2>1, TypeStep, LocalStep, ExclusionStep, FlagStep, SMTT(20) DEF IInv
  <2>2. CASE UNCHANGED vars
    BY <2>2, Zenon DEF vars, IInv, TypeOK, Local, LocalAt, MutualExclusion, Holding, QueueSetsParkedBit,
                QueueSetsHasQueue
  <2> QED BY <2>1, <2>2, Zenon
<1> QED BY <1>1, InitIInv, PTL DEF Spec

\* Every variable keeps its type, for any processes and any spin limit.
THEOREM TypeCorrect == Spec => []TypeOK
<1>1. IInv => TypeOK
  BY Zenon DEF IInv
<1> QED BY <1>1, Invariance, PTL

\* The fiber mutex excludes, and its LOCKED bit is set exactly while held.
THEOREM MutexExcludes == Spec => []MutualExclusion
<1>1. IInv => MutualExclusion
  BY Zenon DEF IInv
<1> QED BY <1>1, Invariance, PTL

\* No unlock can take the fast path past a fiber that waits on the mutex.
THEOREM ParkedBitCovers == Spec => []QueueSetsParkedBit
<1>1. IInv => QueueSetsParkedBit
  BY Zenon DEF IInv
<1> QED BY <1>1, Invariance, PTL

\* No notification can skip a fiber that waits on the condition variable.
THEOREM HasQueueCovers == Spec => []QueueSetsHasQueue
<1>1. IInv => QueueSetsHasQueue
  BY Zenon DEF IInv
<1> QED BY <1>1, Invariance, PTL

\* The three together: mutual exclusion and both hints, for any processes.
THEOREM SyncCorrect == Spec => []SyncSafe
BY MutexExcludes, ParkedBitCovers, HasQueueCovers, PTL DEF SyncSafe

-----------------------------------------------------------------------------
(* Linked lists *)

Links == [Fibers -> Fibers \cup {None}]

LEMMA ChainClosed ==
  ASSUME NEW nx \in Links, NEW f \in Fibers
  PROVE  /\ f \in Chain(nx, f) /\ Chain(nx, f) \subseteq Fibers
         /\ \A g \in Chain(nx, f) : nx[g] # None => nx[g] \in Chain(nx, f)
BY Zenon DEF Chain, Links

LEMMA ChainLeast ==
  ASSUME NEW nx, NEW f, NEW S \in SUBSET Fibers, f \in S,
         \A g \in S : nx[g] # None => nx[g] \in S
  PROVE  Chain(nx, f) \subseteq S
BY Zenon DEF Chain

LEMMA ChainSingle ==
  ASSUME NEW nx \in Links, NEW f \in Fibers, nx[f] = None
  PROVE  Chain(nx, f) = {f}
<1> DEFINE S == {f}
<1>1. f \in S /\ S \in SUBSET Fibers /\ \A g \in S : nx[g] # None => nx[g] \in S
  BY Zenon
<1> HIDE DEF S
<1>2. Chain(nx, f) \subseteq S
  BY <1>1, ChainLeast, Zenon
<1>3. f \in Chain(nx, f)
  BY ChainClosed, Zenon
<1> QED BY <1>2, <1>3, Zenon DEF S

\* The entry linked to the last one is on the list, after all that were.
LEMMA ChainAppend ==
  ASSUME NEW nx \in Links, NEW h \in Fibers, NEW t \in Chain(nx, h), nx[t] = None,
         NEW f \in Fibers, f # t, nx[f] = None,
         NEW new \in Links, new[t] = f, \A g \in Fibers : g # t => new[g] = nx[g]
  PROVE  Chain(new, h) = Chain(nx, h) \cup {f}
<1>1. t \in Fibers /\ h \in Chain(nx, h) /\ Chain(nx, h) \subseteq Fibers
  BY ChainClosed, Zenon
<1>3. Chain(new, h) \subseteq Chain(nx, h) \cup {f}
  <2> DEFINE S == Chain(nx, h) \cup {f}
  <2>1. h \in S /\ S \in SUBSET Fibers /\ \A g \in S : new[g] # None => new[g] \in S
    BY <1>1, ChainClosed, Zenon
  <2> HIDE DEF S
  <2>2. Chain(new, h) \subseteq S
    BY <2>1, ChainLeast, Zenon
  <2> QED BY <2>2, Zenon DEF S
<1>4. Chain(nx, h) \subseteq Chain(new, h)
  <2>1. h \in Chain(new, h) /\ Chain(new, h) \subseteq Fibers
    BY ChainClosed, Zenon
  <2>2. \A g \in Chain(new, h) : nx[g] # None => nx[g] \in Chain(new, h)
    BY <2>1, ChainClosed, Zenon
  <2> QED BY <2>1, <2>2, ChainLeast, Zenon
<1>5. f \in Chain(new, h)
  <2>1. t \in Chain(new, h)
    BY <1>4, Zenon
  <2>2. new[t] # None
    BY ProcessAssumption, Zenon
  <2> QED BY <2>1, <2>2, ChainClosed, Zenon
<1> QED BY <1>3, <1>4, <1>5, Zenon

\* Without its first entry the list has the others, if none points to the first.
LEMMA ChainRemove ==
  ASSUME NEW nx \in Links, NEW h \in Fibers, nx[h] # None, \A f \in Fibers : nx[f] # h,
         NEW new \in Links, new[h] = None, \A g \in Fibers : g # h => new[g] = nx[g]
  PROVE  Chain(new, nx[h]) = Chain(nx, h) \ {h}
<1>1. nx[h] \in Fibers /\ h \in Chain(nx, h) /\ Chain(nx, h) \subseteq Fibers
  BY ChainClosed, Zenon DEF Links
<1>3. Chain(new, nx[h]) \subseteq Chain(nx, h) \ {h}
  <2> DEFINE S == Chain(nx, h) \ {h}
  <2>1. nx[h] \in S /\ S \in SUBSET Fibers
    BY <1>1, ChainClosed, Zenon
  <2>2. \A g \in S : new[g] # None => new[g] \in S
    BY <1>1, ChainClosed, Zenon
  <2> HIDE DEF S
  <2>3. Chain(new, nx[h]) \subseteq S
    BY <2>1, <2>2, ChainLeast, Zenon
  <2> QED BY <2>3, Zenon DEF S
<1>4. Chain(nx, h) \subseteq Chain(new, nx[h]) \cup {h}
  <2> DEFINE S == Chain(new, nx[h]) \cup {h}
  <2>1. h \in S /\ S \in SUBSET Fibers
    BY <1>1, ChainClosed, Zenon
  <2>2. \A g \in S : nx[g] # None => nx[g] \in S
    BY <1>1, ChainClosed, Zenon
  <2> HIDE DEF S
  <2>3. Chain(nx, h) \subseteq S
    BY <2>1, <2>2, ChainLeast, Zenon
  <2> QED BY <2>3, Zenon DEF S
<1> QED BY <1>3, <1>4, Zenon

-----------------------------------------------------------------------------
(* The wait lists, as long as the clients do not call notify_all            *)

\* f is in Condvar::wait, after wait_slow made its entry.
InWait(f) == \/ pc[f] \in {"wait_unlock", "wait_parked"}
             \/ pc[f] \in {"unlock_slow", "unpause"} /\ ret[f] = "wait_parked"

\* Where a fiber with an entry in list k is.
Place(k, f) == IF k = "M" THEN pc[f] = "parked" ELSE InWait(f)

\* The fibers that have an entry in list k, if in any, and that nobody is about
\* to unpause.
Asleep(k) == {f \in Fibers : /\ Place(k, f) /\ paused[f]
                             /\ \A p \in Proc : pc[p] = "unpause" => ptr[p] # f}

\* The list of k is a chain of sleeping fibers from the head to the tail: the
\* entries point to different ones, and none to the head.
Chained(k) ==
  /\ \A f \in Fibers : next[k][f] # None => f \in Asleep(k) /\ next[k][f] \in Asleep(k)
  /\ \A f, g \in Fibers : next[k][f] = next[k][g] /\ next[k][f] # None => f = g
  /\ list[k] # None =>
       /\ list[k].head \in Asleep(k) /\ list[k].tail \in Asleep(k)
       /\ list[k].tail \in Chain(next[k], list[k].head)
       /\ next[k][list[k].tail] = None
       /\ \A f \in Fibers : next[k][f] # list[k].head

\* A fiber that was taken off a list stays where it is until it is unpaused,
\* by the one that took it off.
UnpauseOnce ==
  \A p \in Proc : pc[p] = "unpause" =>
    /\ paused[ptr[p]] /\ \E k \in Key : Place(k, ptr[p])
    /\ \A q \in Proc : pc[q] = "unpause" /\ ptr[q] = ptr[p] => q = p

AllLabel == {"clear", "take", "unpause_all", "follow"}
NotifiesOne == \A p \in Proc : pc[p] \notin AllLabel

\* The inductive invariant of the lists.
QInv == /\ NotifiesOne /\ UnpauseOnce /\ Chained("M") /\ Chained("C")
        /\ FreeMutexHasTaker /\ NoneForgotten

LEMMA ListTypes ==
  ASSUME TypeOK, NEW k \in Key
  PROVE  /\ next[k] \in Links
         /\ list[k] # None => list[k].head \in Fibers /\ list[k].tail \in Fibers
BY Zenon DEF TypeOK, Links

\* Only sleeping fibers are on a list.
LEMMA MembersAsleep ==
  ASSUME TypeOK, NEW k \in Key, Chained(k)
  PROVE  Members(k) \subseteq Asleep(k)
<1>1. CASE list[k] = None
  BY <1>1, Zenon DEF Members
<1>2. CASE list[k] # None
  <2>1. next[k] \in Links /\ list[k].head \in Asleep(k)
    BY <1>2, ListTypes, Zenon DEF Chained
  <2>2. Asleep(k) \in SUBSET Fibers
    BY Zenon DEF Asleep
  <2>3. \A g \in Asleep(k) : next[k][g] # None => next[k][g] \in Asleep(k)
    BY <2>2, Zenon DEF Chained
  <2>4. Chain(next[k], list[k].head) \subseteq Asleep(k)
    BY <2>1, <2>2, <2>3, ChainLeast, Zenon
  <2> QED BY <1>2, <2>4, Zenon DEF Members, From
<1> QED BY <1>1, <1>2, Zenon

\* What Enqueue does to a list: the fiber, which has no entry there, is last.
LEMMA EnqueueList ==
  ASSUME TypeOK, NEW k \in Key, Chained(k), NEW f \in Fibers, f \notin Asleep(k), Enqueue(k, f)
  PROVE  /\ Members(k)' = Members(k) \cup {f}
         /\ next'[k] \in Links /\ next'[k][f] = None
         /\ list'[k] # None /\ list'[k].tail = f
         /\ f \in Chain(next'[k], list'[k].head)
         /\ \/ list[k] = None /\ list'[k].head = f /\ (\A g \in Fibers : g # f => next'[k][g] = next[k][g])
            \/ /\ list[k] # None /\ list'[k].head = list[k].head /\ next'[k][list[k].tail] = f
               /\ \A g \in Fibers : g # list[k].tail => next'[k][g] = next[k][g]
         /\ \A j \in Key : j # k => list'[j] = list[j] /\ next'[j] = next[j]
<1> USE ProcessAssumption
<1>1. list \in [Key -> [head : Fibers, tail : Fibers] \cup {None}] /\ next \in [Key -> Links]
  BY Zenon DEF TypeOK, Links
<1>2. next[k] \in Links /\ next[k][f] = None
  BY <1>1, Zenon DEF Chained, Links
<1>3. CASE list[k] = None
  <2> DEFINE nx == [next[k] EXCEPT ![f] = None]
  <2>1. list' = [list EXCEPT ![k] = [head |-> f, tail |-> f]] /\ next' = [next EXCEPT ![k] = nx]
    BY <1>3, Zenon DEF Enqueue
  <2>2. nx \in Links /\ nx[f] = None /\ \A g \in Fibers : g # f => nx[g] = next[k][g]
    BY <1>2, Zenon DEF Links
  <2>3. list'[k] = [head |-> f, tail |-> f] /\ next'[k] = nx
        /\ \A j \in Key : j # k => list'[j] = list[j] /\ next'[j] = next[j]
    BY <1>1, <2>1, Zenon
  <2>4. list'[k] # None
    BY <2>3, NoneAssumption
  <2> HIDE DEF nx
  <2>5. Chain(nx, f) = {f}
    BY <2>2, ChainSingle, Zenon
  <2> QED BY <1>3, <2>2, <2>3, <2>4, <2>5 DEF Members, From
<1>4. CASE list[k] # None
  <2> DEFINE t == list[k].tail
             nx == [next[k] EXCEPT ![f] = None, ![t] = f]
  <2>1. list' = [list EXCEPT ![k] = [list[k] EXCEPT !.tail = f]] /\ next' = [next EXCEPT ![k] = nx]
    BY <1>4, Zenon DEF Enqueue
  <2>2. list[k] \in [head : Fibers, tail : Fibers] /\ t \in Fibers /\ t # f /\ next[k][t] = None
        /\ t \in Chain(next[k], list[k].head)
    BY <1>1, <1>4, Zenon DEF Chained
  <2>3. nx \in Links /\ nx[t] = f /\ nx[f] = None /\ \A g \in Fibers : g # t => nx[g] = next[k][g]
    BY <1>2, <2>2, Zenon DEF Links
  <2>4. list'[k] = [list[k] EXCEPT !.tail = f] /\ next'[k] = nx
        /\ \A j \in Key : j # k => list'[j] = list[j] /\ next'[j] = next[j]
    BY <1>1, <2>1, Zenon
  <2>5. list'[k].head = list[k].head /\ list'[k].tail = f
    BY <2>2, <2>4, Zenon
  <2>6. list'[k] # None
    BY <2>2, <2>4, NoneAssumption, Zenon
  <2> HIDE DEF nx
  <2>7. Chain(nx, list[k].head) = Chain(next[k], list[k].head) \cup {f}
    BY <1>2, <2>2, <2>3, ChainAppend
  <2> QED BY <1>4, <2>3, <2>4, <2>5, <2>6, <2>7, Zenon DEF Members, From
<1> QED BY <1>3, <1>4, Zenon

\* What Dequeue does to a list: the first fiber is off it.
LEMMA DequeueList ==
  ASSUME TypeOK, NEW k \in Key, Chained(k), NEW p \in Proc, list[k] # None, Dequeue(p, k)
  PROVE  /\ Members(k)' = Members(k) \ {list[k].head}
         /\ next'[k] \in Links /\ next'[k][list[k].head] = None
         /\ \A g \in Fibers : g # list[k].head => next'[k][g] = next[k][g]
         /\ list'[k] # None => /\ list'[k].head = next[k][list[k].head]
                               /\ list'[k].head \in Fibers
                               /\ list'[k].tail = list[k].tail
                               /\ list'[k].tail # list[k].head
                               /\ list'[k].tail \in Chain(next'[k], list'[k].head)
         /\ \A j \in Key : j # k => list'[j] = list[j] /\ next'[j] = next[j]
<1> DEFINE h == list[k].head
           nx == [next[k] EXCEPT ![h] = None]
<1>1. list \in [Key -> [head : Fibers, tail : Fibers] \cup {None}] /\ next \in [Key -> Links]
  BY Zenon DEF TypeOK, Links
<1>2. list[k] \in [head : Fibers, tail : Fibers] /\ h \in Fibers /\ next[k] \in Links
  BY <1>1, Zenon
<1>3. /\ list' = [list EXCEPT ![k] = IF next[k][h] = None THEN None
                                     ELSE [list[k] EXCEPT !.head = next[k][h]]]
      /\ next' = [next EXCEPT ![k] = nx]
  BY Zenon DEF Dequeue
<1>4. /\ next'[k] = nx
      /\ list'[k] = IF next[k][h] = None THEN None ELSE [list[k] EXCEPT !.head = next[k][h]]
      /\ \A j \in Key : j # k => list'[j] = list[j] /\ next'[j] = next[j]
  BY <1>1, <1>3, Zenon
<1>5. nx \in Links /\ nx[h] = None /\ \A g \in Fibers : g # h => nx[g] = next[k][g]
  BY <1>2, Zenon DEF Links
<1>6. CASE next[k][h] = None
  <2>1. list'[k] = None
    BY <1>4, <1>6, Zenon
  <2>2. Chain(next[k], h) = {h}
    BY <1>2, <1>6, ChainSingle, Zenon
  <2> QED BY <1>4, <1>5, <2>1, <2>2, Zenon DEF Members, From
<1>7. CASE next[k][h] # None
  <2>1. next[k][h] \in Fibers
    BY <1>2, <1>7, Zenon DEF Links
  <2>2. list'[k].head = next[k][h] /\ list'[k].tail = list[k].tail
    BY <1>2, <1>4, <1>7, Zenon
  <2>3. list'[k] # None
    BY <1>2, <1>4, <1>7, <2>1, NoneAssumption, Zenon
  <2> HIDE DEF nx
  <2>4. Chain(nx, next[k][h]) = Chain(next[k], h) \ {h}
    BY <1>2, <1>5, <1>7, ChainRemove, Zenon DEF Chained
  <2>5. list[k].tail # h /\ list[k].tail \in Chain(next[k], h)
    BY <1>7, Zenon DEF Chained
  <2> QED BY <1>4, <1>5, <2>1, <2>2, <2>3, <2>4, <2>5, Zenon DEF Members, From
<1> QED BY <1>6, <1>7, Zenon

\* A step that leaves the lists alone and wakes none of their fibers.
LEMMA ChainedFrame ==
  ASSUME NEW k \in Key, Chained(k), list'[k] = list[k], next'[k] = next[k],
         TypeOK, Asleep(k) \subseteq Asleep(k)'
  PROVE  Chained(k)' /\ Members(k)' = Members(k)
<1>1. next[k] \in Links /\ (list[k] # None => list[k].head \in Fibers /\ list[k].tail \in Fibers)
  BY ListTypes, Zenon
<1>2. \A f \in Fibers : next[k][f] # None => next[k][f] \in Fibers
  BY <1>1, Zenon DEF Links
<1>3. Members(k)' = Members(k)
  BY Zenon DEF Members, From
<1> QED BY <1>1, <1>2, <1>3, Zenon DEF Chained

LEMMA ChainedEnqueue ==
  ASSUME TypeOK, NEW k \in Key, Chained(k), NEW f \in Fibers, f \notin Asleep(k), Enqueue(k, f),
         f \in Asleep(k)', Asleep(k) \subseteq Asleep(k)'
  PROVE  Chained(k)'
<1> USE ProcessAssumption
<1>1. next[k] \in Links /\ (list[k] # None => list[k].head \in Fibers /\ list[k].tail \in Fibers)
  BY ListTypes, Zenon
<1>2. /\ next'[k] \in Links /\ next'[k][f] = None
      /\ list'[k] # None /\ list'[k].tail = f
      /\ f \in Chain(next'[k], list'[k].head)
      /\ \/ list[k] = None /\ list'[k].head = f /\ (\A g \in Fibers : g # f => next'[k][g] = next[k][g])
         \/ /\ list[k] # None /\ list'[k].head = list[k].head /\ next'[k][list[k].tail] = f
            /\ \A g \in Fibers : g # list[k].tail => next'[k][g] = next[k][g]
  BY EnqueueList
<1>3. \A g \in Fibers : next[k][g] # None => next[k][g] \in Fibers
  BY <1>1, Zenon DEF Links
<1>4. \A g \in Fibers : next[k][g] # f
  BY Zenon DEF Chained
<1>6. \A g \in Fibers : next'[k][g] # None => g \in Asleep(k)' /\ next'[k][g] \in Asleep(k)'
  BY <1>1, <1>2, <1>3, Zenon DEF Chained
<1>7. \A g, e \in Fibers : next'[k][g] = next'[k][e] /\ next'[k][g] # None => g = e
  BY <1>1, <1>2, <1>4 DEF Chained
<1>8. list'[k].head \in Asleep(k)'
  BY <1>1, <1>2, Zenon DEF Chained
<1>9. \A g \in Fibers : next'[k][g] # list'[k].head
  BY <1>1, <1>2, <1>4, Zenon DEF Chained
<1> QED BY <1>2, <1>6, <1>7, <1>8, <1>9, Zenon DEF Chained

LEMMA ChainedDequeue ==
  ASSUME TypeOK, NEW k \in Key, Chained(k), NEW p \in Proc, list[k] # None, Dequeue(p, k),
         Asleep(k) \ {list[k].head} \subseteq Asleep(k)'
  PROVE  Chained(k)'
<1> DEFINE h == list[k].head
<1>1. next[k] \in Links /\ h \in Fibers /\ list[k].tail \in Fibers
  BY ListTypes, Zenon
<1>2. /\ next'[k] \in Links /\ next'[k][h] = None
      /\ \A g \in Fibers : g # h => next'[k][g] = next[k][g]
      /\ list'[k] # None => /\ list'[k].head = next[k][h]
                            /\ list'[k].head \in Fibers
                            /\ list'[k].tail = list[k].tail
                            /\ list'[k].tail # h
                            /\ list'[k].tail \in Chain(next'[k], list'[k].head)
  BY DequeueList, Zenon
<1>3. \A g \in Fibers : next[k][g] # None => next[k][g] \in Fibers
  BY <1>1, Zenon DEF Links
<1>4. \A g \in Fibers : next'[k][g] # None => next'[k][g] = next[k][g] /\ g # h
  BY <1>2, Zenon
<1>5. \A g \in Fibers : next[k][g] # h
  BY Zenon DEF Chained
<1> HIDE DEF h
<1>6. \A g \in Fibers : next'[k][g] # None => g \in Asleep(k)' /\ next'[k][g] \in Asleep(k)'
  BY <1>3, <1>4, <1>5, Zenon DEF Chained, h
<1>7. \A g, e \in Fibers : next'[k][g] = next'[k][e] /\ next'[k][g] # None => g = e
  BY <1>4, Zenon DEF Chained
<1>8. list'[k] # None => list'[k].head \in Asleep(k)' /\ list'[k].tail \in Asleep(k)'
  BY <1>1, <1>2, <1>5, ProcessAssumption, Zenon DEF Chained, h
<1>9. list'[k] # None => next'[k][list'[k].tail] = None
  BY <1>1, <1>2, Zenon DEF Chained
<1>10. list'[k] # None => \A g \in Fibers : next'[k][g] # list'[k].head
  BY <1>1, <1>2, <1>4, ProcessAssumption DEF Chained
<1> QED BY <1>2, <1>6, <1>7, <1>8, <1>9, <1>10, Zenon DEF Chained

\* The part of the invariant about the lists alone.
Lists == NotifiesOne /\ UnpauseOnce /\ Chained("M") /\ Chained("C") /\ NoneForgotten

\* A step of p moves p only.
Others(p) == \A q \in Proc \ {p} : pc'[q] = pc[q] /\ ret'[q] = ret[q] /\ ptr'[q] = ptr[q]

\* A step of p that touches no list and no fiber's pause.
LEMMA QuietStep ==
  ASSUME TypeOK, Local, Lists, NEW p \in Proc, Others(p),
         UNCHANGED <<list, next, paused, ptr>>,
         pc[p] # "unpause", pc'[p] \notin AllLabel \cup {"unpause"},
         p \in Fibers /\ paused[p] =>
           (pc[p] = "parked" => pc'[p] = "parked") /\ (InWait(p) => InWait(p)')
  PROVE  Lists'
<1>1. \A q \in Proc : q # p => /\ InWait(q)' <=> InWait(q)
                               /\ pc'[q] = pc[q] /\ ptr'[q] = ptr[q]
  BY Zenon DEF Others, InWait
<1>2. Fibers \subseteq Proc /\ \A q \in Proc : pc'[q] = "unpause" <=> pc[q] = "unpause"
  BY <1>1, Zenon DEF Proc
<1>3. \A k \in Key, f \in Fibers : Place(k, f) /\ paused[f] => Place(k, f)'
  BY <1>1, <1>2, Zenon DEF Place
<1>4. NotifiesOne'
  BY <1>1, Zenon DEF Lists, NotifiesOne
<1>5. UnpauseOnce'
  <2>1. \A q \in Proc : pc[q] = "unpause" => ptr[q] \in Fibers
    BY Zenon DEF Local, LocalAt
  <2> QED BY <1>2, <1>3, <2>1, Zenon DEF Lists, UnpauseOnce
<1>6. \A k \in Key : Asleep(k) \subseteq Asleep(k)'
  BY <1>2, <1>3, Zenon DEF Asleep
<1>7. /\ Chained("M")' /\ Members("M")' = Members("M")
      /\ Chained("C")' /\ Members("C")' = Members("C")
  BY <1>6, ChainedFrame, Zenon DEF Lists, Key
<1>9. NoneForgotten'
  BY <1>2, <1>7, Zenon DEF Lists, NoneForgotten, NotifiesOne, AllLabel
<1> QED BY <1>4, <1>5, <1>7, <1>9, Zenon DEF Lists

\* The steps of the mutex that neither park nor unpark, and notify_one.
LEMMA QuietActions ==
  ASSUME TypeOK, Local, Lists, NEW p \in Proc,
         \/ Lock(p) \/ TryLock(p) \/ Load(p) \/ LoopAcquire(p) \/ LoopSpin(p) \/ NotifyOne(p)
         \/ LoopPark(p) \/ (p \in Fibers /\ Resume(p)) \/ Unlock(p)
         \/ (LockPark(p) /\ locked # {"LOCKED", "PARKED"})
         \/ (UnlockSlow(p) /\ list["M"] = None)
         \/ (NotifyOneSlow(p) /\ list["C"] = None)
  PROVE  Lists'
<1> USE DEF Goto, AllLabel
<1>a. pc \in [Proc -> Label] /\ ret \in [Proc -> {"idle", "held", "wait_parked"}]
  BY Zenon DEF TypeOK
<1>1. CASE Lock(p) \/ TryLock(p) \/ Load(p) \/ LoopSpin(p) \/ NotifyOne(p)
  <2> USE DEF Lock, TryLock, Load, LoopSpin, NotifyOne
  <2>1. Others(p) /\ UNCHANGED <<list, next, paused, ptr>>
    BY <1>1, <1>a, Zenon DEF Others
  <2>2. pc[p] \in {"idle", "lock", "load", "loop", "held"} /\ pc'[p] \in {"held", "load", "loop", "notify"}
    BY <1>1, <1>a, Zenon
  <2>3. ~InWait(p)
    BY <2>2, Zenon DEF InWait
  <2> QED BY <2>1, <2>2, <2>3, QuietStep, Zenon
<1>2. CASE LoopAcquire(p) \/ LoopPark(p)
  <2> USE DEF LoopAcquire, LoopPark, CompareExchange
  <2>1. Others(p) /\ UNCHANGED <<list, next, paused, ptr>>
    BY <1>2, <1>a, Zenon DEF Others
  <2>2. pc[p] = "loop" /\ pc'[p] \in {"held", "loop", "park"}
    BY <1>2, <1>a, Zenon
  <2>3. ~InWait(p)
    BY <2>2, Zenon DEF InWait
  <2> QED BY <2>1, <2>2, <2>3, QuietStep, Zenon
<1>3. CASE p \in Fibers /\ Resume(p)
  <2>1. Others(p) /\ UNCHANGED <<list, next, paused, ptr>> /\ ~paused[p]
    BY <1>3, <1>a, Zenon DEF Others, Resume
  <2>2. pc[p] \in {"parked", "wait_parked"} /\ pc'[p] \in {"load", "lock"}
    BY <1>3, <1>a, Zenon DEF Resume
  <2> QED BY <2>1, <2>2, QuietStep, Zenon
<1>4. CASE Unlock(p)
  <2>1. Others(p) /\ UNCHANGED <<list, next, paused, ptr>>
    BY <1>4, <1>a, Zenon DEF Others, Unlock
  <2>2. /\ pc[p] \in {"held", "wait_unlock"} /\ pc'[p] \in {"idle", "wait_parked", "unlock_slow"}
        /\ pc[p] = "wait_unlock" => InWait(p)'
    BY <1>4, <1>a, Zenon DEF Unlock, InWait
  <2>3. InWait(p) <=> pc[p] = "wait_unlock"
    BY <2>2, Zenon DEF InWait
  <2> QED BY <2>1, <2>2, <2>3, QuietStep, Zenon
<1>5. CASE LockPark(p) /\ locked # {"LOCKED", "PARKED"}
  <2>1. Others(p) /\ UNCHANGED <<list, next, paused, ptr>>
    BY <1>5, <1>a, Zenon DEF Others, LockPark
  <2>2. pc[p] = "park" /\ pc'[p] = "load"
    BY <1>5, <1>a, Zenon DEF LockPark
  <2>3. ~InWait(p)
    BY <2>2, Zenon DEF InWait
  <2> QED BY <2>1, <2>2, <2>3, QuietStep, Zenon
<1>6. CASE UnlockSlow(p) /\ list["M"] = None
  <2>1. Others(p) /\ UNCHANGED <<list, next, paused, ptr>>
    BY <1>6, <1>a, Zenon DEF Others, UnlockSlow
  <2>2. pc[p] = "unlock_slow" /\ pc'[p] = ret[p] /\ ret[p] \in {"idle", "wait_parked"}
    BY <1>6, <1>a, Zenon DEF UnlockSlow, Local, LocalAt
  <2>3. InWait(p) => InWait(p)'
    BY <2>2, Zenon DEF InWait
  <2> QED BY <2>1, <2>2, <2>3, QuietStep, Zenon
<1>7. CASE NotifyOneSlow(p) /\ list["C"] = None
  <2>1. Others(p) /\ UNCHANGED <<list, next, paused, ptr>>
    BY <1>7, <1>a, Zenon DEF Others, NotifyOneSlow
  <2>2. pc[p] = "notify" /\ pc'[p] = "held"
    BY <1>7, <1>a, Zenon DEF NotifyOneSlow
  <2>3. ~InWait(p)
    BY <2>2, Zenon DEF InWait
  <2> QED BY <2>1, <2>2, <2>3, QuietStep, Zenon
<1> QED BY <1>1, <1>2, <1>3, <1>4, <1>5, <1>6, <1>7, Zenon

LEMMA UnpauseLists ==
  ASSUME TypeOK, Local, Lists, NEW p \in Proc, Unpause(p)
  PROVE  Lists'
<1> DEFINE f == ptr[p]
<1>a. /\ pc \in [Proc -> Label] /\ ret \in [Proc -> {"idle", "held", "wait_parked"}]
      /\ ptr \in [Proc -> Fibers \cup {None}] /\ paused \in [Fibers -> BOOLEAN]
  BY Zenon DEF TypeOK
<1>b. f \in Fibers /\ Fibers \subseteq Proc
  BY Zenon DEF Unpause, Local, LocalAt, Proc
<1>1. Others(p) /\ list' = list /\ next' = next
  BY <1>a, Zenon DEF Unpause, Goto, Others
<1>2. pc[p] = "unpause" /\ pc'[p] = ret[p] /\ ret[p] \in {"idle", "held", "wait_parked"} /\ ret'[p] = "idle"
  BY <1>a, Zenon DEF Unpause, Goto
<1>3. /\ ~paused'[f] /\ \A g \in Fibers : g # f => paused'[g] = paused[g]
  BY <1>a, <1>b, Zenon DEF Unpause
<1> HIDE DEF f
<1>4. (InWait(p) <=> InWait(p)') /\ pc[p] # "parked" /\ pc'[p] # "parked"
  BY <1>2, Zenon DEF InWait
<1>5. \A q \in Proc : /\ InWait(q)' <=> InWait(q)
                      /\ pc'[q] = "parked" <=> pc[q] = "parked"
                      /\ pc'[q] = "unpause" <=> q # p /\ pc[q] = "unpause"
                      /\ q # p => ptr'[q] = ptr[q]
  BY <1>1, <1>2, <1>4, Zenon DEF Others, InWait
<1>6. \A k \in Key, g \in Fibers : Place(k, g)' <=> Place(k, g)
  BY <1>5, <1>b, Zenon DEF Place
<1>7. NotifiesOne'
  BY <1>1, <1>2, Zenon DEF Lists, NotifiesOne, Others, AllLabel
<1>8. \A q \in Proc : q # p /\ pc[q] = "unpause" => ptr[q] \in Fibers /\ ptr[q] # f
  BY <1>2, Zenon DEF Lists, UnpauseOnce, Local, LocalAt, f
<1>9. UnpauseOnce'
  <2> SUFFICES ASSUME NEW q \in Proc, pc'[q] = "unpause"
               PROVE  /\ paused'[ptr'[q]] /\ \E k \in Key : Place(k, ptr[q])'
                      /\ \A r \in Proc : pc'[r] = "unpause" /\ ptr'[r] = ptr'[q] => r = q
    BY Zenon DEF UnpauseOnce
  <2>1. q # p /\ pc[q] = "unpause" /\ ptr'[q] = ptr[q] /\ ptr[q] \in Fibers /\ ptr[q] # f
    BY <1>5, <1>8, Zenon
  <2>2. paused[ptr[q]] /\ \E k \in Key : Place(k, ptr[q])
    BY <2>1, Zenon DEF Lists, UnpauseOnce
  <2>3. PICK k \in Key : Place(k, ptr[q])
    BY <2>2, Zenon
  <2>4. Place(k, ptr[q])'
    BY <1>6, <2>1, <2>3, Zenon
  <2>5. \A r \in Proc : pc'[r] = "unpause" /\ ptr'[r] = ptr'[q] => r = q
    BY <1>5, <2>1, Zenon DEF Lists, UnpauseOnce
  <2> QED BY <1>3, <2>1, <2>2, <2>4, <2>5, Zenon
<1>10. \A k \in Key : Asleep(k) \subseteq Asleep(k)'
  <2>1. \A k \in Key : f \notin Asleep(k)
    BY <1>2, Zenon DEF Asleep, f
  <2> QED BY <1>3, <1>5, <1>6, <2>1 DEF Asleep
<1>11. /\ Chained("M")' /\ Members("M")' = Members("M")
       /\ Chained("C")' /\ Members("C")' = Members("C")
  BY <1>1, <1>10, ChainedFrame, Zenon DEF Lists, Key
<1>13. NoneForgotten'
  <2> SUFFICES ASSUME NEW g \in Fibers, paused'[g]
               PROVE  \/ g \in Members("M")' \cup Members("C")'
                      \/ \E q \in Proc : pc'[q] = "unpause" /\ ptr'[q] = g
    BY Zenon DEF NoneForgotten
  <2>1. g # f /\ paused[g]
    BY <1>3, Zenon
  <2>2. CASE g \in Members("M") \cup Members("C")
    BY <1>11, <2>2, Zenon
  <2>3. CASE g \notin Members("M") \cup Members("C")
    <3>1. PICK q \in Proc : pc[q] = "unpause" /\ ptr[q] = g
      BY <2>1, <2>3, Zenon DEF Lists, NoneForgotten, NotifiesOne, AllLabel
    <3>2. q # p
      BY <2>1, <3>1, Zenon DEF f
    <3> QED BY <1>5, <3>1, <3>2, Zenon
  <2> QED BY <2>2, <2>3, Zenon
<1> QED BY <1>7, <1>9, <1>11, <1>13, Zenon DEF Lists

\* park on list k by a fiber that is awake.
LEMMA EnqueueLists ==
  ASSUME TypeOK, Local, Lists, NEW k \in Key, NEW f \in Fibers, Enqueue(k, f), Others(f), ptr' = ptr,
         pc[f] \in {"park", "held"}, pc'[f] = IF k = "M" THEN "parked" ELSE "wait_unlock"
  PROVE  Lists'
<1>a. /\ paused \in [Fibers -> BOOLEAN] /\ Fibers \subseteq Proc /\ Key = {"M", "C"}
  BY Zenon DEF TypeOK, Proc, Key
<1>1. \A j \in Key : ~Place(j, f)
  BY Zenon DEF Place, InWait
<1>2. Place(k, f)' /\ pc'[f] # "unpause"
  BY Zenon DEF Place, InWait
<1>3. \A q \in Proc : /\ q # f => (InWait(q)' <=> InWait(q))
                      /\ pc'[q] = "unpause" <=> pc[q] = "unpause"
                      /\ ptr'[q] = ptr[q]
  BY <1>2, Zenon DEF Others, InWait
<1>4. \A j \in Key, g \in Fibers : g # f => (Place(j, g)' <=> Place(j, g))
  BY <1>3, <1>a, Zenon DEF Place, Others
<1>5. paused'[f] /\ \A g \in Fibers : g # f => paused'[g] = paused[g]
  BY <1>a, Zenon DEF Enqueue
<1>6. \A q \in Proc : pc[q] = "unpause" => ptr[q] \in Fibers /\ ptr[q] # f
  BY <1>1, Zenon DEF Lists, UnpauseOnce, Local, LocalAt
<1>7. UnpauseOnce'
  <2> SUFFICES ASSUME NEW q \in Proc, pc'[q] = "unpause"
               PROVE  /\ paused'[ptr'[q]] /\ \E j \in Key : Place(j, ptr[q])'
                      /\ \A r \in Proc : pc'[r] = "unpause" /\ ptr'[r] = ptr'[q] => r = q
    BY Zenon DEF UnpauseOnce
  <2>1. pc[q] = "unpause" /\ ptr'[q] = ptr[q] /\ ptr[q] \in Fibers /\ ptr[q] # f
    BY <1>3, <1>6, Zenon
  <2>2. paused[ptr[q]] /\ \E j \in Key : Place(j, ptr[q])
    BY <2>1, Zenon DEF Lists, UnpauseOnce
  <2>3. PICK j \in Key : Place(j, ptr[q])
    BY <2>2, Zenon
  <2>4. Place(j, ptr[q])'
    BY <1>4, <2>1, <2>3, Zenon
  <2>5. \A r \in Proc : pc'[r] = "unpause" /\ ptr'[r] = ptr'[q] => r = q
    BY <1>3, <2>1, Zenon DEF Lists, UnpauseOnce
  <2> QED BY <1>5, <2>1, <2>2, <2>4, <2>5, Zenon
<1>8. \A j \in Key : f \notin Asleep(j) /\ Asleep(j) \subseteq Asleep(j)'
  BY <1>1, <1>3, <1>4, <1>5, Zenon DEF Asleep
<1>9. f \in Asleep(k)'
  BY <1>2, <1>3, <1>5, <1>6, Zenon DEF Asleep
<1>10. Chained(k) /\ Chained(k)' /\ Members(k)' = Members(k) \cup {f}
  <2>1. Chained(k)
    BY <1>a, Zenon DEF Lists
  <2> QED BY <1>8, <1>9, <2>1, ChainedEnqueue, EnqueueList, Zenon
<1>11. \A j \in Key : j # k => Chained(j)' /\ Members(j)' = Members(j)
  <2> SUFFICES ASSUME NEW j \in Key, j # k PROVE Chained(j)' /\ Members(j)' = Members(j)
    BY Zenon
  <2>1. Chained(j)
    BY <1>a, Zenon DEF Lists
  <2>2. list'[j] = list[j] /\ next'[j] = next[j]
    BY <1>8, <1>10, EnqueueList
  <2> QED BY <1>8, <2>1, <2>2, ChainedFrame, Zenon
<1>12. Chained("M")' /\ Chained("C")'
  BY <1>10, <1>11, <1>a, Zenon
<1>13. /\ Members("M") \subseteq Members("M")' /\ Members("C") \subseteq Members("C")'
       /\ f \in Members(k)'
  BY <1>10, <1>11, <1>a, Zenon
<1>14. NotifiesOne'
  BY Zenon DEF Lists, NotifiesOne, Others, AllLabel
<1>16. NoneForgotten'
  <2> SUFFICES ASSUME NEW g \in Fibers, paused'[g]
               PROVE  \/ g \in Members("M")' \cup Members("C")'
                      \/ \E q \in Proc : pc'[q] = "unpause" /\ ptr'[q] = g
    BY Zenon DEF NoneForgotten
  <2>1. CASE g = f
    BY <1>13, <1>a, <2>1, Zenon
  <2>2. CASE g # f
    BY <1>3, <1>5, <1>13, <2>2 DEF Lists, NoneForgotten, NotifiesOne, AllLabel
  <2> QED BY <2>1, <2>2, Zenon
<1> QED BY <1>7, <1>12, <1>14, <1>16, Zenon DEF Lists

\* unpark_one takes the first fiber off list k: the holder of the mutex does.
LEMMA DequeueLists ==
  ASSUME TypeOK, Local, Lists, NEW k \in Key, NEW p \in Proc, list[k] # None,
         Dequeue(p, k), Others(p), paused' = paused,
         \/ k = "M" /\ pc[p] = "unlock_slow" /\ ret'[p] = ret[p]
         \/ k = "C" /\ pc[p] = "notify" /\ ret'[p] = "held",
         pc'[p] = "unpause"
  PROVE  Lists'
<1>a. /\ ptr \in [Proc -> Fibers \cup {None}] /\ Fibers \subseteq Proc /\ Key = {"M", "C"}
      /\ ret \in [Proc -> {"idle", "held", "wait_parked"}]
  BY Zenon DEF TypeOK, Proc, Key
<1>b. Chained(k)
  BY <1>a, Zenon DEF Lists
<1>1. PICK h \in Fibers : h = list[k].head /\ h \in Asleep(k)
  BY <1>b, ListTypes, Zenon DEF Chained
<1>2. ptr'[p] = h /\ \A q \in Proc : q # p => ptr'[q] = ptr[q]
  BY <1>1, <1>a, Zenon DEF Dequeue
<1>3. \A j \in Key : /\ j # k => Members(j)' = Members(j) /\ list'[j] = list[j] /\ next'[j] = next[j]
                     /\ Members(k)' = Members(k) \ {h}
  BY <1>1, <1>b, DequeueList, Zenon DEF Members, From
<1>4. (InWait(p) <=> InWait(p)') /\ pc[p] # "parked" /\ pc'[p] # "parked" /\ pc[p] # "unpause"
  BY Zenon DEF InWait
<1>5. \A q \in Proc : /\ InWait(q)' <=> InWait(q)
                      /\ pc'[q] = "parked" <=> pc[q] = "parked"
                      /\ pc'[q] = "unpause" <=> pc[q] = "unpause" \/ q = p
  BY <1>4, Zenon DEF Others, InWait
<1>6. \A j \in Key, g \in Fibers : Place(j, g)' <=> Place(j, g)
  BY <1>5, <1>a, Zenon DEF Place
<1>7. \A j \in Key : Asleep(j) \ {h} \subseteq Asleep(j)'
  <2> SUFFICES ASSUME NEW j \in Key, NEW g \in Asleep(j), g # h PROVE g \in Asleep(j)'
    BY Zenon
  <2>1. g \in Fibers /\ Place(j, g)' /\ paused'[g]
    BY <1>6, Zenon DEF Asleep
  <2>2. \A q \in Proc : pc'[q] = "unpause" => ptr'[q] # g
    BY <1>2, <1>5, Zenon DEF Asleep
  <2> QED BY <2>1, <2>2, Zenon DEF Asleep
<1>8. \A j \in Key : j # k => h \notin Asleep(j)
  <2>1. \A g \in Fibers : ~(Place("M", g) /\ Place("C", g))
    BY Zenon DEF Place, InWait
  <2> QED BY <1>1, <2>1, <1>a, Zenon DEF Asleep
<1>9. Chained(k)'
  BY <1>1, <1>7, <1>b, ChainedDequeue, Zenon
<1>10. \A j \in Key : j # k => Chained(j)'
  <2> SUFFICES ASSUME NEW j \in Key, j # k PROVE Chained(j)'
    BY Zenon
  <2>1. Chained(j)
    BY <1>a, Zenon DEF Lists
  <2>2. Asleep(j) \subseteq Asleep(j)'
    BY <1>7, <1>8, Zenon
  <2> QED BY <1>3, <2>1, <2>2, ChainedFrame, Zenon
<1>11. Chained("M")' /\ Chained("C")'
  BY <1>9, <1>10, <1>a, Zenon
<1>12. NotifiesOne'
  BY Zenon DEF Lists, NotifiesOne, Others, AllLabel
<1>13. UnpauseOnce'
  <2>1. \A q \in Proc : pc[q] = "unpause" => ptr[q] \in Fibers /\ ptr[q] # h
    BY <1>1, Zenon DEF Asleep, Local, LocalAt
  <2> SUFFICES ASSUME NEW q \in Proc, pc'[q] = "unpause"
               PROVE  /\ paused'[ptr'[q]] /\ \E j \in Key : Place(j, ptr[q])'
                      /\ \A r \in Proc : pc'[r] = "unpause" /\ ptr'[r] = ptr'[q] => r = q
    BY Zenon DEF UnpauseOnce
  <2>2. CASE q = p
    <3>1. paused'[h]
      BY <1>1, Zenon DEF Asleep
    <3>2. PICK j \in Key : Place(j, h)'
      BY <1>1, <1>6, Zenon DEF Asleep
    <3>3. Place(j, ptr[q])'
      BY <1>2, <2>2, <3>2, Zenon DEF Place, InWait
    <3>4. \A r \in Proc : pc'[r] = "unpause" /\ ptr'[r] = ptr'[q] => r = q
      BY <1>2, <1>5, <2>1, <2>2, Zenon
    <3> QED BY <1>2, <2>2, <3>1, <3>3, <3>4, Zenon
  <2>3. CASE q # p
    <3>1. pc[q] = "unpause" /\ ptr'[q] = ptr[q] /\ ptr[q] \in Fibers /\ ptr[q] # h
      BY <1>2, <1>5, <2>1, <2>3, Zenon
    <3>2. PICK j \in Key : Place(j, ptr[q])
      BY <3>1, Zenon DEF Lists, UnpauseOnce
    <3>3. Place(j, ptr[q])'
      BY <1>6, <3>1, <3>2 DEF Place, InWait
    <3>4. \A r \in Proc : pc'[r] = "unpause" /\ ptr'[r] = ptr'[q] => r = q
      BY <1>2, <1>5, <3>1, Zenon DEF Lists, UnpauseOnce
    <3> QED BY <3>1, <3>3, <3>4, Zenon DEF Lists, UnpauseOnce
  <2> QED BY <2>2, <2>3, Zenon
<1>15. NoneForgotten'
  <2> SUFFICES ASSUME NEW g \in Fibers, paused'[g]
               PROVE  \/ g \in Members("M")' \cup Members("C")'
                      \/ \E q \in Proc : pc'[q] = "unpause" /\ ptr'[q] = g
    BY Zenon DEF NoneForgotten
  <2>1. CASE g = h
    BY <1>2, <2>1, Zenon
  <2>2. CASE g # h /\ g \in Members("M") \cup Members("C")
    BY <1>3, <1>a, <2>2, Zenon
  <2>3. CASE g # h /\ g \notin Members("M") \cup Members("C")
    <3>1. PICK q \in Proc : pc[q] = "unpause" /\ ptr[q] = g
      BY <2>3, Zenon DEF Lists, NoneForgotten, NotifiesOne, AllLabel
    <3> QED BY <1>2, <1>4, <1>5, <3>1, Zenon
  <2> QED BY <2>1, <2>2, <2>3, Zenon
<1> QED BY <1>11, <1>12, <1>13, <1>15, Zenon DEF Lists

-----------------------------------------------------------------------------
(* Somebody takes a free mutex that fibers wait for *)

Taker(p) == \/ pc[p] \in {"lock", "load", "loop", "park"}
            \/ p \in Fibers /\ pc[p] = "parked" /\ ~paused[p]
            \/ pc[p] = "unpause" /\ pc[ptr[p]] = "parked"

LEMMA TakerStep ==
  ASSUME IInv, QInv, Next
  PROVE  FreeMutexHasTaker'
<1> USE DEF Goto
<1>a. /\ pc \in [Proc -> Label] /\ ret \in [Proc -> {"idle", "held", "wait_parked"}]
      /\ ptr \in [Proc -> Fibers \cup {None}] /\ paused \in [Fibers -> BOOLEAN]
      /\ Fibers \subseteq Proc
  BY Zenon DEF IInv, TypeOK, Proc
<1>b. \A p \in Proc : Holding(p) => "LOCKED" \in locked
  BY Zenon DEF IInv, MutualExclusion
<1>1. ASSUME NEW p \in Proc, Lock(p) \/ TryLock(p) \/ Load(p) \/ LoopSpin(p) PROVE FreeMutexHasTaker'
  <2>1. pc'[p] \in {"load", "loop"} \/ "LOCKED" \in locked'
    BY <1>1, <1>a, Zenon DEF Lock, TryLock, Load, LoopSpin
  <2> QED BY <2>1, Zenon DEF FreeMutexHasTaker
<1>2. ASSUME NEW p \in Proc, LoopAcquire(p) \/ LoopPark(p) PROVE FreeMutexHasTaker'
  <2>1. pc'[p] \in {"loop", "park"} \/ "LOCKED" \in locked'
    BY <1>2, <1>a, Zenon DEF LoopAcquire, LoopPark, CompareExchange
  <2> QED BY <2>1, Zenon DEF FreeMutexHasTaker
<1>3. ASSUME NEW f \in Fibers, LockPark(f) \/ Resume(f) PROVE FreeMutexHasTaker'
  <2>1. pc'[f] \in {"load", "lock"} \/ "LOCKED" \in locked'
    BY <1>3, <1>a, Zenon DEF LockPark, Resume
  <2> QED BY <1>a, <2>1, Zenon DEF FreeMutexHasTaker
<1>4. ASSUME NEW p \in Proc, Unlock(p) PROVE FreeMutexHasTaker'
  <2>1. Holding(p) /\ list' = list
    BY <1>4, Zenon DEF Unlock, Holding
  <2>2. list["M"] # None => locked' = locked
    BY <1>4 DEF Unlock, IInv, QueueSetsParkedBit
  <2> QED BY <1>b, <2>1, <2>2, Zenon DEF FreeMutexHasTaker
<1>5. ASSUME NEW p \in Proc, UnlockSlow(p) PROVE FreeMutexHasTaker'
  <2>1. CASE list["M"] = None
    BY <1>5, <2>1, Zenon DEF UnlockSlow, FreeMutexHasTaker
  <2>2. CASE list["M"] # None
    <3>1. PICK h \in Fibers : h = list["M"].head /\ pc[h] = "parked"
      BY <2>2, ListTypes, Zenon DEF IInv, QInv, Chained, Asleep, Place, Key
    <3>2. pc'[p] = "unpause" /\ ptr'[p] = h /\ pc'[h] = "parked"
      BY <1>5, <1>a, <2>2, <3>1, Zenon DEF UnlockSlow, Dequeue
    <3> QED BY <3>2, Zenon DEF FreeMutexHasTaker
  <2> QED BY <2>1, <2>2, Zenon
<1>6. ASSUME NEW p \in Proc, Unpause(p) PROVE FreeMutexHasTaker'
  <2> SUFFICES ASSUME list'["M"] # None, "LOCKED" \notin locked'
               PROVE  \E q \in Proc : Taker(q)'
    BY Zenon DEF FreeMutexHasTaker, Taker
  <2>1. list["M"] # None /\ "LOCKED" \notin locked
    BY <1>6, Zenon DEF Unpause
  <2>2. PICK q \in Proc : Taker(q)
    BY <2>1, Zenon DEF QInv, FreeMutexHasTaker, Taker
  <2>3. PICK f \in Fibers : ptr[p] = f
    BY <1>6, Zenon DEF Unpause, IInv, Local, LocalAt
  <2>4. /\ ~paused'[f] /\ pc[p] = "unpause"
        /\ \A g \in Fibers : ~paused[g] => ~paused'[g]
        /\ \A r \in Proc : r # p => pc'[r] = pc[r] /\ ptr'[r] = ptr[r]
    BY <1>6, <1>a, <2>3, Zenon DEF Unpause
  <2>5. CASE q = p
    <3>1. pc[f] = "parked"
      BY <2>2, <2>3, <2>4, <2>5, Zenon DEF Taker
    <3>2. f \in Proc /\ Taker(f)'
      BY <1>a, <2>4, <3>1, Zenon DEF Taker
    <3> QED BY <3>2, Zenon
  <2>6. CASE q # p
    <3>1. pc'[q] = pc[q] /\ ptr'[q] = ptr[q]
      BY <2>4, <2>6, Zenon
    <3>2. pc[q] = "unpause" => ptr[q] \in Proc
      BY <1>a, Zenon DEF IInv, Local, LocalAt
    <3>3. Taker(q)'
      BY <2>2, <2>4, <3>1, <3>2, Zenon DEF Taker
    <3> QED BY <3>3, Zenon
  <2> QED BY <2>5, <2>6, Zenon
<1>7. ASSUME NEW p \in Proc, Holding(p), locked' = locked PROVE FreeMutexHasTaker'
  BY <1>7, <1>b, Zenon DEF FreeMutexHasTaker
<1>8. ASSUME NEW p \in Proc, NotifyOne(p) \/ NotifyOneSlow(p) \/ NotifyAll(p) \/ NotifyAllSlow(p)
             \/ UnparkAllTake(p) \/ UnparkAllUnpause(p) \/ UnparkAllFollow(p)
      PROVE  FreeMutexHasTaker'
  BY <1>7, <1>8, Zenon DEF NotifyOne, NotifyOneSlow, NotifyAll, NotifyAllSlow, UnparkAllTake,
                    UnparkAllUnpause, UnparkAllFollow, Holding
<1>9. ASSUME NEW f \in Fibers, Wait(f) PROVE FreeMutexHasTaker'
  BY <1>7, <1>9, <1>a, Zenon DEF Wait, Holding
<1> QED BY Steps, <1>1, <1>2, <1>3, <1>4, <1>5, <1>6, <1>8, <1>9, <1>a, Zenon

LEMMA ListsStep ==
  ASSUME ~UseNotifyAll, IInv, Lists, Next
  PROVE  Lists'
<1> USE DEF Goto
<1>a. /\ pc \in [Proc -> Label] /\ ret \in [Proc -> {"idle", "held", "wait_parked"}]
      /\ ptr \in [Proc -> Fibers \cup {None}]
      /\ Fibers \subseteq Proc /\ TypeOK /\ Local
  BY Zenon DEF IInv, TypeOK, Proc
<1>1. ASSUME NEW p \in Proc,
             Lock(p) \/ TryLock(p) \/ Load(p) \/ LoopAcquire(p) \/ LoopSpin(p) \/ NotifyOne(p) \/ Unlock(p)
      PROVE  Lists'
  BY <1>1, <1>a, QuietActions, Zenon
<1>2. ASSUME NEW f \in Fibers, LoopPark(f) \/ Resume(f) PROVE Lists'
  BY <1>2, <1>a, QuietActions, Zenon
<1>3. ASSUME NEW p \in Proc, Unpause(p) PROVE Lists'
  BY <1>3, <1>a, UnpauseLists, Zenon
<1>4. ASSUME NEW p \in Proc, UnlockSlow(p) PROVE Lists'
  <2>1. CASE list["M"] = None
    BY <1>4, <1>a, <2>1, QuietActions, Zenon
  <2>2. CASE list["M"] # None
    <3>1. Dequeue(p, "M") /\ paused' = paused /\ pc[p] = "unlock_slow" /\ ret' = ret
      BY <1>4, <2>2, Zenon DEF UnlockSlow
    <3>2. Others(p) /\ pc'[p] = "unpause"
      BY <1>4, <1>a, <2>2, Zenon DEF UnlockSlow, Dequeue, Others
    <3> QED BY <1>a, <2>2, <3>1, <3>2, DequeueLists, Zenon DEF Key
  <2> QED BY <2>1, <2>2, Zenon
<1>5. ASSUME NEW p \in Proc, NotifyOneSlow(p) PROVE Lists'
  <2>1. CASE list["C"] = None
    BY <1>5, <1>a, <2>1, QuietActions, Zenon
  <2>2. CASE list["C"] # None
    <3>1. Dequeue(p, "C") /\ paused' = paused /\ pc[p] = "notify" /\ ret'[p] = "held"
      BY <1>5, <1>a, <2>2, Zenon DEF NotifyOneSlow
    <3>2. Others(p) /\ pc'[p] = "unpause"
      BY <1>5, <1>a, <2>2, Zenon DEF NotifyOneSlow, Dequeue, Others
    <3> QED BY <1>a, <2>2, <3>1, <3>2, DequeueLists, Zenon DEF Key
  <2> QED BY <2>1, <2>2, Zenon
<1>6. ASSUME NEW p \in Proc, NotifyAll(p) \/ NotifyAllSlow(p) \/ UnparkAllTake(p)
                             \/ UnparkAllUnpause(p) \/ UnparkAllFollow(p)
      PROVE  Lists'
  <2>1. pc[p] \notin AllLabel
    BY Zenon DEF Lists, NotifiesOne
  <2> QED BY <1>6, <2>1, Zenon DEF AllLabel, NotifyAll, NotifyAllSlow, UnparkAllTake, UnparkAllUnpause, UnparkAllFollow
<1>7. ASSUME NEW f \in Fibers, LockPark(f) PROVE Lists'
  <2>1. CASE locked # {"LOCKED", "PARKED"}
    BY <1>7, <1>a, <2>1, QuietActions, Zenon
  <2>2. CASE locked = {"LOCKED", "PARKED"}
    <3>1. Enqueue("M", f) /\ ptr' = ptr /\ pc[f] = "park"
      BY <1>7, <2>2, Zenon DEF LockPark
    <3>2. Others(f) /\ pc'[f] = "parked"
      BY <1>7, <1>a, <2>2, Zenon DEF LockPark, Others
    <3> QED BY <1>a, <3>1, <3>2, EnqueueLists, Zenon DEF Key
  <2> QED BY <2>1, <2>2, Zenon
<1>8. ASSUME NEW f \in Fibers, Wait(f) PROVE Lists'
  <2>1. Enqueue("C", f) /\ ptr' = ptr /\ pc[f] = "held"
    BY <1>8, Zenon DEF Wait
  <2>2. Others(f) /\ pc'[f] = "wait_unlock"
    BY <1>8, <1>a, Zenon DEF Wait, Others
  <2> QED BY <1>a, <2>1, <2>2, EnqueueLists, Zenon DEF Key
<1> QED BY Steps, <1>1, <1>2, <1>3, <1>4, <1>5, <1>6, <1>7, <1>8, Zenon

LEMMA QueueInvariance ==
  ASSUME ~UseNotifyAll
  PROVE  Spec => []QInv
<1>1. Init => QInv
  <2> SUFFICES ASSUME Init PROVE QInv
    BY Zenon
  <2> USE DEF Init
  <2>1. NotifiesOne /\ UnpauseOnce
    BY Zenon DEF NotifiesOne, UnpauseOnce, AllLabel
  <2>2. Chained("M") /\ Chained("C")
    BY Zenon DEF Chained, Key
  <2>3. FreeMutexHasTaker /\ NoneForgotten
    BY Zenon DEF FreeMutexHasTaker, NoneForgotten, Key
  <2> QED BY <2>1, <2>2, <2>3, Zenon DEF QInv
<1>2. IInv /\ QInv /\ [Next]_vars => QInv'
  <2> SUFFICES ASSUME IInv, QInv, [Next]_vars PROVE QInv'
    BY Zenon
  <2>1. CASE Next
    BY <2>1, ListsStep, TakerStep, Zenon DEF QInv, Lists
  <2>2. CASE UNCHANGED vars
    <3> USE <2>2 DEF vars
    <3>1. NotifiesOne' /\ UnpauseOnce' /\ FreeMutexHasTaker' /\ NoneForgotten'
      BY DEF QInv, NotifiesOne, UnpauseOnce, FreeMutexHasTaker, NoneForgotten,
             Place, InWait, Members, From
    <3>2. \A k \in Key : Asleep(k)' = Asleep(k)
      BY Zenon DEF Asleep, Place, InWait
    <3>3. \A k \in Key : Chained(k) => Chained(k)'
      BY <3>2, Zenon DEF Chained
    <3> QED BY <3>1, <3>3, Zenon DEF QInv, Key
  <2> QED BY <2>1, <2>2, Zenon
<1> QED BY <1>1, <1>2, Invariance, PTL DEF Spec

\* Without notify_all every paused fiber is on a wait list or about to be
\* unpaused, for any number of fibers and threads.
THEOREM NobodyForgotten ==
  ASSUME ~UseNotifyAll
  PROVE  Spec => []NoneForgotten
<1>1. QInv => NoneForgotten
  BY Zenon DEF QInv
<1> QED BY <1>1, QueueInvariance, PTL

\* Without notify_all nobody sleeps next to a free mutex that no one is on the
\* way to take, for any number of fibers and threads.
THEOREM FreeMutexTaken ==
  ASSUME ~UseNotifyAll
  PROVE  Spec => []FreeMutexHasTaker
<1>1. QInv => FreeMutexHasTaker
  BY Zenon DEF QInv
<1> QED BY <1>1, QueueInvariance, PTL

-----------------------------------------------------------------------------
(* The monitor *)

OwnerRight == /\ \A p \in Proc : Holding(p) => Owner = p
              /\ (\A p \in Proc : ~Holding(p)) => Owner = None

LEMMA OwnerHolds == MutualExclusion => OwnerRight
<1> SUFFICES ASSUME MutualExclusion PROVE OwnerRight
  BY Zenon
<1>1. ASSUME NEW p \in Proc, Holding(p) PROVE Owner = p
  <2>1. \A q \in Proc : Holding(q) => q = p
    BY <1>1, Zenon DEF MutualExclusion
  <2>2. (CHOOSE q \in Proc : Holding(q)) \in Proc /\ Holding(CHOOSE q \in Proc : Holding(q))
    BY <1>1, Zenon
  <2> QED BY <1>1, <2>1, <2>2, Zenon DEF Owner
<1> QED BY <1>1, Zenon DEF OwnerRight, Owner

SameMembers == list'["C"] = list["C"] /\ next'["C"] = next["C"]

LEMMA MembersKept == SameMembers => Members("C")' = Members("C")
BY Zenon DEF SameMembers, Members, From

LEMMA MembersFibers == ASSUME TypeOK PROVE Members("C") \subseteq Fibers
BY ListTypes, ChainClosed, Zenon DEF Members, From, Key

\* Nobody takes or releases the mutex.
LEMMA Stutters ==
  ASSUME TypeOK, OwnerRight, OwnerRight', \A q \in Proc : Holding(q)' <=> Holding(q), SameMembers
  PROVE  UNCHANGED <<Owner, Waiters>>
<1>1. Owner' = Owner
  BY Zenon DEF OwnerRight
<1>2. Members("C") \subseteq Proc
  BY MembersFibers, Zenon DEF Proc
<1>3. Waiters' = Waiters
  BY <1>2, MembersKept, Zenon DEF Waiters
<1> QED BY <1>1, <1>3, Zenon

LEMMA Acquires ==
  ASSUME TypeOK, OwnerRight, OwnerRight', SameMembers, NEW p \in Proc, p \notin Members("C"),
         \A q \in Proc : ~Holding(q), \A q \in Proc : Holding(q)' <=> q = p
  PROVE  Abs!Next
<1>1. Owner = None /\ Owner' = p
  BY Zenon DEF OwnerRight
<1>2. Members("C") \subseteq Proc
  BY MembersFibers, Zenon DEF Proc
<1>3. Waiters' = Waiters /\ p \notin Waiters
  BY <1>2, MembersKept, Zenon DEF Waiters
<1>4. Abs!Acquire(p)
  BY <1>1, <1>3, Zenon DEF Abs!Acquire
<1> QED BY <1>4, Zenon DEF Abs!Next, Proc

\* The mutex is released, by unlock or by wait.
LEMMA Releases ==
  ASSUME TypeOK, OwnerRight, OwnerRight', SameMembers, NEW p \in Proc,
         \A q \in Proc : Holding(q) <=> q = p, \A q \in Proc : ~Holding(q)'
  PROVE  Abs!Next
<1>1. Owner = p /\ Owner' = None /\ p # None
  BY ProcessAssumption, Zenon DEF OwnerRight, Proc
<1>2. Members("C") \subseteq Fibers /\ Fibers \subseteq Proc
  BY MembersFibers, Zenon DEF Proc
<1>3. CASE p \in Members("C")
  <2>1. Waiters' = Waiters \cup {p}
    BY <1>2, <1>3, MembersKept, Zenon DEF Waiters
  <2>2. Abs!Wait(p)
    BY <1>1, <2>1, Zenon DEF Abs!Wait
  <2> QED BY <1>2, <1>3, <2>2, Zenon DEF Abs!Next
<1>4. CASE p \notin Members("C")
  <2>1. Waiters' = Waiters
    BY <1>2, <1>4, MembersKept, Zenon DEF Waiters
  <2>2. Abs!Release
    BY <1>1, <2>1, Zenon DEF Abs!Release
  <2> QED BY <2>2, Zenon DEF Abs!Next
<1> QED BY <1>3, <1>4, Zenon

LEMMA MonitorStep ==
  ASSUME ~UseNotifyAll, IInv, IInv', QInv, QInv', Next
  PROVE  Abs!Next \/ UNCHANGED <<Owner, Waiters>>
<1> USE DEF Goto
<1>a. /\ pc \in [Proc -> Label] /\ ret \in [Proc -> {"idle", "held", "wait_parked"}]
      /\ ptr \in [Proc -> Fibers \cup {None}] /\ list \in [Key -> [head : Fibers, tail : Fibers] \cup {None}]
      /\ next \in [Key -> [Fibers -> Fibers \cup {None}]] /\ Key = {"M", "C"}
      /\ Fibers \subseteq Proc /\ TypeOK
  BY Zenon DEF IInv, TypeOK, Proc, Key
<1>b. OwnerRight
  BY OwnerHolds, Zenon DEF IInv
<1>c. MutualExclusion' => OwnerRight'
  BY OwnerHolds, PTL
<1>d. OwnerRight'
  BY <1>c, Zenon DEF IInv
<1>e. \A p \in Proc : Holding(p) => \A q \in Proc : Holding(q) <=> q = p
  BY Zenon DEF IInv, MutualExclusion
<1>f. "LOCKED" \notin locked => \A q \in Proc : ~Holding(q)
  BY Zenon DEF IInv, MutualExclusion
<1>g. \A f \in Members("C") : InWait(f)
  BY <1>a, MembersAsleep, Zenon DEF QInv, Asleep, Place
<1>h. ASSUME NEW p \in Proc, Others(p), Holding(p)' <=> Holding(p), SameMembers
      PROVE  UNCHANGED <<Owner, Waiters>>
  <2>1. \A q \in Proc : Holding(q)' <=> Holding(q)
    BY <1>h, Zenon DEF Others, Holding
  <2> QED BY <1>a, <1>b, <1>d, <1>h, <2>1, Stutters, Zenon
<1>i. ASSUME NEW p \in Proc, Others(p), "LOCKED" \notin locked, Holding(p)', SameMembers, ~InWait(p)
      PROVE  Abs!Next
  <2>1. (\A q \in Proc : ~Holding(q)) /\ \A q \in Proc : Holding(q)' <=> q = p
    BY <1>f, <1>i, Zenon DEF Others, Holding
  <2> QED BY <1>a, <1>b, <1>d, <1>g, <1>i, <2>1, Acquires, Zenon
<1>j. ASSUME NEW p \in Proc, Others(p), Holding(p), ~Holding(p)', SameMembers PROVE Abs!Next
  <2>1. (\A q \in Proc : ~Holding(q)') /\ \A q \in Proc : Holding(q) <=> q = p
    BY <1>e, <1>j DEF Others, Holding
  <2> QED BY <1>a, <1>b, <1>d, <1>j, <2>1, Releases, Zenon
<1>1. ASSUME NEW p \in Proc, Lock(p) \/ TryLock(p) PROVE Abs!Next \/ UNCHANGED <<Owner, Waiters>>
  <2>1. Others(p) /\ SameMembers /\ pc[p] \in {"idle", "lock"}
    BY <1>1, <1>a, Zenon DEF Lock, TryLock, Others, SameMembers
  <2>2. ~Holding(p) /\ ~InWait(p)
    BY <2>1, Zenon DEF Holding, InWait
  <2>3. ("LOCKED" \notin locked /\ Holding(p)') \/ ~Holding(p)'
    BY <1>1, <1>a, Zenon DEF Lock, TryLock, Holding
  <2> QED BY <1>h, <1>i, <2>1, <2>2, <2>3, Zenon
<1>2. ASSUME NEW p \in Proc, LoopAcquire(p) \/ LoopPark(p) PROVE Abs!Next \/ UNCHANGED <<Owner, Waiters>>
  <2> USE DEF LoopAcquire, LoopPark, CompareExchange
  <2>1. Others(p) /\ SameMembers /\ pc[p] = "loop"
    BY <1>2, <1>a, Zenon DEF Others, SameMembers
  <2>2. ~Holding(p) /\ ~InWait(p)
    BY <2>1, Zenon DEF Holding, InWait
  <2>3. ("LOCKED" \notin locked /\ Holding(p)') \/ ~Holding(p)'
    BY <1>2, <1>a, Zenon DEF Holding
  <2> QED BY <1>h, <1>i, <2>1, <2>2, <2>3, Zenon
<1>3. ASSUME NEW p \in Proc, Load(p) \/ LoopSpin(p) \/ NotifyOne(p) PROVE UNCHANGED <<Owner, Waiters>>
  <2>1. Others(p) /\ SameMembers
    BY <1>3, <1>a, Zenon DEF Load, LoopSpin, NotifyOne, Others, SameMembers
  <2>2. Holding(p)' <=> Holding(p)
    BY <1>3, <1>a, Zenon DEF Load, LoopSpin, NotifyOne, Holding
  <2> QED BY <1>h, <2>1, <2>2, Zenon
<1>4. ASSUME NEW f \in Fibers, LockPark(f) \/ Resume(f) PROVE UNCHANGED <<Owner, Waiters>>
  <2>1. Others(f) /\ SameMembers
    BY <1>4, <1>a DEF LockPark, Resume, Enqueue, Others, SameMembers
  <2>2. Holding(f)' <=> Holding(f)
    BY <1>4, <1>a, Zenon DEF LockPark, Resume, Holding
  <2> QED BY <1>a, <1>h, <2>1, <2>2, Zenon
<1>5. ASSUME NEW p \in Proc, Unlock(p) PROVE Abs!Next \/ UNCHANGED <<Owner, Waiters>>
  <2>1. Others(p) /\ SameMembers /\ Holding(p)
    BY <1>5, <1>a, Zenon DEF Unlock, Others, SameMembers, Holding
  <2> QED BY <1>h, <1>j, <2>1, Zenon
<1>6. ASSUME NEW p \in Proc, UnlockSlow(p) PROVE Abs!Next
  <2>1. Others(p) /\ SameMembers
    BY <1>6, <1>a, Zenon DEF UnlockSlow, Dequeue, Others, SameMembers
  <2>2. Holding(p) /\ ret[p] \in {"idle", "wait_parked"}
    BY <1>6, Zenon DEF UnlockSlow, Holding, IInv, Local, LocalAt
  <2>3. ~Holding(p)'
    BY <1>6, <1>a, <2>2, Zenon DEF UnlockSlow, Holding
  <2> QED BY <1>j, <2>1, <2>2, <2>3, Zenon
<1>7. ASSUME NEW p \in Proc, Unpause(p) PROVE UNCHANGED <<Owner, Waiters>>
  <2>1. Others(p) /\ SameMembers
    BY <1>7, <1>a, Zenon DEF Unpause, Others, SameMembers
  <2>2. Holding(p)' <=> Holding(p)
    BY <1>7, <1>a, Zenon DEF Unpause, Holding
  <2> QED BY <1>h, <2>1, <2>2, Zenon
<1>8. ASSUME NEW p \in Proc, NotifyOneSlow(p) PROVE Abs!Next \/ UNCHANGED <<Owner, Waiters>>
  <2>1. Others(p)
    BY <1>8, <1>a, Zenon DEF NotifyOneSlow, Dequeue, Others
  <2>2. pc[p] = "notify" /\ Holding(p) /\ Holding(p)'
    BY <1>8, <1>a, Zenon DEF NotifyOneSlow, Holding
  <2>3. CASE list["C"] = None
    <3>1. SameMembers
      BY <1>8, <2>3, Zenon DEF NotifyOneSlow, SameMembers
    <3> QED BY <1>h, <2>1, <2>2, <3>1, Zenon
  <2>4. CASE list["C"] # None
    <3>1. Dequeue(p, "C")
      BY <1>8, <2>4, Zenon DEF NotifyOneSlow
    <3>2. PICK h \in Fibers : h = list["C"].head
      BY <1>a, <2>4, ListTypes, Zenon
    <3>3. Members("C")' = Members("C") \ {h}
      BY <1>a, <2>4, <3>1, <3>2, DequeueList, Zenon DEF QInv
    <3>4. h \in Members("C") /\ ~InWait(p)
      BY <1>a, <2>2, <2>4, <3>2, ListTypes, ChainClosed, Zenon DEF Members, From, InWait
    <3>5. \A q \in Proc : (Holding(q)' <=> Holding(q)) /\ (Holding(q) <=> q = p)
      BY <1>e, <2>1, <2>2, Zenon DEF Others, Holding
    <3>6. h \in Waiters
      BY <1>a, <1>g, <3>4, <3>5, Zenon DEF Waiters
    <3>7. Members("C") \subseteq Proc
      BY <1>a, MembersFibers, Zenon
    <3>8. Waiters' = Waiters \ {h}
      BY <3>3, <3>5, <3>7, Zenon DEF Waiters
    <3>9. Owner = p /\ Owner' = p /\ p # None
      BY <1>b, <1>d, <2>2, ProcessAssumption, Zenon DEF OwnerRight, Proc
    <3>10. Abs!NotifyOne
      BY <3>6, <3>8, <3>9, Zenon DEF Abs!NotifyOne
    <3> QED BY <3>10, Zenon DEF Abs!Next
  <2> QED BY <2>3, <2>4, Zenon
<1>9. ASSUME NEW f \in Fibers, Wait(f) PROVE UNCHANGED <<Owner, Waiters>>
  <2>1. Others(f) /\ Enqueue("C", f)
    BY <1>9, <1>a, Zenon DEF Wait, Others
  <2>2. pc[f] = "held" /\ Holding(f) /\ Holding(f)' /\ ~InWait(f)
    BY <1>9, <1>a, Zenon DEF Wait, Holding, InWait
  <2>3. f \notin Asleep("C")
    BY <2>2, Zenon DEF Asleep, Place
  <2>4. Members("C")' = Members("C") \cup {f}
    BY <1>a, <2>1, <2>3, EnqueueList, Zenon DEF QInv
  <2>5. \A q \in Proc : Holding(q)' <=> Holding(q)
    BY <2>1, <2>2, Zenon DEF Others, Holding
  <2>6. Members("C") \subseteq Proc
    BY <1>a, MembersFibers, Zenon
  <2>7. Waiters' = Waiters
    BY <1>a, <2>2, <2>4, <2>5, <2>6, Zenon DEF Waiters
  <2>8. Owner' = Owner
    BY <1>a, <1>b, <1>d, <2>2 DEF OwnerRight
  <2> QED BY <2>7, <2>8, Zenon
<1>10. ASSUME NEW p \in Proc, NotifyAll(p) \/ NotifyAllSlow(p) \/ UnparkAllTake(p)
                              \/ UnparkAllUnpause(p) \/ UnparkAllFollow(p)
       PROVE  FALSE
  <2>1. pc[p] \notin AllLabel
    BY Zenon DEF QInv, NotifiesOne
  <2> QED BY <1>10, <2>1, Zenon DEF AllLabel, NotifyAll, NotifyAllSlow, UnparkAllTake, UnparkAllUnpause, UnparkAllFollow
<1> QED BY Steps, <1>1, <1>2, <1>3, <1>4, <1>5, <1>6, <1>7, <1>8, <1>9, <1>10, <1>a, Zenon

\* Without notify_all the mutex and the condition variable implement a monitor,
\* for any number of fibers and threads: every step is one of the monitor's, or
\* changes neither owner nor waiters.
THEOREM MonitorImplemented ==
  ASSUME ~UseNotifyAll
  PROVE  Spec => ImplementsMonitor
<1>1. Init => Abs!Init
  <2> SUFFICES ASSUME Init PROVE Abs!Init
    BY Zenon
  <2>1. \A p \in Proc : ~Holding(p)
    BY Zenon DEF Init, Holding
  <2>2. Members("C") = {}
    BY Zenon DEF Init, Members, Key
  <2> QED BY <2>1, <2>2, Zenon DEF Abs!Init, Owner, Waiters
<1>2. IInv /\ IInv' /\ QInv /\ QInv' /\ [Next]_vars => [Abs!Next]_(Abs!vars)
  <2> SUFFICES ASSUME IInv, IInv', QInv, QInv', [Next]_vars
               PROVE  Abs!Next \/ UNCHANGED <<Owner, Waiters>>
    BY Zenon DEF Abs!vars
  <2>1. CASE UNCHANGED vars
    BY <2>1, Zenon DEF vars, Owner, Waiters, Holding, Members, From
  <2> QED BY <2>1, MonitorStep, Zenon
<1> QED BY <1>1, <1>2, Invariance, QueueInvariance, PTL DEF Spec, ImplementsMonitor, Abs!Spec

=============================================================================
