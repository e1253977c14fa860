----------------------------- MODULE EventLoop -----------------------------
(***************************************************************************)
(* The event loop (src/emu/event.rs): a heap of timed events, the loop     *)
(* that runs their handlers, the timer futures that tasks wait for, and    *)
(* shutdown, which may come from any thread.  In threaded mode the clock   *)
(* is the host's and the loop blocks on a condition variable; in lockstep  *)
(* mode the loop counts cycles itself in event_loop_wait (event.s).  After *)
(* a shutdown main restarts the loop, in the same mode or the other one.   *)
(*                                                                         *)
(* The mutex of the heap is held from the test of the shutdown flag to the *)
(* first handler or the wait, here while pc is "handle"; every other       *)
(* critical section is one step.  Each task awaits one timer and then      *)
(* ends, as the tasks that the CLINT spawns do.                            *)
(***************************************************************************)
EXTENDS Integers

CONSTANTS Tasks,      \* futures that may be spawned
          Callers,    \* threads that may call shutdown, once each
          Modes,      \* the values that FLAGS.thread takes
          Switching,  \* whether the guest asks main to change the mode
          PerMicro,   \* cycles per microsecond (100 in the code)
          MaxDue,     \* bound: the latest time, in microseconds, of a timer
          MaxMicros,  \* bound: how far the host clock advances
          MaxCycle,   \* bound: how far the lockstep clock advances
          Never       \* u64::max_value()

ASSUME ModesAssumption == Modes \subseteq BOOLEAN /\ Switching \in BOOLEAN
ASSUME BoundsAssumption ==
  /\ PerMicro \in Nat \ {0} /\ MaxDue \in Nat
  /\ MaxMicros \in Nat /\ MaxCycle \in Nat /\ Never \in Nat

VARIABLES
  threaded,             \* FLAGS.thread
  micros,               \* the host clock, in microseconds
  epoch,                \* EventLoop.epoch, on the host clock
  cycle,                \* EventLoop.cycle
  lockstep_cycle_base,  \* EventLoop.lockstep_cycle_base
  next_event,           \* EventLoop.next_event
  events,               \* EventLoop.events
  shutdown,             \* EventLoop.shutdown
  pc,                   \* where the loop is, see Place
  now,                  \* the local `cycle` of event_loop
  deadline,             \* when the wait_for in progress ends, on the host clock
  entry,                \* the event whose handler runs
  due,                  \* the time each task waits for, in microseconds; 0 before spawn
  timer,                \* Timer.1 and the end of each task, see TimerState
  call,                 \* how far each caller is in shutdown
  ticks                 \* history: cycles counted in lockstep mode

clock == <<threaded, micros, epoch, cycle, lockstep_cycle_base, ticks>>
vars == <<clock, next_event, events, shutdown, pc, now, deadline, entry, due,
          timer, call>>

(***************************************************************************)
(* start: about to lock the heap at the top of the loop;  handle: holding  *)
(* the lock;  handler: in a handler;  relock: after a handler;  wait: in   *)
(* condvar.wait or wait_for;  sleep: in event_loop_wait;  exited: returned *)
(***************************************************************************)
Place == {"start", "handle", "handler", "relock", "wait", "sleep", "exited"}

TimerState == {"unarmed", "armed", "done"}

Event(time, does, id) == [time |-> time, does |-> does, id |-> id]

NoEvent == Event(0, "nothing", 0)

NoDeadline == -1

Init ==
  /\ threaded \in Modes
  /\ micros = 0 /\ epoch = 0
  /\ cycle = 0 /\ lockstep_cycle_base = 0 /\ ticks = 0
  /\ next_event = Never
  /\ events = {}
  /\ shutdown = FALSE
  /\ pc = "start" /\ now = 0 /\ deadline = NoDeadline /\ entry = NoEvent
  /\ due = [t \in Tasks |-> 0]
  /\ timer = [t \in Tasks |-> "unarmed"]
  /\ call = [c \in Callers |-> "idle"]

\* EventLoop::cycle()
Cycle == IF threaded THEN (micros - epoch) * PerMicro ELSE cycle

\* The time of the entry BinaryHeap::peek returns.
First(S) == CHOOSE n \in {e.time : e \in S} : \A e \in S : n <= e.time

-----------------------------------------------------------------------------
(* queue *)

Unlocked == pc # "handle"

\* Mutant: next_event is left to the loop.
PushSilent(e) ==
  /\ events' = events \cup {e}
  /\ UNCHANGED next_event

\* queue, but for the notification.
Push(e) ==
  /\ events' = events \cup {e}
  /\ next_event' = IF threaded THEN next_event ELSE First(events')

\* Wake the loop up if the event just queued is the next one.
WakeLoop(e) ==
  IF pc = "wait" /\ First(events') = e.time
  THEN pc' = "start" /\ deadline' = NoDeadline
  ELSE UNCHANGED <<pc, deadline>>

\* spawn a task that awaits on_time(d).  Bound: not at the end of the clock.
Spawn(t, d) ==
  /\ Unlocked
  /\ due[t] = 0 /\ cycle < MaxCycle
  /\ due' = [due EXCEPT ![t] = d]
  /\ Push(Event(0, "poll", t)) /\ WakeLoop(Event(0, "poll", t))
  /\ UNCHANGED <<clock, shutdown, now, entry, timer, call>>

-----------------------------------------------------------------------------
(* event_loop *)

\* The top of the loop.
Top ==
  /\ pc = "start"
  /\ IF shutdown
     THEN pc' = "exited" /\ shutdown' = FALSE /\ UNCHANGED now
     ELSE pc' = "handle" /\ now' = Cycle /\ UNCHANGED shutdown
  /\ UNCHANGED <<clock, next_event, events, deadline, entry, due, timer, call>>

\* handle_events: take the first event that is due.
HandleEvents(e) ==
  /\ pc \in {"handle", "relock"}
  /\ e.time = First(events) /\ e.time <= now
  /\ events' = events \ {e}
  /\ entry' = e
  /\ pc' = "handler"
  /\ UNCHANGED <<clock, next_event, shutdown, now, deadline, due, timer, call>>

\* Mutant: the time of the event is taken for the time until the event.
WaitAbsolute ==
  /\ threaded
  /\ pc \in {"handle", "relock"}
  /\ \A e \in events : e.time > now
  /\ pc' = "wait"
  /\ deadline' = IF events = {} THEN NoDeadline ELSE micros + First(events)
  /\ entry' = NoEvent
  /\ UNCHANGED <<clock, next_event, events, shutdown, now, due, timer, call>>

\* Nothing is due: wait on the condition variable.  The difference in cycles is
\* passed to wait_for as a number of microseconds.
Wait ==
  /\ threaded
  /\ pc \in {"handle", "relock"}
  /\ \A e \in events : e.time > now
  /\ pc' = "wait"
  /\ deadline' = IF events = {} THEN NoDeadline ELSE micros + (First(events) - now)
  /\ entry' = NoEvent
  /\ UNCHANGED <<clock, next_event, events, shutdown, now, due, timer, call>>

\* Nothing is due: enter event_loop_wait.
Sleep ==
  /\ ~threaded
  /\ pc \in {"handle", "relock"}
  /\ \A e \in events : e.time > now
  /\ next_event' = IF events = {} THEN Never ELSE First(events)
  /\ pc' = "sleep"
  /\ entry' = NoEvent
  /\ UNCHANGED <<clock, events, shutdown, now, deadline, due, timer, call>>

\* wait_for times out.  Bound: the end of the host clock ends every timed wait.
Timeout ==
  /\ pc = "wait" /\ deadline # NoDeadline
  /\ micros >= deadline \/ micros = MaxMicros
  /\ pc' = "start" /\ deadline' = NoDeadline
  /\ UNCHANGED <<clock, next_event, events, shutdown, now, entry, due, timer, call>>

\* One turn of event_loop_wait.
CycleTick ==
  /\ pc = "sleep" /\ cycle < MaxCycle
  /\ cycle' = cycle + 1 /\ ticks' = ticks + 1
  /\ pc' = IF cycle' >= next_event THEN "start" ELSE pc
  /\ UNCHANGED <<threaded, micros, epoch, lockstep_cycle_base, next_event, events,
                 shutdown, now, deadline, entry, due, timer, call>>

-----------------------------------------------------------------------------
(* Handlers *)

\* The no-op of shutdown.
RunNoop ==
  /\ pc = "handler" /\ entry.does = "noop"
  /\ pc' = "relock"
  /\ UNCHANGED <<clock, next_event, events, shutdown, now, deadline, entry, due,
                 timer, call>>

\* Mutant: the timer is not ready at the very cycle it waits for.
RunPollStrict ==
  LET t == entry.id
      wake == Event(due[t] * PerMicro, "wake", t)
  IN
  /\ pc = "handler" /\ entry.does = "poll"
  /\ pc' = "relock"
  /\ \/ /\ Cycle > wake.time
        /\ timer' = [timer EXCEPT ![t] = "done"]
        /\ UNCHANGED <<events, next_event>>
     \/ /\ Cycle <= wake.time /\ timer[t] = "unarmed"
        /\ timer' = [timer EXCEPT ![t] = "armed"]
        /\ Push(wake)
     \/ /\ Cycle <= wake.time /\ timer[t] # "unarmed"
        /\ UNCHANGED <<timer, events, next_event>>
  /\ UNCHANGED <<clock, shutdown, now, deadline, entry, due, call>>

\* The handler of Task::wake: poll the task, which polls its Timer.
RunPoll ==
  LET t == entry.id
      wake == Event(due[t] * PerMicro, "wake", t)
  IN
  /\ pc = "handler" /\ entry.does = "poll"
  /\ pc' = "relock"
  /\ \/ /\ Cycle >= wake.time
        /\ timer' = [timer EXCEPT ![t] = "done"]
        /\ UNCHANGED <<events, next_event>>
     \/ /\ Cycle < wake.time /\ timer[t] = "unarmed"
        /\ timer' = [timer EXCEPT ![t] = "armed"]
        /\ Push(wake)
     \/ /\ Cycle < wake.time /\ timer[t] # "unarmed"
        /\ UNCHANGED <<timer, events, next_event>>
  /\ UNCHANGED <<clock, shutdown, now, deadline, entry, due, call>>

\* The handler that Timer::poll queued: wake the task.
RunWake ==
  /\ pc = "handler" /\ entry.does = "wake"
  /\ pc' = "relock"
  /\ Push(Event(0, "poll", entry.id))
  /\ UNCHANGED <<clock, shutdown, now, deadline, entry, due, timer, call>>

-----------------------------------------------------------------------------
(* shutdown and restart *)

CeilDiv(a, b) == (a + b - 1) \div b

\* Mutant: the base is not moved along with the counter.
SyncNoBase(c) ==
  /\ Unlocked
  /\ call[c] = "idle" /\ call' = [call EXCEPT ![c] = "flag"]
  /\ IF threaded
     THEN cycle' = Cycle /\ UNCHANGED <<epoch, lockstep_cycle_base>>
     ELSE epoch' = micros - CeilDiv(cycle, PerMicro) /\ UNCHANGED <<cycle, lockstep_cycle_base>>
  /\ UNCHANGED <<threaded, micros, ticks, next_event, events, shutdown, pc, now,
                 deadline, entry, due, timer>>

\* shutdown: carry the time over to the other mode's counter ...
Sync(c) ==
  /\ Unlocked
  /\ call[c] = "idle" /\ call' = [call EXCEPT ![c] = "flag"]
  /\ IF threaded
     THEN /\ cycle' = Cycle
          /\ lockstep_cycle_base' = Cycle - (cycle - lockstep_cycle_base)
          /\ UNCHANGED epoch
     ELSE /\ epoch' = micros - CeilDiv(cycle, PerMicro)
          /\ UNCHANGED <<cycle, lockstep_cycle_base>>
  /\ UNCHANGED <<threaded, micros, ticks, next_event, events, shutdown, pc, now,
                 deadline, entry, due, timer>>

\* ... set the flag, without the lock ...
SetFlag(c) ==
  /\ call[c] = "flag" /\ call' = [call EXCEPT ![c] = "queue"]
  /\ shutdown' = TRUE
  /\ UNCHANGED <<clock, next_event, events, pc, now, deadline, entry, due, timer>>

\* ... and queue a no-op.
QueueNoop(c) ==
  /\ Unlocked
  /\ call[c] = "queue" /\ call' = [call EXCEPT ![c] = "done"]
  /\ Push(Event(0, "noop", c)) /\ WakeLoop(Event(0, "noop", c))
  /\ UNCHANGED <<clock, shutdown, now, entry, due, timer>>

(***************************************************************************)
(* main runs the loop again, after it may have changed the mode.  It does  *)
(* so once the harts have returned too, and they return for a caller whose *)
(* EventLoop::shutdown is over (main.rs, shutdown).                        *)
(***************************************************************************)
Restart(c) ==
  /\ pc = "exited"
  /\ call[c] = "done" /\ call' = [call EXCEPT ![c] = "served"]
  /\ pc' = "start"
  /\ threaded' \in IF Switching THEN Modes ELSE {threaded}
  /\ UNCHANGED <<micros, epoch, cycle, lockstep_cycle_base, ticks, next_event, events,
                 shutdown, now, deadline, entry, due, timer>>

\* The host clock.
MicroTick ==
  /\ micros < MaxMicros
  /\ micros' = micros + 1
  /\ UNCHANGED <<threaded, epoch, cycle, lockstep_cycle_base, ticks, next_event, events,
                 shutdown, pc, now, deadline, entry, due, timer, call>>

-----------------------------------------------------------------------------

Loop ==
  \/ Top \/ (\E e \in events : HandleEvents(e)) \/ Wait \/ Sleep \/ Timeout \/ CycleTick
  \/ RunNoop \/ RunPoll \/ RunWake \/ (\E c \in Callers : Restart(c))

Caller(c) == Sync(c) \/ SetFlag(c) \/ QueueNoop(c)

Next ==
  \/ Loop
  \/ \E t \in Tasks, d \in 1 .. MaxDue : Spawn(t, d)
  \/ \E c \in Callers : Caller(c)
  \/ MicroTick

Spec == Init /\ [][Next]_vars

(***************************************************************************)
(* The thread of the loop keeps running (in lockstep mode it shares the    *)
(* thread with the harts, and module FiberGroup shows that it gets its     *)
(* turns), a shutdown that has begun is carried out, and time passes.      *)
(***************************************************************************)
FairSpec ==
  /\ Spec
  /\ WF_vars(Loop) /\ WF_vars(MicroTick)
  /\ \A c \in Callers : WF_vars(SetFlag(c)) /\ WF_vars(QueueNoop(c))

-----------------------------------------------------------------------------

EventSet ==
  [time : Nat, does : {"poll", "wake"}, id : Tasks]
    \cup [time : {0}, does : {"noop"}, id : Callers]

TypeOK ==
  /\ threaded \in BOOLEAN
  /\ micros \in Nat /\ epoch \in Int
  /\ cycle \in Nat /\ lockstep_cycle_base \in Int /\ ticks \in Nat
  /\ next_event \in Nat
  /\ events \subseteq EventSet
  /\ shutdown \in BOOLEAN
  /\ pc \in Place
  /\ now \in Nat /\ deadline \in Nat \cup {NoDeadline}
  /\ entry \in EventSet \cup {NoEvent}
  /\ due \in [Tasks -> 0 .. MaxDue]
  /\ timer \in [Tasks -> TimerState]
  /\ call \in [Callers -> {"idle", "flag", "queue", "done", "served"}]

(***************************************************************************)
(* get_lockstep_cycles (cycle minus base) is the number of cycles that     *)
(* were counted in lockstep mode, however often the mode changed and       *)
(* however many shutdowns overlapped; the harts' cycle counters rely on it.*)
(***************************************************************************)
LockstepCyclesExact == cycle - lockstep_cycle_base = ticks

(***************************************************************************)
(* While the loop is in event_loop_wait, next_event is no later than any   *)
(* event in the heap: whichever thread queued it, and whatever handlers    *)
(* queued before the loop went to sleep, no event is slept over.           *)
(***************************************************************************)
NextEventCovers == pc = "sleep" => \A e \in events : next_event <= e.time

(***************************************************************************)
(* In lockstep mode events are on time: when a cycle has been counted and  *)
(* the loop stays in event_loop_wait, no event in the heap is due.         *)
(***************************************************************************)
EventsOnTime ==
  [][cycle' = cycle + 1 /\ pc = "sleep" /\ pc' = "sleep" => \A e \in events' : e.time > cycle']_vars

(***************************************************************************)
(* In threaded mode the loop blocks only if nothing was due when it last   *)
(* read the clock, and then no event of the heap, whenever it was queued,  *)
(* is more than a bounded wait away: what is left of the wait is at most   *)
(* as many microseconds as the event was cycles ahead of that reading.     *)
(* This is PerMicro times as long as the event is away, no better bound    *)
(* holds (WaitFitsEvent), but an event queued between the last pop and the *)
(* wait, or during the wait, cannot be missed.                             *)
(***************************************************************************)
WaitBounded ==
  pc = "wait" =>
    \A e \in events :
      e.time > now /\ deadline # NoDeadline /\ deadline - micros <= e.time - now

(***************************************************************************)
(* How long the loop sleeps is bounded by every event of the heap, in      *)
(* lockstep mode to the cycle, in threaded mode as WaitBounded says.       *)
(***************************************************************************)
SleepBounded == NextEventCovers /\ WaitBounded

(***************************************************************************)
(* "we pretend to be operating at 100MHz at the moment" (event.rs:175):    *)
(* the loop blocks for the microseconds that hold the cycles to the event. *)
(***************************************************************************)
WaitFitsEvent ==
  pc = "wait" =>
    \A e \in events : deadline - micros <= CeilDiv(e.time - now, PerMicro)

(***************************************************************************)
(* A task that awaits a timer gets past it: the two hand-overs between the *)
(* timer's event and the task's poll lose no wake-up.                      *)
(***************************************************************************)
TimersResolve == \A t \in Tasks : due[t] # 0 ~> timer[t] = "done"

(***************************************************************************)
(* "Stop this event loop." (event.rs:81): once shutdown has set the flag   *)
(* the loop returns, which is when it clears the flag.                     *)
(***************************************************************************)
StopsWhenAsked == shutdown ~> ~shutdown
=============================================================================
