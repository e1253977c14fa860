------------------------------- MODULE Clint --------------------------------
(***************************************************************************)
(* The core-local interruptor (src/lib/io/src/hw/intc/clint.rs): the       *)
(* software-interrupt register of a hart, which every hart may write, and  *)
(* its timer register, with the timer tasks that earlier writes left       *)
(* behind.  No lock is held: in threaded mode the harts and the event loop *)
(* interleave at every access; in lockstep mode they share a thread.       *)
(***************************************************************************)
EXTENDS Naturals

CONSTANTS Harts,    \* the harts that write; the registers are those of one
          MaxTime   \* bound: how far the clock advances

ASSUME TimeAssumption == MaxTime \in Nat

VARIABLES threaded,
          now,       \* ctx.now()
          msip, msip_pin,
          mtimecmp, mtip_pin,
          timers,    \* the times the spawned timer tasks wait for
          fired,     \* the level a timer task has computed and not set: no, low, high
          writer,    \* what each hart is in the middle of: [at, value, level]
          msip_stale, mtip_stale  \* history: the level set last was overtaken

clintVars == <<threaded, now, msip, msip_pin, mtimecmp, mtip_pin, timers, fired,
               writer, msip_stale, mtip_stale>>

Never == MaxTime + 1  \* u64::MAX
Idle == [at |-> "idle", value |-> 0, level |-> FALSE]

ClintInit ==
    /\ threaded \in BOOLEAN /\ now = 0
    /\ msip = FALSE /\ msip_pin = FALSE
    /\ mtimecmp = Never /\ mtip_pin = FALSE
    /\ timers = {} /\ fired = "no"
    /\ writer = [h \in Harts |-> Idle]
    /\ msip_stale = FALSE /\ mtip_stale = FALSE

\* In lockstep mode a hart's write, or a timer task, runs to its end.
Settled == threaded \/ (fired = "no" /\ \A h \in Harts : writer[h] = Idle)
Alone(h) == threaded \/ (fired = "no"
                         /\ \A k \in Harts \ {h} : writer[k] = Idle)

Writing(h, at, v, l) ==
    writer' = [writer EXCEPT ![h] = [at |-> at, value |-> v, level |-> l]]

Tick == /\ now < MaxTime /\ Settled
        /\ now' = now + 1
        /\ UNCHANGED <<threaded, msip, msip_pin, mtimecmp, mtip_pin, timers,
                       fired, writer, msip_stale, mtip_stale>>

\* A write to msip: the store ...
StoreMsip(h, v) ==
    /\ writer[h] = Idle /\ Alone(h)
    /\ msip' = v
    /\ Writing(h, "msip", 0, v)
    /\ UNCHANGED <<threaded, now, msip_pin, mtimecmp, mtip_pin, timers, fired,
                   msip_stale, mtip_stale>>

\* ... and set_level.
LevelMsip(h) ==
    /\ writer[h].at = "msip" /\ Alone(h)
    /\ msip_pin' = writer[h].level
    /\ msip_stale' = (msip # writer[h].level)
    /\ Writing(h, "idle", 0, FALSE)
    /\ UNCHANGED <<threaded, now, msip, mtimecmp, mtip_pin, timers, fired,
                   mtip_stale>>

\* A write to mtimecmp, by the hart itself or, through the bus, another: the store ...
StoreCmp(h, v) ==
    /\ writer[h] = Idle /\ Alone(h)
    /\ mtimecmp' = v
    /\ Writing(h, "compare", v, FALSE)
    /\ UNCHANGED <<threaded, now, msip, msip_pin, mtip_pin, timers, fired,
                   msip_stale, mtip_stale>>

\* ... the comparison with the time ...
CompareCmp(h) ==
    /\ writer[h].at = "compare" /\ Alone(h)
    /\ Writing(h, "level", writer[h].value, writer[h].value <= now)
    /\ UNCHANGED <<threaded, now, msip, msip_pin, mtimecmp, mtip_pin, timers,
                   fired, msip_stale, mtip_stale>>

\* ... set_level(triggered) ...
LevelCmp(h) ==
    /\ writer[h].at = "level" /\ Alone(h)
    /\ mtip_pin' = writer[h].level
    /\ mtip_stale' = (mtimecmp # writer[h].value)
    /\ IF writer[h].level
       THEN Writing(h, "idle", 0, FALSE)
       ELSE Writing(h, "spawn", writer[h].value, FALSE)
    /\ UNCHANGED <<threaded, now, msip, msip_pin, mtimecmp, timers, fired,
                   msip_stale>>

\* Mutant: a timer that is running already is thought to be enough.
spawn_timer_once(v) == timers' = IF timers = {} THEN {v} ELSE timers

spawn_timer(v) == timers' = timers \cup {v}

\* ... and, if it is not due, a timer; the older ones stay.
SpawnTimer(h) ==
    /\ writer[h].at = "spawn" /\ Alone(h)
    /\ spawn_timer(writer[h].value)
    /\ Writing(h, "idle", 0, FALSE)
    /\ UNCHANGED <<threaded, now, msip, msip_pin, mtimecmp, mtip_pin, fired,
                   msip_stale, mtip_stale>>

\* A timer task resumes: whichever write spawned it, it compares the register.
TimerFires(t) ==
    /\ t \in timers /\ t <= now /\ fired = "no" /\ Settled
    /\ timers' = timers \ {t}
    /\ fired' = IF mtimecmp <= now THEN "high" ELSE "low"
    /\ UNCHANGED <<threaded, now, msip, msip_pin, mtimecmp, mtip_pin, writer,
                   msip_stale, mtip_stale>>

TimerLevel ==
    /\ fired # "no"
    /\ mtip_pin' = (fired = "high")
    /\ mtip_stale' = ((fired = "high") # (mtimecmp <= now))
    /\ fired' = "no"
    /\ UNCHANGED <<threaded, now, msip, msip_pin, mtimecmp, timers, writer,
                   msip_stale>>

ClintNext ==
    \/ Tick
    \/ \E h \in Harts :
         \/ \E v \in BOOLEAN : StoreMsip(h, v)
         \/ LevelMsip(h)
         \/ \E v \in 0..Never : StoreCmp(h, v)
         \/ CompareCmp(h) \/ LevelCmp(h) \/ SpawnTimer(h)
    \/ \E t \in timers : TimerFires(t)
    \/ TimerLevel

ClintSpec == ClintInit /\ [][ClintNext]_clintVars

-----------------------------------------------------------------------------
\* When no write is under way and no timer is due, the pins are what the
\* registers say: the timer's is high exactly if the clock has reached mtimecmp,
\* whatever timers of earlier writes are still around.  In threaded mode, and
\* only there, the level set last can be one that another thread's write has
\* overtaken (write and the timer task hold no lock); the next level set in time
\* puts the pin right again.
LevelsRight ==
    /\ \A h \in Harts : writer[h] = Idle
    /\ fired = "no"
    /\ \A t \in timers : t > now
    => /\ (threaded /\ mtip_stale) \/ (mtip_pin <=> mtimecmp <= now)
       /\ (threaded /\ msip_stale) \/ (msip_pin <=> msip)

=============================================================================
