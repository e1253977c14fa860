SPECIFICATION FairSpec
CONSTANTS
  Tasks = {t1, t2}
  Callers = {c1}
  Modes = {TRUE, FALSE}
  Switching = FALSE
  PerMicro = 2
  MaxDue = 2
  MaxMicros = 5
  MaxCycle = 6
  Never = 99
INVARIANT SleepBounded
PROPERTIES
  EventsOnTime
  TimersResolve
\* Both clocks are bounded: when they end and nothing is queued, nothing happens.
CHECK_DEADLOCK FALSE
