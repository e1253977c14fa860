SPECIFICATION Spec
CONSTANTS
  Tasks = {t1}
  Callers = {c1, c2}
  Modes = {TRUE, FALSE}
  Switching = TRUE
  PerMicro = 2
  MaxDue = 1
  MaxMicros = 2
  MaxCycle = 4
  Never = 99
INVARIANT LockstepCyclesExact
CHECK_DEADLOCK FALSE
