SPECIFICATION Spec
CONSTANTS
  None = None
  Fibers = {f1, f2, f3}
  Threads = {t1}
  SpinLimit = 0
  UseNotifyAll = TRUE
INVARIANTS
  NoneForgotten
