SPECIFICATION Spec
CONSTANTS
  None = None
  Fibers = {f1}
  Threads = {t1, t2}
  SpinLimit = 1
  UseNotifyAll = TRUE
PROPERTY ImplementsMonitor
