SPECIFICATION FairSpec
CONSTANTS
  None = None
  Fibers = {f1, f2, f3}
  Threads = {t1}
  SpinLimit = 1
  UseNotifyAll = FALSE
INVARIANTS
  SyncSafe
  FreeMutexHasTaker
  NoneForgotten
PROPERTIES
  ParkedIsWoken
  ImplementsMonitor
