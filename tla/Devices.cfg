SPECIFICATION Spec
CONSTANTS
  Irqs = {1, 2}
  Ctxs = {0, 1}
  MaxPrio = 1
  Num = 2
  Wrap = 4
  MaxGen = 1
  Irq = 1
  Harts = {0, 1}
  MaxTime = 2
CHECK_DEADLOCK FALSE
INVARIANTS
  ServicedOnce
  PinsRight
  RingsAgree
  NoLostNotify
  Announced
  LevelsRight
