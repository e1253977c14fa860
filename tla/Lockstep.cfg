SPECIFICATION LSpec
CONSTANTS
  N = 4
  MaxSleep = 2
  Returns = {}
INVARIANTS
  CycleExact
  ClockNeverBlocks
