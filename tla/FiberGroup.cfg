SPECIFICATION FairSpec
CONSTANTS
  N = 4
  MaxSleep = 2
  Returns = {0, 1, 2, 3}
INVARIANT RingRight
PROPERTIES
  NoStarvation
  TakesTurns
\* A group that has run all its fibers to completion stops.
CHECK_DEADLOCK FALSE
