SPECIFICATION FairSpec
CONSTANTS
  Actors = {a1}
  Irqs = {1, 7}
  Firmware = TRUE
  MaxStops = 1
INVARIANT NothingOverlooked
PROPERTIES
  InterruptTaken
  TasksRun
  StopObeyed
