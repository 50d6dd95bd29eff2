SPECIFICATION FairSpec
CONSTANTS
  a = a
  b = b
  c = c
  Rank <- Line
  Links <- LineLinks
  InitialTimes <- LineTimes
  MaxUid <- LineUids
  Infinity = 6
  MaximumLookAhead = 6
  Delays = {0}
  MaxMessages = 2
CHECK_DEADLOCK FALSE
INVARIANTS
  TypeOK
  NoEventFromThePast
  LeaveTogether
  InStep
PROPERTIES
  TimeIsMonotone
  Termination
  ImplementsProcesses
