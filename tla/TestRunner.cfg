SPECIFICATION FairSpec
CONSTANTS
  Worker = {w1, w2}
  NJobs = 3
  Skipped = {2}
  Examples = {3}
  ExitCodes = {0, 1, 2, 127}
  Signals = {11}
INVARIANTS
  TypeOK
  InOnePlace
  NoTestLeft
  NoOneWaitsInVain
  StatusIsTrue
PROPERTIES
  Ends
CHECK_DEADLOCK FALSE
