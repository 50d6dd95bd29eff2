\* A message under way while all ranks are out of events is lost.
SPECIFICATION Spec
CONSTANTS
  a = a
  b = b
  c = c
  Rank <- Line
  Links <- LineLinks
  InitialTimes <- LineTimes
  MaxUid <- LineUids
  Infinity = 6
  MaximumLookAhead = 6
  Delays = {0}
  MaxMessages = 2
CHECK_DEADLOCK FALSE
INVARIANTS
  NoMessageLost
