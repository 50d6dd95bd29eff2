SPECIFICATION Spec
CONSTANTS
  Rank = {0, 1}
  Links <- TwoLinks
  Infinity = 20
  NullDelay <- WholeDelay
  InitialTime <- LateStart
  Stop = 7
  StopTime <- AllStop
  Delays = {1}
  TxTimes = {1, 2}
  Work = 2
  MaxWork <- FirstWorks
INVARIANTS
  GuaranteeKept
CHECK_DEADLOCK FALSE
