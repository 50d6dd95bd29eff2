SPECIFICATION FairSpec
CONSTANTS
  Rank = {0, 1, 2}
  Links <- LineLinks
  Infinity = 20
  NullDelay <- WholeDelay
  InitialTime <- EarlyStart
  Stop = 3
  StopTime <- AllStop
  Delays = {1}
  TxTimes = {1, 2}
  Work = 1
  MaxWork <- FirstWorks
INVARIANTS
  TypeOK
  GuaranteeKept
  Causality
  NeverTakenBack
  Heartbeat
  NoDeadlock
PROPERTIES
  ImplementsProcesses
  GuaranteesGrow
  Termination
CHECK_DEADLOCK FALSE
