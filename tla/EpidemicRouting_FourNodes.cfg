SPECIFICATION Spec
CONSTANTS
  Nodes = {1, 2, 3, 4}
  Sink = 3
  Flows <- ToThird
  HopCount = 2
  QueueLength = 1
  Large = FALSE
  HostMod = 8
  CounterMod = 3
  MaxCount = 1
  MaxPackets = 1
  MaxRadio = 2
CHECK_DEADLOCK FALSE
INVARIANTS
  FloodLimit
  DuplicateOnlyAfterDrop
