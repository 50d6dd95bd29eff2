SPECIFICATION Spec
CONSTANTS
  Nodes = {1, 2, 5}
  Sink = 2
  Flows <- ToOther
  HopCount = 2
  QueueLength = 1
  Large = TRUE
  HostMod = 8
  CounterMod = 3
  MaxCount = 3
  MaxPackets = 2
  MaxRadio = 1
CHECK_DEADLOCK FALSE
PROPERTIES
  AllDisjointSent
