SPECIFICATION Spec
CONSTANTS
  Main = main
  Workers = {w1}
  NoThread = nobody
  Delays = {0, 1}
  UidMod = 64
  MaxEvents = 3
INVARIANTS
  TypeOK
  ExpiryIsExact
  RevokedNeverRuns
  NothingLost
  DestroyEventsRun
  SameTimeFifo
  HandedOverInTime
PROPERTIES
  EventsRunInOrder
CHECK_DEADLOCK FALSE
