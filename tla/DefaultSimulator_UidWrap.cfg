\* The width of m_uid made small enough to wrap within the bound.
SPECIFICATION Spec
CONSTANTS
  Main = main
  Workers = {w1}
  NoThread = nobody
  Delays = {0, 1}
  UidMod = 6
  MaxEvents = 3
INVARIANTS
  SameTimeFifo
CHECK_DEADLOCK FALSE
