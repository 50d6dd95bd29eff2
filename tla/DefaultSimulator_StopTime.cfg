\* What simulator.h says of Stop(delay), refuted: an event scheduled earlier for
\* the stop time itself runs.
SPECIFICATION Spec
CONSTANTS
  Main = main
  Workers = {w1}
  NoThread = nobody
  Delays = {0, 1}
  UidMod = 64
  MaxEvents = 3
PROPERTIES
  NothingAtStopTime
CHECK_DEADLOCK FALSE
