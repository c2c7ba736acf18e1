SPECIFICATION FairSpec
CONSTANTS
  c1 = c1  c2 = c2  h1 = h1
  Calls = {c1, c2}
  Conns = {h1}
CHECK_DEADLOCK FALSE
INVARIANTS ServerTypeOK CallsEndBeforeExit StopsWithoutPanic
PROPERTIES SignalStops
