CONSTANTS
  Servers = {s1}
  Commands = {c1}
  MaxFlights = 4
SPECIFICATION Spec
INVARIANTS RowsAccounted
PROPERTIES OptOutHolds ShutdownEnds
CHECK_DEADLOCK FALSE
