SPECIFICATION Spec
CONSTANTS
  Calls = {r1, r2, r3}
  NoRows = NoRows
  MaxTimeouts = 3
  MaxSpawns = 2
  Roots = {"p1", "p2", "p3"}
  MAX_PROJECTS = 2
  Requests = {q1, q2}
  Pushes = {u1, u2}
  Pages = {g1, g2}
  MaxSockets = 2
  MaxOps = 2
INVARIANTS WaitersAreOwed ProjectsAsAsked OperationAccounted
PROPERTIES ImplementsService EverySearchReturns DashboardCatchesUp
CHECK_DEADLOCK FALSE
