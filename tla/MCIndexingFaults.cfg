SPECIFICATION FairSpec
CONSTANTS
  Paths = {"a", "b"}
  Key <- BarePaths
  Versions <- MCVersions
  ChunksOf <- MCChunksOf
  Absent = Absent
  NoRev = NoRev
  NoRow = NoRow
  StartTrees <- OneFile
  Indexed = TRUE
  Modes = {"normal", "force", "watch", "watch_event"}
  Removable = {}
  EditDuring = FALSE
  MaxEdits = 3
  MaxFaults = 2
  MaxLosses = 0
INVARIANTS RecordedStored CleanRunComplete
PROPERTIES Converges
