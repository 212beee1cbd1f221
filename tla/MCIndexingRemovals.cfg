SPECIFICATION Spec
CONSTANTS
  Paths = {"a", "b"}
  Key <- BarePaths
  Versions <- MCVersions
  ChunksOf <- MCChunksOf
  Absent = Absent
  NoRev = NoRev
  NoRow = NoRow
  StartTrees <- BothFiles
  Indexed = FALSE
  Modes = {"normal"}
  Removable = {"a", "b"}
  EditDuring = FALSE
  MaxEdits = 3
  MaxFaults = 0
  MaxLosses = 2
INVARIANTS CleanRunComplete NoOrphans
