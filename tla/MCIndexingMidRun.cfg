SPECIFICATION Spec
CONSTANTS
  Paths = {"a", "b"}
  Key <- BarePaths
  Versions <- MCVersions
  ChunksOf <- MCChunksOf
  Absent = Absent
  NoRev = NoRev
  NoRow = NoRow
  StartTrees <- BothFiles
  Indexed = TRUE
  Modes = {"normal", "force"}
  Removable = {"a", "b"}
  EditDuring = TRUE
  MaxEdits = 1
  MaxFaults = 1
  MaxLosses = 0
INVARIANTS CleanRunComplete
