SPECIFICATION Spec
CONSTANTS
  Paths = {"a", "b"}
  Key <- BarePaths
  Versions <- MCVersions
  ChunksOf <- MCChunksOf
  Absent = Absent
  NoRev = NoRev
  NoRow = NoRow
  StartTrees <- OneFile
  Indexed = FALSE
  Modes = {"normal"}
  Removable = {}
  EditDuring = FALSE
  MaxEdits = 0
  MaxFaults = 1
  MaxLosses = 0
INVARIANTS SkippedComplete
