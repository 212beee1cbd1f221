SPECIFICATION Spec
CONSTANTS
  Order <- TwoFiles
  Versions <- MCVersions
  ChunksOf <- ShrunkChunksOf
  Absent = Absent
  NoRev = NoRev
  NoRow = NoRow
  NoVector = NoVector
  NoMeta = NoMeta
  Configs <- OneModel
  Modes = {"normal"}
  StartTrees <- BothFiles
  Edits <- Revert
  HasOrphanCleanup = TRUE
  HasExistingHashes = TRUE
  ChunkConcurrency = 2
  MaxPendingFiles = 1
  MinEmbedBatch = 2
  MinUploadBatch = 2
  MassDeletion = 2
  MaxEdits = 2
  MaxSwitches = 0
  MaxFaults = 0
INVARIANTS Searchable
