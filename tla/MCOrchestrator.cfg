SPECIFICATION FairSpec
CONSTANTS
  Order <- TwoFiles
  Versions <- MCVersions
  ChunksOf <- MCChunksOf
  Absent = Absent
  NoRev = NoRev
  NoRow = NoRow
  NoVector = NoVector
  NoMeta = NoMeta
  Configs <- TwoModels
  Modes = {"normal", "no_upload", "dry_run"}
  StartTrees <- BothFiles
  Edits <- Forward
  HasOrphanCleanup = TRUE
  HasExistingHashes = TRUE
  ChunkConcurrency = 2
  MaxPendingFiles = 1
  MinEmbedBatch = 2
  MinUploadBatch = 2
  MassDeletion = 2
  MaxEdits = 3
  MaxSwitches = 1
  MaxFaults = 1
INVARIANTS BackPressure Searchable NoStaleRows
PROPERTIES RunEnds
