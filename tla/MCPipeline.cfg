SPECIFICATION FairSpec
CONSTANTS
  NItems = 4
  Path <- MCPath
  Key <- MCKey
  Chunks <- MCChunks
  Rev <- MCRev
  NoRev = NoRev
  Ids = {"w", "x", "y"}
  NoRow = NoRow
  Starts <- MCStarts
  ConfigWorkers = 2
  Strategy <- MCStrategy
  Memory = {0, 4}
  CapPerWorker = 1
  MicroBatch = 2
  LowMicroBatch = 1
  UploadBatchSize = 2
  SkipUpload = FALSE
  Panicky = {1, 2}
INVARIANTS TypeOK ProcessedStored FailedNotRecorded EveryFileCountedOnce
PROPERTIES EventuallyQuiet
