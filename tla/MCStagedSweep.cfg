SPECIFICATION StagedSpec
CONSTANTS
  Contents <- SweepContents
  Chars <- MCChars
  SpaceModels = {"m1"}
  StoreNames = {"s1"}
  MaxItems = 2
  MaxChars = 4
  MinIngestion = 2
  UploadBatch = 2
  MaxChanges = 1
  MaxJobs = 3
  MaxLosses = 0
INVARIANTS SweptClean
CHECK_DEADLOCK FALSE
