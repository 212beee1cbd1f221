SPECIFICATION Spec
CONSTANTS
  Counts <- MCCounts
  TotalSet = {0, 200, 1000}
  Watermarks <- MCWatermarks
  Headroom = 2
  Docs <- MCDocs
  LikePairs <- MCLikePairs
  BATCH = 2
  PAGE = 2
  MaxSerial = 3
  Metas = {"m1", "m2"}
  Variants <- MCVariants
  Baseline = "v1"
  MaxEdits = 1
  MaxKills = 1
  SampleSize = 6
  Totals = {0, 2, 5, 9}
  Dims = {6, 384}
  KEEP = 1
  MaxFlaws <- MCMaxFlaws
  MaxQualityRuns = 2
  MaxQualityKills = 1
  Nodes <- MCNodes
  MaxNodes = 4
  MAX = 3
  MIN = 2
  Overlaps = {0, 5}
  Callers = {"a", "b"}
  CallTexts <- MCCallTexts
  CallModels = {"m1", "m2"}
  KeyOf <- MCKeyOf
  Alike <- MCAlike
  MaxEntries = 1
  Width = 3
  DimensionsGiven = {1, 2}
  DefaultDimensions = 2
  MaxRetries = 1
  MaxErrors = 2
  MaxRestarts = 1
  Contents <- MCContents
  Chars <- MCChars
  SpaceModels = {"m1", "m2"}
  StoreNames = {"s1", "s2"}
  MaxItems = 2
  MaxChars = 2
  MinIngestion = 3
  UploadBatch = 2
  MaxChanges = 2
  MaxJobs = 4
  MaxLosses = 1
INVARIANTS ContentsAsAsked AnswersSound EmbeddersSound
           ReportSound AssessmentSound WindowsWellFormed
PROPERTIES FollowsMemory NoWorkLost StagedSound
CHECK_DEADLOCK FALSE
