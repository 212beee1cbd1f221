SPECIFICATION Spec
CONSTANTS
  Picks = {"a"}
  Slots = 2
  MaxVersion = 2
  Skills = {"s1", "s2"}
  MaxContent = 3
  MaxBlocks = 3
  Hooks = {"h1", "h2"}
  Chunks = {"c1", "c2"}
  Text <- MCText
  Paths = {"p1", "p2", "p3"}
  Blobs = {"b1", "b2"}
  Uncovered = {"p3"}
  GloballyIgnored = {}
  GitIgnored = {"p2"}
  MaxGitSteps = 2
  MaxGitFailures = 1
  Lists <- MCLists
  MaxNumber = 3
  Bars <- MCBars
  MaxCount = 1
  MaxLogs = 2
  MaxLeft = 2
  Wraps = {{"model"}, {"throughput"}}
INVARIANTS ConfigSound UpdateReachesTheCopyInUse InstalledParts ContextGiven ScanFaithful TerminalSound
PROPERTIES UserTextKept
CHECK_DEADLOCK FALSE
