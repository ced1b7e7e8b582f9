SPECIFICATION CallsSpec
CONSTANTS
  OutputLimit = 3
  PipeSize = 2
  MaxOutput = 7
  RequestRoom = 1
  BlockRoom = 2
  MaxFiles = 3
  MaxBlocks = 2
  WarmupRuns = 0
  MeasuredRuns = 3
  TimeLimit = 1
  LongestRun = 1
  MaxProduced = 1
  r1 = r1
  r2 = r2
  x = x
  y = y
  Entry <- Entries
  MaxLength = 4
  EntryLimit = 3
  FileLimit = 2
  ExpandedLimit = 3
  RatioLimit = 2
  CompressedLimit = 2
  Sizes = {0, 1, 2, 3}
  c1 = c1
  c2 = c2
  Claim = {c1, c2}
  Observation = {"o1", "o2"}
  CounterMax = 3
  Elapsed = {0, 1, 3}
  Reported <- Vectors
  Update <- Updates
  Decision <- Decisions
  Prior <- Priors
  Budget <- Budgets
  MaxPrograms = 3
INVARIANTS
  ChildVerdictSound
  BlobsAreTheFiles
  AttestationsHonest
  WithinLimit
  ExtractionSound
  AdmittedWithinBudget
  LedgerBalances
  BeliefsAccounted
  StopReasonTrue
PROPERTIES
  WorkerEnds
  BlobsEnd
  BenchEnds
