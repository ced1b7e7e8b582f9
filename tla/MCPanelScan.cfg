SPECIFICATION PanelScanSpec
CONSTANTS
  Repo = {a, b}
  None = None
  MaxGeneration = 3
  MaxVisits = 2
  PollAttempts = 1
  File = {f, g}
  Content = {c}
  Absent = absent
  Found = found
  Analyzer = {shape, symbols}
  MaxChanges = 1
INVARIANTS PanelIsCurrent OneReading SnapshotsSurround
PROPERTIES FinalStays PanelSettles ScanEnds
CHECK_DEADLOCK FALSE
