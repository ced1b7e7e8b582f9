SPECIFICATION FairSpec
CONSTANTS
  r1 = r1
  r2 = r2
  r3 = r3
  r4 = r4
  None = None
  Requests = {r1, r2, r3}
  Keys = {k1}
  Repos = {x}
  Commits = {c1}
  Workers = 1
  QueueCapacity = 1
  Disconnects = TRUE
  MaxCrashes = 0
PROPERTIES EveryJobEnds EveryPostAnswered
