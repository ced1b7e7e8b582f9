SPECIFICATION Spec
CONSTANTS
  r1 = r1
  r2 = r2
  r3 = r3
  r4 = r4
  None = None
  Requests = {r1, r2}
  Keys = {k1}
  Repos = {x}
  Commits = {c1}
  Workers = 1
  QueueCapacity = 1
  Disconnects = FALSE
  MaxCrashes = 0
INVARIANTS SingleFlight
