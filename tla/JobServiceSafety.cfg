SPECIFICATION Spec
CONSTANTS
  r1 = r1
  r2 = r2
  r3 = r3
  r4 = r4
  None = None
  Requests = {r1, r2, r3}
  Keys = {k1, k2}
  Repos = {x}
  Commits = {c1, c2}
  Workers = 1
  QueueCapacity = 1
  Disconnects = TRUE
  MaxCrashes = 1
SYMMETRY Interchangeable
INVARIANTS ResourcesAccounted ActiveSound AnswersPollable NothingMixed
PROPERTIES LifecycleImplemented
