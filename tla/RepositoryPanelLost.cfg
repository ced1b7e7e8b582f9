SPECIFICATION Spec
CONSTANTS
  Repo = {a}
  None = None
  MaxGeneration = 3
  MaxVisits = 1
  PollAttempts = 1
PROPERTY
  ReconcileShowsPanel
CHECK_DEADLOCK FALSE
