\* A web request and the command line start the same deployment at the same time.
CONSTANTS
  d1 = d1
  d2 = d2
  Deployment = {d1}
  MaxRuns = 2
  MaxPort = 1
  MaxEdits = 0
  MaxRestarts = 0
  Overlap = TRUE
  CockpitAlone = FALSE
  ProbeFails = FALSE
SPECIFICATION Spec
INVARIANT NoDuplicateBots
CHECK_DEADLOCK FALSE
