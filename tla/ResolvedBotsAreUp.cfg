\* One deployment whose bot crashes while the cockpit is up.
CONSTANTS
  d1 = d1
  d2 = d2
  Deployment = {d1}
  MaxRuns = 2
  MaxPort = 1
  MaxEdits = 0
  MaxRestarts = 0
  Overlap = FALSE
  CockpitAlone = FALSE
  ProbeFails = FALSE
SPECIFICATION Spec
INVARIANT ResolvedBotsAreUp
CHECK_DEADLOCK FALSE
