\* A restart of the cockpit alone, which leaves a live bot, and a status call that fails.
CONSTANTS
  d1 = d1
  d2 = d2
  Deployment = {d1}
  MaxRuns = 2
  MaxPort = 1
  MaxEdits = 0
  MaxRestarts = 1
  Overlap = FALSE
  CockpitAlone = TRUE
  ProbeFails = TRUE
SPECIFICATION Spec
PROPERTY LiveBotsAreLeftAlone
CHECK_DEADLOCK FALSE
