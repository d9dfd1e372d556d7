\* One deployment, whose bot is spawned up to three times, and one restart of the
\* cockpit with its container.
CONSTANTS
  d1 = d1
  d2 = d2
  Deployment = {d1}
  MaxRuns = 3
  MaxPort = 1
  MaxEdits = 1
  MaxRestarts = 1
  Overlap = FALSE
  CockpitAlone = FALSE
  ProbeFails = FALSE
SPECIFICATION FairSpec
INVARIANTS
  TypeOK
  NoDuplicateBots
  NoOrphans
  RunningRowsAreComplete
  StaleBotsAreFlagged
PROPERTIES
  IntentIsHonoured
\* with the bounds reached and the cockpit up, nothing has to happen
CHECK_DEADLOCK FALSE
