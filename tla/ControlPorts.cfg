\* A web request and the command line start two deployments at the same time.
CONSTANTS
  d1 = d1
  d2 = d2
  Deployment = {d1, d2}
  MaxRuns = 2
  MaxPort = 1
  MaxEdits = 0
  MaxRestarts = 0
  Overlap = FALSE
  CockpitAlone = FALSE
  ProbeFails = FALSE
SPECIFICATION Spec
INVARIANT ControlPortsAreFree
CHECK_DEADLOCK FALSE
