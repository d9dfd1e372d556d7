\* One mail, a healthy bot and a patient provider; only the turn takes more than 30 seconds.
CONSTANTS
  e1 = e1
  e2 = e2
  Event = {e1}
  Kinds <- MCMail
  MaxAttempts <- MCTwice
  Window = 0
  MaxNonces = 1
  MaxTime = 0
  MaxCrashes = 0
  Slow = TRUE
  Impatient = FALSE
  CanFail = FALSE
SPECIFICATION Spec
INVARIANTS
  AnsweredOnce
CHECK_DEADLOCK FALSE
