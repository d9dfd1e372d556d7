\* An event of any kind that is delivered up to twice, a mail that is delivered once, a store of
\* one nonce that lasts until the next tick, and one crash of the bot or of the container.
CONSTANTS
  e1 = e1
  e2 = e2
  Event = {e1, e2}
  Kinds <- MCKinds
  MaxAttempts <- MCAttempts
  Window = 0
  MaxNonces = 1
  MaxTime = 1
  MaxCrashes = 1
  Slow = TRUE
  Impatient = TRUE
  CanFail = TRUE
SPECIFICATION FairSpec
INVARIANTS
  TypeOK
  RepeatsAreExcused
PROPERTIES
  DeliverySpec
\* when all events are settled, nothing has to happen
CHECK_DEADLOCK FALSE
