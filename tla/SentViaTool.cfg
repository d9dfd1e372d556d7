\* One turn of the inbox of one person.
CONSTANTS
  t1 = t1
  t2 = t2
  alice = alice
  robot = robot
  Turn = {t1}
  Address = {alice, robot}
  NoReply = {robot}
  Text <- MCText
  MaxToolRounds = 2
  MaxCalls = 1
  MaxHistory = 3
SPECIFICATION Spec
INVARIANTS
  SentViaToolMeansDelivered
CHECK_DEADLOCK FALSE
