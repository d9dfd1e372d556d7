\* Two turns at once, each an inbound mail of a person or of a no-reply address or an
\* instruction of the operator, with up to two rounds of one tool call each.
CONSTANTS
  t1 = t1
  t2 = t2
  alice = alice
  robot = robot
  Turn = {t1, t2}
  Address = {alice, robot}
  NoReply = {robot}
  Text <- MCText
  MaxToolRounds = 2
  MaxCalls = 1
  MaxHistory = 3
SPECIFICATION FairSpec
INVARIANTS
  TypeOK
  NoDoubleSend
  RecordedMailWasSent
  ConversationsAreSeparate
  AnswersFollowQuestions
PROPERTIES
  TurnsEnd
\* the instance stops when all its turns are done
CHECK_DEADLOCK FALSE
