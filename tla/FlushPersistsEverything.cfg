\* No failing file system and no eviction: changes only race with a running writer.
CONSTANTS
  c1 = c1
  c2 = c2
  Conversation = {c1, c2}
  MaxConversations = 2
  MaxTouches = 2
  CanFail = FALSE
SPECIFICATION Spec
INVARIANT FlushPersistsEverything
CHECK_DEADLOCK FALSE
