\* One cached conversation at most, so that touching the other one evicts it.
CONSTANTS
  c1 = c1
  c2 = c2
  Conversation = {c1, c2}
  MaxConversations = 1
  MaxTouches = 2
  CanFail = TRUE
SPECIFICATION FairSpec
INVARIANTS
  TypeOK
  StaleFilesAreDirty
  DirtyHasFlushTask
  ExitIsDurable
PROPERTIES
  WritesAreCurrent
  ChangesReachDisk
\* with every change made and everything written, only a crash is left
CHECK_DEADLOCK FALSE
