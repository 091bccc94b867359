CONSTANTS
  None = None
  Conversations <- Chats
  MaxReplies = 1
  MaxSends = 1
  MaxLoads = 2
  MaxFaults = 1
SPECIFICATION Spec
INVARIANTS
  ChatTypeOK
  NoDuplicates
  OptimisticOnlyWhileSending
  RealtimeFollowsWindow
  NothingMissed
PROPERTIES
  SendsEnd
CHECK_DEADLOCK FALSE
