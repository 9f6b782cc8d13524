CONSTANTS
  Sizes = {2, 5}
  Priorities = {1, 2}
  Buffersize = 9
  MaxEvents = 3
SPECIFICATION FairSpec
CHECK_DEADLOCK FALSE
INVARIANTS
  TypeOK
  CompletedOnce
  SentWithPriority
PROPERTIES
  EvictedLeastUrgent
  RoomMade
  PermitAnswered
  PermittedLeaves
