CONSTANTS
  v1 = v1
  v2 = v2
  Device = {v1, v2}
  MayBreak = {v1}
  MaxAccepts <- AllOrMore
  MaxConn = 3
  MaxBroken = 1
  MaxSent <- OneEach
SPECIFICATION FairSpec
CHECK_DEADLOCK FALSE
PROPERTIES
  ReconnectedIsHeard
