CONSTANTS
  Session = {s1, s2}
  Enough = 1
  MaxSec = 3
  MaxLink = 3
SPECIFICATION FairSpec
CHECK_DEADLOCK FALSE
INVARIANTS
  TypeOK
  ConnectFirst
  TestedTotal
PROPERTIES
  StopHonoured
