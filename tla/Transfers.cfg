CONSTANTS
  d1 = d1
  d2 = d2
  d3 = d3
  Data = {d1, d2, d3}
  NoData = NoData
  Size <- Sizes
  MaxStops = 2
  MaxRead = 2
SPECIFICATION FairSpec
CHECK_DEADLOCK FALSE
CONSTRAINT
  InOrder
INVARIANTS
  TypeOK
  DataIntact
  StacksMirror
  CounterRight
  
PROPERTIES
  DeliveredOrStopped
