CONSTANTS
  d1 = d1
  d2 = d2
  d3 = d3
  Data = {d1, d2, d3}
  NoData = NoData
  Size <- Sizes
  MaxStops = 2
  MaxRead = 1
SPECIFICATION Spec
CHECK_DEADLOCK FALSE
INVARIANTS
  MarkerWhenInterrupting
