CONSTANTS
  d1 = d1
  d2 = d2
  d3 = d3
  d4 = d4
  v1 = v1
  v2 = v2
  Data = {d1, d2, d3, d4}
  Device = {v1, v2}
  NoData = NoData
  DeviceOf <- TwoAndTwo
  Pri <- Nested
  SClass <- Classes
  Decoded <- SmallIDs
  CommRate <- Rates
  InitPrev <- LeastUrgent
  MaxRates = 0
  MayStop = FALSE
  MayMiss = TRUE
SPECIFICATION Spec
CHECK_DEADLOCK FALSE
INVARIANTS
  TypeOK
  PeekMatchesPop
  HeldOnce
  RegisteredIffUnderWay
  OnePriorityAtATime
  PermitAfterPri
  SuspendForMoreUrgent
  WaitsForSomething
PROPERTIES
  Delivery
