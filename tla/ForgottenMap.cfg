CONSTANTS
  d1 = d1
  d2 = d2
  d3 = d3
  d4 = d4
  v1 = v1
  v2 = v2
  Data = {d1, d2, d3}
  Device = {v1, v2}
  NoData = NoData
  DeviceOf <- TwoAndTwo
  Pri <- Distinct
  SClass <- Classes
  Decoded <- SmallIDs
  CommRate <- Narrow
  InitPrev <- Zero
  MaxRates = 0
  MayStop = FALSE
  MayMiss = FALSE
SPECIFICATION FairSpec
CHECK_DEADLOCK FALSE
PROPERTIES
  SuspendedDelivered
