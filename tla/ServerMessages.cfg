CONSTANTS
  d1 = d1
  d2 = d2
  d3 = d3
  d4 = d4
  v1 = v1
  v2 = v2
  Data = {d1, d2, d3}
  Device = {v1, v2}
  NoData = NoData
  DeviceOf <- TwoAndTwo
  Pri <- Nested
  SClass <- Classes
  Decoded <- OneWideID
  CommRate <- Narrow
  InitPrev <- Zero
  MaxRates = 1
  MayStop = TRUE
  MayMiss = TRUE
SPECIFICATION Spec
CHECK_DEADLOCK FALSE
INVARIANTS
  PeekMatchesPop
  HeldOnce
