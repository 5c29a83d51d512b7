\* The time-outs suit the network: jitter < ExtraVOQFlushTime, the flowlet gap
\* is as long as any delay plus any VOQ wait.  One packet may be
\* dropped, any may be marked.
SPECIFICATION Spec
CONSTANTS
  p1 = p1
  p2 = p2
  p3 = p3
  Path = {p1, p2}
  NoPath = NoPath
  SlotOf <- OwnSlots
  MinDelay <- FastSlowMin
  MaxDelay <- FastSlowMax
  WorstDelay = 4
  CtlMinDelay = 1
  CtlMaxDelay = 2
  CW_MAX_TIME = 1000
  BaseRTT = 2
  ExtraReplyDeadline = 1
  ExtraVOQFlushTime = 3
  TxExpiryTime = 11
  DefaultVOQWaitingTime = 2
  PathPauseTime = 3
  AgingTime = 100
  EcnMarks = {FALSE, TRUE}
  AgingOffsets <- NoAging
  MaxPkts = 5
  MaxLoss = 1
  LastSend = 20
  StopTime = 20
INVARIANTS SettledOnOnePath NoEpochWhileReordering
PROPERTIES OrderedDelivery
