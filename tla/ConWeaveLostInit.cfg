\* A path is congested: its delay exceeds the flowlet gap.  The VOQ waits less
\* than the gap, and one packet is dropped.
SPECIFICATION Spec
CONSTANTS
  p1 = p1
  p2 = p2
  p3 = p3
  Path = {p1, p2, p3}
  NoPath = NoPath
  SlotOf <- OneSlot
  MinDelay <- LateMin
  MaxDelay <- LateMax
  WorstDelay = 11
  CtlMinDelay = 1
  CtlMaxDelay = 1
  CW_MAX_TIME = 1000
  BaseRTT = 2
  ExtraReplyDeadline = 0
  ExtraVOQFlushTime = 2
  TxExpiryTime = 6
  DefaultVOQWaitingTime = 3
  PathPauseTime = 3
  AgingTime = 100
  EcnMarks = {FALSE}
  AgingOffsets <- NoAging
  MaxPkts = 6
  MaxLoss = 1
  LastSend = 20
  StopTime = 21
SYMMETRY FastPaths
INVARIANTS AssertionsHold
