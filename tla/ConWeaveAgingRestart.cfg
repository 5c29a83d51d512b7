\* As ConWeaveLive.cfg, for longer and without losses; the source ToR's entry may be
\* erased while the destination ToR's is not.
SPECIFICATION Spec
CONSTANTS
  p1 = p1
  p2 = p2
  p3 = p3
  Path = {p1, p2}
  NoPath = NoPath
  SlotOf <- OwnSlots
  MinDelay <- FixedDelay
  MaxDelay <- FixedDelay
  WorstDelay = 3
  CtlMinDelay = 1
  CtlMaxDelay = 1
  CW_MAX_TIME = 1000
  BaseRTT = 2
  ExtraReplyDeadline = 0
  ExtraVOQFlushTime = 1
  TxExpiryTime = 3
  DefaultVOQWaitingTime = 2
  PathPauseTime = 3
  AgingTime = 7
  EcnMarks = {FALSE}
  AgingOffsets <- AnyPhase
  MaxPkts = 5
  MaxLoss = 0
  LastSend = 26
  StopTime = 26
INVARIANTS PrevEpochIsPast
