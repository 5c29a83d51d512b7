\* The time-outs do not suit the network: a packet may be in flight longer than
\* the flowlet gap, and the VOQ may give up before the TAIL comes.  One loss.
SPECIFICATION Spec
CONSTANTS
  p1 = p1
  p2 = p2
  p3 = p3
  Path = {p1, p2}
  NoPath = NoPath
  SlotOf <- OwnSlots
  MinDelay <- FixedDelay
  MaxDelay <- LongMax
  WorstDelay = 7
  CtlMinDelay = 1
  CtlMaxDelay = 2
  CW_MAX_TIME = 1000
  BaseRTT = 2
  ExtraReplyDeadline = 1
  ExtraVOQFlushTime = 3
  TxExpiryTime = 3
  DefaultVOQWaitingTime = 4
  PathPauseTime = 3
  AgingTime = 100
  EcnMarks = {FALSE}
  AgingOffsets <- NoAging
  MaxPkts = 5
  MaxLoss = 1
  LastSend = 16
  StopTime = 16
INVARIANTS TypeOK AssertionsHold ExactlyOnce PrevEpochIsPast
