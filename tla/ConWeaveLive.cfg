\* The network drops, the hosts may stop at any point.  Aging is as frequent as
\* MaxVoqWait allows, the two ToRs' timers are out of phase: either may erase its
\* entry while a flow pauses.
SPECIFICATION FairSpec
CONSTANTS
  p1 = p1
  p2 = p2
  p3 = p3
  Path = {p1, p2}
  NoPath = NoPath
  SlotOf <- OwnSlots
  MinDelay <- FixedDelay
  MaxDelay <- FixedDelay
  WorstDelay = 3
  CtlMinDelay = 1
  CtlMaxDelay = 1
  CW_MAX_TIME = 1000
  BaseRTT = 2
  ExtraReplyDeadline = 0
  ExtraVOQFlushTime = 1
  TxExpiryTime = 3
  DefaultVOQWaitingTime = 2
  PathPauseTime = 3
  AgingTime = 7
  EcnMarks = {FALSE}
  AgingOffsets <- OutOfPhase
  MaxPkts = 4
  MaxLoss = 1
  LastSend = 19
  StopTime = 24
INVARIANTS ReorderingIffVoq VoqWaitBounded AssertionsHold
PROPERTIES EventuallyDelivered RerouteSettles
