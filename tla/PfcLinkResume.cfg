\* One peer; a RESUME may wait for a packet in transmission.
SPECIFICATION LinkSpec
CONSTANTS
  PortCnt = 2
  Route <- OneRoute
  Class = {3}
  QCnt = 1
  Size = {1}
  MTU = 1
  MaxBufferBytes = 14
  HdrmLimit <- Headroom
  IngressAlphaInv = 16
  EgressAlpha = 1
  AlphaOffDiff = 0
  Uninit = {FALSE}
  MaxQueued = 15
  Delay = 1
  PauseTime = 4
INVARIANTS ResumeFindsPaused
