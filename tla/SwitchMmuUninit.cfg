\* One port feeds another; the memory of the pause flags has been used before.
SPECIFICATION Spec
CONSTANTS
  PortCnt = 2
  Route <- OneRoute
  Class = {1, 3}
  QCnt = 1
  Size = {1, 2}
  MTU = 1
  MaxBufferBytes = 8
  HdrmLimit <- TwoPorts
  IngressAlphaInv = 2
  EgressAlpha = 1
  AlphaOffDiff = 0
  Uninit = {FALSE, TRUE}
  MaxQueued = 6
INVARIANTS ResumeFollowsPause
