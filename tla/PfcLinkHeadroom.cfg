\* Two peers share the pool, so that one of them may start to send when the other has
\* exhausted it.
SPECIFICATION LinkSpec
CONSTANTS
  PortCnt = 3
  Route <- TwoRoutes
  Class = {3}
  QCnt = 1
  Size = {1}
  MTU = 1
  MaxBufferBytes = 17
  HdrmLimit <- Headroom
  IngressAlphaInv = 16
  EgressAlpha = 1
  AlphaOffDiff = 0
  Uninit = {FALSE}
  MaxQueued = 18
  Delay = 1
  PauseTime = 4
INVARIANTS HeadroomSuffices
