\* One peer, a pause twice as long as the way to it, and a pool that its class may
\* exhaust only with what is on its way when it is paused.
SPECIFICATION LinkFairSpec
CONSTANTS
  PortCnt = 2
  Route <- OneRoute
  Class = {3}
  QCnt = 1
  Size = {1}
  MTU = 1
  MaxBufferBytes = 18
  HdrmLimit <- Headroom
  IngressAlphaInv = 16
  EgressAlpha = 2
  AlphaOffDiff = 0
  Uninit = {FALSE}
  MaxQueued = 19
  Delay = 2
  PauseTime = 5
INVARIANTS LinkTypeOK PeerPaused HeadroomSuffices PoolWithinHeadroom
PROPERTIES PauseEnds
