\* Two ports and two classes feed a third port; the classes are charged to ingress
\* pools of their own and to one egress pool.  Packets are smaller and larger than
\* the guarantees; three of them exhaust a pool and a class's headroom.
SPECIFICATION Spec
CONSTANTS
  PortCnt = 3
  Route <- TwoRoutes
  Class = {1, 3}
  QCnt = 1
  Size = {1, 2}
  MTU = 1
  MaxBufferBytes = 8
  HdrmLimit <- ThreePorts
  IngressAlphaInv = 1
  EgressAlpha = 1
  AlphaOffDiff = 0
  Uninit = {FALSE}
  MaxQueued = 3
INVARIANTS TypeOK EgressQueueCharged HeadroomWithinClass ExcessIsHeadroom
           IngressCharged EgressSums ResumeFollowsPause
PROPERTIES HeadroomPauses
