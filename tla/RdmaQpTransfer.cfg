\* Both protocols and both kinds of queue pair; one drop, any reordering, ECN marks.
\* The system stops when the queue pair has been torn down.
CHECK_DEADLOCK FALSE
SPECIFICATION FairSpec
CONSTANTS
  WqeEnd <- OneThenTwo
  Irn = {FALSE, TRUE}
  Persistent = {FALSE, TRUE}
  QbbEnabled = FALSE
  Win = 3
  Bdp = 3
  AckInterval = 1
  Chunk = 4
  Ecn = {FALSE, TRUE}
  MaxData = 2
  MaxAcks = 2
  MaxLoss = 1
INVARIANTS TypeOK NoHoleAcknowledged UnaNeverSacked SackBeyondHole SendPointerWithinWqes
           NeverStuck NoTimerAfterTeardown SackListExact
PROPERTIES ReliableDelivery EventuallyComplete
