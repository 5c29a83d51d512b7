\* IRN without a window of its own, as run.py configures it; packets are reordered.
\* The system stops when the queue pair has been torn down.
CHECK_DEADLOCK FALSE
SPECIFICATION Spec
CONSTANTS
  WqeEnd <- OneThenTwo
  Irn = {TRUE}
  Persistent = {FALSE}
  QbbEnabled = FALSE
  Win = 0
  Bdp = 2
  AckInterval = 1
  Chunk = 4
  Ecn = {FALSE}
  MaxData = 3
  MaxAcks = 2
  MaxLoss = 0
INVARIANTS WithinBdp
