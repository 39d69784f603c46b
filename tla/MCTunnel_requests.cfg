SPECIFICATION FairSpec
CONSTANTS
  Streams = {s1}
  Cap = 2
  Window = 3
  MaxBody = 4
  MaxQuiet = 2
  NoFrame = NoFrame
INVARIANTS TunnelInv OkIsComplete
PROPERTIES ReadLoopGoesOn RequestsEnd
CHECK_DEADLOCK FALSE
