SPECIFICATION FairSpec
CONSTANTS
  p1 = p1
  p2 = p2
  Pods = {p1}
  MaxConcurrent = 1
  MaxPerRunner = 1
  Cancellable = {p1}
  MaxLosses = 1
  MaxCrashes = 0
PROPERTIES ExpirySparesSent BacklogMoves ExpiredPodEnds SlotsReturn
CHECK_DEADLOCK FALSE
