SPECIFICATION Spec
CONSTANTS
  p1 = p1
  p2 = p2
  Pods = {p1, p2}
  MaxConcurrent = 1
  MaxPerRunner = 2
  Cancellable = {}
  MaxLosses = 0
  MaxCrashes = 1
INVARIANTS QueueInv
PROPERTY SendsInOrder
CHECK_DEADLOCK FALSE
