SPECIFICATION Spec
CONSTANTS
  p1 = p1
  p2 = p2
  Pods = {p1}
  MaxConcurrent = 1
  MaxPerRunner = 1
  Cancellable = {p1}
  MaxLosses = 0
  MaxCrashes = 0
PROPERTY CancelClosesDispatch
CHECK_DEADLOCK FALSE
