SPECIFICATION Spec
CONSTANTS
  Handlers = {h1, h2}
  TimeoutMonitors = {m}
  MaxIterations = 3
  MaxPods = 1
  MaxRequests = 2
  MaxFaults = 1
SYMMETRY Symmetry
INVARIANTS LoopInv CompletedIsVerified PromptsFollowFailures
PROPERTIES VerdictsAreNotLost TerminalIsFinal
CHECK_DEADLOCK FALSE
