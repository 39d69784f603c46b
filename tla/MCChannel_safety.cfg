SPECIFICATION Spec
CONSTANTS
  Conns = {c1, c2}
  Subs = {s1, s2}
  Closer = Closer
  NoConn = NoConn
  Free = Free
  MaxSubs = 0
SYMMETRY Symmetry
INVARIANTS ChannelInv CloseLeavesNothing SubscribersKnowOutage
PROPERTY TimeoutSparesPublisher
CHECK_DEADLOCK FALSE
