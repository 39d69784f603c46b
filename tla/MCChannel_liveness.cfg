SPECIFICATION FairSpec
CONSTANTS
  Conns = {c1, c2}
  Subs = {s1}
  Closer = Closer
  NoConn = NoConn
  Free = Free
  MaxSubs = 0
CHECK_DEADLOCK FALSE
PROPERTIES CallsReturn OutageEnds UnusedIsReported
