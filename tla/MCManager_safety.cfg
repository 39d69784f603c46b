SPECIFICATION Spec
CONSTANTS
  Pods = {a, b}
  Pubs = {1, 2, 3}
  Subs = {s1, s2, s3}
  MaxSubs = 1
  MaxCloses = 1
  None = None
SYMMETRY Symmetry
INVARIANTS ManagerInv NoConnectionLeaks OpenChannelIsFound
CHECK_DEADLOCK FALSE
