SPECIFICATION Spec
CONSTANTS
  Subs = {s1, s2}
  Nobody = Nobody
  Forwarder = Forwarder
  Duration = 2
  MaxTime = 4
  MaxRequests = 2
SYMMETRY Symmetry
INVARIANTS LeaseHasTimer NoLeaseAfterStop LeaseInv LeaseIdPrivate
PROPERTIES LeaseTakenOnlyWhenDue ImplementsSingleWriter
CHECK_DEADLOCK FALSE
