SPECIFICATION FairSpec
CONSTANTS
  Tunnels = {t1, t2}
  Requests = {r1, r2, r3}
  None = None
  MaxConcurrent = 1
  MaxQueue = 1
INVARIANTS GateInv RegistryIsTrue
PROPERTIES RequestsAreAnswered
