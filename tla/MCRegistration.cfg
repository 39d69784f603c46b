SPECIFICATION FairSpec
CONSTANTS
  Requests = {r1, r2}
  StaleAfter = 3
  TTL = 2
  MaxFaults = 2
INVARIANTS RegistrationInv
PROPERTIES UpIsKnown GoneIsForgotten
