SPECIFICATION FairSpec
CONSTANTS
  w1 = w1
  w2 = w2
  c1 = c1
  s1 = s1
  s2 = s2
  s3 = s3
  NULL = NULL
  Workers = {w1}
  Clients = {}
  Sessions = {s1, s2, s3}
  Preexisting = {s1, s2, s3}
  ExchangeId <- LiveExchanges
  HasProject <- LiveProjects
  OrderSteps <- OnRampSteps
  MaxClaim = 1
  CheckBackoff = 1
  LockExpiration = 2
  ExpireLockGrace = 3
  MinClaimAge = 1
  ExpireAfter = 3
  MaxTxTime = 0
  Horizon = 4
INVARIANTS
  OutcomeReported
PROPERTIES
  PendingIsDecided
