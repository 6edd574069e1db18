SPECIFICATION MCSpec
CONSTANTS
  w1 = w1
  w2 = w2
  c1 = c1
  s1 = s1
  s2 = s2
  s3 = s3
  p1 = p1
  NULL = NULL
  None = None
  Workers = {w1, w2}
  Clients = {c1}
  Sessions = {s1}
  Preexisting = {}
  ExchangeId <- OneBinance
  HasProject <- OneProject
  OrderSteps <- OnRampSteps
  MaxClaim = 1
  CheckBackoff = 1
  LockExpiration = 2
  ExpireLockGrace = 3
  MinClaimAge = 1
  ExpireAfter = 3
  MaxTxTime = 1
  Horizon = 5
  PayCall = {p1}
  AssetText <- MCAssets
  Recipient <- MCRecipients
  AmountText <- MCAmounts
  FeatureSets <- MCFeatures
  MaxChanges = 1
  MaxOrders = 1
SYMMETRY Symmetry
CONSTRAINT PayScope
INVARIANTS
  SentWhereAsked
  
  UrlHasRow
  TypeOK
  RowsConsistent
PROPERTIES
  
  DecidedStaysDecided
  ClaimsSpaced
  ExpiryRespectsClaims
