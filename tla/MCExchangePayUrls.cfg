SPECIFICATION PaySpec
CONSTANTS
  c1 = c1  c2 = c2
  None = NULL
  PayCall = {c1, c2}
  AssetText <- OnOptimism
  Recipient <- ToOptimism
  AmountText <- OneAmount
  FeatureSets <- FundWallet
  MaxChanges = 0
  MaxOrders = 2
INVARIANTS
  SameAssetSameCoin
