CONSTANTS
  NULL = NULL
  NoName = NoName
  MaxTime = 5
  Lag = 1
  Call = {c1, c2}
  Query <- Queries
  Account = {"alice", "bob", "carol"}
  Token = {"erc", "rif", "sol", "spl"}
  Chain = {"ethereum", "rootstock", "testnet", "solana", "ton"}
  AccountKind <- Kinds
  NamespaceOf <- Namespaces
  ChainOf <- Chains
  Native = {"sol"}
  RootstockMainnet = "rootstock"
  RootstockTestnet = "testnet"
  BalanceWeights <- Weights
  BalanceTtl = 1
  PriceTtl = 1
  MetadataTtl = 2
  MaxCalls = 2
  Lookup = {l1, l2}
  Name = {NoName, n1}
  IdentityTtl = 2
  MaxLookups = 2
  MaxRenames = 1
SPECIFICATION Spec
CHECK_DEADLOCK FALSE
SYMMETRY Alike
CONSTRAINT OneSide
INVARIANTS
  BalanceFresh
  PriceIsOfToken
  ForcedIsRead
  NameWasTrue
