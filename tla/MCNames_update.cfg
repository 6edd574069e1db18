CONSTANTS
  NULL = NULL
  t1 = t1
  t2 = t2
  a1 = a1
  a2 = a2
  Task = {t1}
  Admin = {}
  Name = {n1}
  Address = {a1, a2}
  Coin = {60, 137}
  Mainnet = 60
  Attributes = {x1}
SPECIFICATION Spec
INVARIANTS
  LookupShowsUpdate
