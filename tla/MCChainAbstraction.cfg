SPECIFICATION Spec
CONSTANTS
  o1 = o1  o2 = o2  p1 = p1  q1 = q1  q2 = q2
  NULL = NULL
  Asset <- MCAsset
  Sender = "sender"
  Base = 2
  Word = 64
  Planner = {p1}
  Poller = {q1, q2}
  Id = {o1}
  Request <- MCRequests
  Chain = {"base", "optimism"}
  MaxAmount = 3
  MaxNonce = 1
  Timeout = 1
  MaxTime = 1
CONSTRAINT Scope
INVARIANTS
  NoncesInOrder
  
  PlanIsTracked
  SettledRightly
PROPERTIES
  KeepsPromise
