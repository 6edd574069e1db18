CONSTANTS
  NULL = NULL
  p1 = p1  p2 = p2  p3 = p3
  ca = ca  cx = cx
  Request = {r1}
  Provider = {p1, p2, p3}
  Registered = {p1, p2}
  Chain <- ChainsAndUnknown
  Resolver <- ServeKnown
  Priority <- MaxAndLow
  Excluded = {}
  SessionProvider <- Sessions
  MaxCalls = 2
  Outcome <- AnyOutcome
  Input <- AnyInput
  MaxCount = 1
SPECIFICATION FairSpec
CONSTRAINT Scope
INVARIANTS
  CallsAreRouted
  UnavailableMeansTried
PROPERTIES
  EveryRequestAnswered
  WeightsRecover
