SPECIFICATION MCSpec
CONSTANTS
  g1 = g1  r1 = r1  r2 = r2  s1 = s1  s2 = s2  a1 = a1  w1 = w1
  NULL = NULL  None = None
  GateRequest = {g1}
  Server = {s1, s2}
  Path = {"/v1", "/v1/json-rpc"}
  Address = {a1, w1, None}
  Whitelist = {w1}
  Origin <- MCOrigin
  OriginLists <- MCOriginLists
  MaxTokens = 1
  RefillRate = 1
  Interval = 2
  GateMaxTime = 3
  MaxEdits = 2
  Project = {p1}
  Request = {r1, r2}
  Verdict = {"over_quota", "config"}
  TTL = 2
  Cooldown = 2
  Delay = 1
  MaxWrites = 2
SYMMETRY Requests
CONSTRAINT Scope
INVARIANTS
  
  VerdictWasTrue
  FailsOpenOnlyInOutage
PROPERTIES
  RefusedWhileEmpty
  BreakerShields
