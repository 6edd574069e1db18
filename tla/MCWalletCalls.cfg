SPECIFICATION WalletSpec
CONSTANTS
  t1 = t1  t2 = t2  w1 = w1  p1 = p1  k1 = k1
  NULL = NULL
  Task = {t1, t2}
  Caller = {w1}
  Pci = {p1}
  Key = {k1}
  Grant <- MCGrants
  Batch <- MCBatches
  Bundle <- MCBundles
  Context = {"short", "ownable", "use", "enable", "enable_ownable"}
  RecordLife = 2
  Signers <- MCSigners
  Word = 4
  MaxTime = 2
  MaxOps = 2
  MaxNonce = 2
SYMMETRY Symmetry
CONSTRAINT Scope
INVARIANTS
  SentWithinGrant
  
  AnswerNamesOperations
  
PROPERTIES
  RevivedOnlyByRace
