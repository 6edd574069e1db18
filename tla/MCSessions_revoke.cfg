SPECIFICATION Spec
CONSTANTS
  t1 = t1  t2 = t2  t3 = t3  p1 = p1  k1 = k1  k2 = k2
  NULL = NULL
  Task = {t1, t2, t3}
  Pci = {p1}
  Key = {k1}
  Grant <- OneGrant
  Batch <- OneBatch
  Context = {"ownable"}
  RecordLife = 2
  Word = 4
  MaxTime = 2
SYMMETRY Symmetry
INVARIANTS
  RevokeTakesHold
