SPECIFICATION PosSpec
CONSTANTS
  b1 = b1  c1 = c1  c2 = c2
  Absent = Absent
  BuildCall = {b1}
  CheckCall = {c1, c2}
  Batches <- MCBatches
  Decimals <- MCDecimals
  Unit = 2
  Word = 6
  Small = 3
  MaxTx = 2
  MaxLost = 1
CHECK_DEADLOCK FALSE
CONSTRAINT Scope

  
PROPERTIES
  SettledTruly
  PolledIsSettled
