SPECIFICATION Spec
CONSTANTS
  p1 = p1
  p2 = p2
  a = a
  b = b
  c = c
  NoProc = NoProc
  Keep = Keep
  Absent = Absent
  Torn = Torn
  Procs = {p1, p2}
  Txs <- TwoTxs
  Paths <- TwoPaths
  Contents = {a, b, c}
  Batches <- UndoBatches
  InitFiles <- MixedTree
  MaxEdits = 1
  MaxFails = 1
SYMMETRY ProcSymmetry
INVARIANTS
  RecoverySettles
PROPERTIES
  MarkersTrue
  DriftPreserved
