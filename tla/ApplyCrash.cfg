SPECIFICATION OperatorSpec
CONSTANTS
  p1 = p1
  p2 = p2
  a = a
  b = b
  c = c
  NoProc = NoProc
  Keep = Keep
  Absent = Absent
  Torn = Torn
  Procs = {p1, p2}
  Txs <- OneTx
  Paths <- ThreePaths
  Contents = {a, b}
  Batches <- AnyBatch3
  InitFiles <- AnyTree3
  MaxEdits = 0
  MaxFails = 2
INVARIANTS
  TypeOK
  CrashConsistent
PROPERTIES
  AtomicSpec
  CommittedStays
  Progress
