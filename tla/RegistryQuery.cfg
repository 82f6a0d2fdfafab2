SPECIFICATION FairSpec
CONSTANTS
  t1 = t1
  t2 = t2
  NoThread = NoThread
  Other = Other
  Nothing = Nothing
  Provider = Provider
  Threads = {t1, t2}
  Sources <- ThreeSources
  Kind <- ReaderIcebergDataset
  MaxMade = 2
  MaxFaults = 1
  MaxLostRestores = 1
  MaxNest = 1
INVARIANTS
  NoLeak
  QueriesServed
  AnswersOwn
PROPERTIES
  LockReturns
