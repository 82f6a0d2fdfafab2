SPECIFICATION Spec
CONSTANTS
  t1 = t1
  t2 = t2
  NoThread = NoThread
  Other = Other
  Nothing = Nothing
  Provider = Provider
  Threads = {t1, t2}
  Sources <- TwoSources
  Kind <- DatasetDatabase
  MaxMade = 3
  MaxFaults = 2
  MaxLostRestores = 0
  MaxNest = 1
SYMMETRY ThreadSymmetry
INVARIANTS
  TablesSound
PROPERTIES
  AtomicReload
  HeldStill
