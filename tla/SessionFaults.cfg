SPECIFICATION FairSpec
CONSTANTS
  p1 = p1
  p2 = p2
  NoProc = NoProc
  NoHash = NoHash
  NoFile = NoFile
  Procs = {p1, p2}
  Nodes <- GraphNodes
  Hashes = {1, 2, 3}
  Genesis <- OneApprover
  Requests <- CycleRequests
  MaxEvents = 4
  MaxKills = 1
  MaxPowerLosses = 1
  MaxLosses = 1
  MaxTotal = 5
  Cuts = {"torn", "open"}
CHECK_DEADLOCK FALSE
INVARIANTS
  SidecarSound
  StaleSound
  AckKept
PROPERTIES
  LogSpec
  LockReturns
