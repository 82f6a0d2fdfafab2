SPECIFICATION Spec
CONSTANTS
  p1 = p1
  p2 = p2
  NoProc = NoProc
  NoHash = NoHash
  NoFile = NoFile
  Procs = {p1, p2}
  Nodes <- ClaimNodes
  Hashes = {1, 2, 3}
  Genesis <- OneApprover
  Requests <- RebuildRequests
  MaxEvents = 4
  MaxKills = 0
  MaxPowerLosses = 0
  MaxLosses = 0
  MaxTotal = 4
  Cuts = {}
CHECK_DEADLOCK FALSE
INVARIANTS
  RebuiltCurrent
