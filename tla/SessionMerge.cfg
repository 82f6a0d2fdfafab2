SPECIFICATION Spec
CONSTANTS
  p1 = p1
  p2 = p2
  NoProc = NoProc
  NoHash = NoHash
  NoFile = NoFile
  Procs = {p1, p2}
  Nodes <- ClaimNodes
  Hashes = {1, 2, 3}
  Genesis <- OneApprover
  Requests <- FewRequests
  MaxEvents = 4
  MaxKills = 1
  MaxPowerLosses = 0
  MaxLosses = 0
  MaxTotal = 5
  Cuts = {"open"}
CHECK_DEADLOCK FALSE
INVARIANTS
  LineReadsBack
