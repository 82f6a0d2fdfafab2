SPECIFICATION Spec
CONSTANTS
  none = none
  ann = ann
  bob = bob
  p1 = p1
  p2 = p2
  Procs = {p1, p2}
  Targets <- MCTargets
  Absent <- MCAbsent
  Malformed <- MCMalformed
  Core <- MCCore
  Rows <- MCRows
  Files = {"plain", "overlap", "dangling"}
  ProposalIn <- MCProposal
  FirstTree <- MCFirstTree
  Edits <- MCEdits
  Session <- MCSession
  Moves = {"approver", "closed", "evidence"}
  Moved <- MCMoved
  MaxCommands <- MCCommands
  MaxDecisions = 2
  MaxImports = 1
  MaxChanges = 1
CHECK_DEADLOCK FALSE
INVARIANTS
  AppliedWasAttested
  OrderFree
  RecordSound
