SPECIFICATION Spec
CONSTANTS
  none = none
  p1 = p1
  p2 = p2
  Procs = {p1, p2}
  Scanners = {p1}
  Columns = {"id", "amount", "token"}
  Types <- MCTypes
  Denied = {"token"}
  Secret = {9}
  Null = none
  Rank <- MCRank
  Caps <- MCCaps
  Versions = {"old", "new", "lie"}
  Content <- MCContent
  Token <- MCToken
  Reopenable = TRUE
  Grain <- MCGrain
  Policies <- MCPolicies
  Approvers = {"ann", "bob"}
  First <- MCFirst
  Stops = {0, 1, 2}
  MaxScans = 3
  MaxCommands = 5
  MaxChanges = 1
CHECK_DEADLOCK FALSE
INVARIANTS
  ScanExact
  ExportApproved
  ExportsSound
PROPERTIES
  ScanEnds
