SPECIFICATION Spec
CONSTANTS
  none = none
  bad = bad
  Absent = none
  Bad = bad
  Rank <- MCRank
  First <- MCFirst
  Edits <- MCEdits
  Pages <- MCPages
  Places <- MCPlaces
  Catalogs <- MCCatalogs
  Inputs = {"plain", "guided", "dangling", "lost"}
  InputOf <- MCInputOf
  Requests = {"one", "near", "far", "tight", "both"}
  RequestOf <- MCRequestOf
  Hand = "hand"
  MaxCommands = 3
  MaxSaves = 1
  MaxChanges = 1
  MaxKills = 1
INVARIANTS
  SyncConverges
  TrustFollows
  BuildWhole
  ContextExact
PROPERTIES
  CuratedKept
CHECK_DEADLOCK FALSE
