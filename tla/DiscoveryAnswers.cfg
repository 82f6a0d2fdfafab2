SPECIFICATION Spec
CONSTANTS
  p1 = p1
  p2 = p2
  g1 = g1
  g2 = g2
  t1 = t1
  t2 = t2
  NoProc = NoProc
  NoOne = NoOne
  NoHash = NoHash
  Procs = {p1, p2}
  Gates = {g1, g2}
  Texts = {t1, t2}
  Claims = {c1}
  Conflicts = {k1}
  Groups = {group1}
  Semantic = {k1}
  Affecting <- AllGates
  Support <- AllClaims
  Approvers = {a1, a2}
  FirstApprover = a1
  MaxLines = 4
  MaxFaults = 1
CHECK_DEADLOCK FALSE
SYMMETRY Symmetric
INVARIANTS
  TranscriptSound
  BindingsAgree
PROPERTIES
  HistoryKept
  CorrectionStales
