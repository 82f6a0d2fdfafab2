SPECIFICATION Spec
CONSTANTS
  none = none
  Absent = none
  Null = none
  Draft <- MCDraft
  Edits = {"a-b", "a=b", "b<a", "b-c", "c<b", "b<c", "a-c", "c*a", "a-a", "a-x",
           "far fact", "wide fact", "lost fact", "lost measure", "lost metric", "mixed metric",
           "null grain", "moved fact", "one>two", "two>one", "one>one", "fa>one", "two>lost", "text",
           "fb>fa", "b>c", "unsound", "untyped", "early end", "one call"}
  EditOf <- MCEditOf
  Queries = {"one", "two", "both", "one by b", "one by c", "one by b c", "lost", "one for c", "one for b"}
  RequestOf <- MCRequestOf
  Tables = {"empty", "plain", "fan", "null", "twice"}
  TableOf <- MCTableOf
  MaxEdits = 3
CHECK_DEADLOCK FALSE
INVARIANTS
  PathExact
  GrainKept
  AcceptedLayer
  EvidenceComplete
