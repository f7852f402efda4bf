SPECIFICATION Spec
CONSTANTS
  Subs = {s1, s2}
  RuleSets = {geosite}
  Mirrors = 2
  Attempts = 2
  None = None
INVARIANTS
  TypeOK
  PatchUndone
  PatchedUnlessOverlapped
  SummaryAgrees
  RunningHasThread
PROPERTIES
  RuleSetsKept
  UpdatesEnd
