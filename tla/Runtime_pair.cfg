SPECIFICATION Spec
CONSTANTS
  s1 = s1
  s2 = s2
  a = a
  b = b
  None = None
  MaxId = 2
  Sources = {s1, s2}
  Files = {a, b}
  Requests <- PlainAndScheduled
  Total = 1
  MaxSegments = 1
  MaxActive = 1
  MaxRetries = 0
  MaxVersion = 0
  MaxCrashes = 2
  RangeSupport = {TRUE}
  Answers = {"range", "rangecut"}
  Verdicts = {"allow", "hold"}
  Faults = {}
INVARIANTS
  NoStrayCheckpoint
PROPERTIES
  NothingForgotten
