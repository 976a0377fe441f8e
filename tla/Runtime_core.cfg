SPECIFICATION Spec
CONSTANTS
  s1 = s1
  s2 = s2
  a = a
  b = b
  None = None
  MaxId = 2
  Sources = {s1, s2}
  Files = {a, b}
  Requests <- PlainAndPrivate
  Total = 1
  MaxSegments = 1
  MaxActive = 1
  MaxRetries = 1
  MaxVersion = 0
  MaxCrashes = 0
  RangeSupport = {TRUE}
  Answers = {"range", "rangecut", "down"}
  Verdicts = {"allow", "hold", "block"}
  Faults = {"prepare", "write", "tamper", "remove", "rename"}
INVARIANTS
  RecordsAreSound
PROPERTIES
  SchedulerSpec
