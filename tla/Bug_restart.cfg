SPECIFICATION FairSpec
CONSTANTS
  s1 = s1
  s2 = s2
  a = a
  b = b
  None = None
  MaxId = 1
  Sources = {s1}
  Files = {a}
  Requests <- OnePlain
  Total = 2
  MaxSegments = 2
  MaxActive = 1
  MaxRetries = 1
  MaxVersion = 0
  MaxCrashes = 0
  RangeSupport = {TRUE}
  Answers = {"range"}
  Verdicts = {"allow"}
  Faults = {}
PROPERTIES
  RestartedRuns
