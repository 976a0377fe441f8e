SPECIFICATION Spec
CONSTANTS
  s1 = s1
  s2 = s2
  a = a
  b = b
  None = None
  MaxId = 1
  Sources = {s1}
  Files = {a}
  Requests <- OneNowOrScheduled
  Total = 2
  MaxSegments = 1
  MaxActive = 1
  MaxRetries = 0
  MaxVersion = 0
  MaxCrashes = 1
  RangeSupport = {TRUE}
  Answers = {"range", "whole", "short", "error"}
  Verdicts = {"allow", "block"}
  Faults = {"prepare", "write", "save", "erase", "read", "tamper", "remove", "rename"}
INVARIANTS
  RecordsAgree
  CompletedOwnsFile
PROPERTIES
  GateSpec
