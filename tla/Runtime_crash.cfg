SPECIFICATION FairSpec
CONSTANTS
  s1 = s1
  s2 = s2
  a = a
  b = b
  None = None
  MaxId = 1
  Sources = {s1}
  Files = {a}
  Requests <- OneNowOrScheduled
  Total = 2
  MaxSegments = 2
  MaxActive = 1
  MaxRetries = 1
  MaxVersion = 1
  MaxCrashes = 2
  RangeSupport = {TRUE, FALSE}
  Answers = {"range", "rangecut", "down", "whole"}
  Verdicts = {"allow", "block"}
  Faults = {}
INVARIANTS
  ReleasedIsWhole
  CheckpointHonest
PROPERTIES
  EventuallySettles
