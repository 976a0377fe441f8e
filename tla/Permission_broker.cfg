SPECIFICATION Spec
CONSTANTS
  Ids = {q1, q2}
  Resources = {"camera", "microphone"}
  Contexts <- MCContexts
  Snapshots <- MCSnapshots
  MaxTime = 2
  None = None
SYMMETRY IdSymmetry
INVARIANTS
  GrantsAreConsented
  GrantIsFresh
PROPERTIES
  FirstAnswerStands
