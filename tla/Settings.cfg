CONSTANTS
  Requests = {r1, r2}
  Agent = agent
  MaxUpdates = 3
  MaxFails = 3
  Faults = {"crash"}
SPECIFICATION Spec
INVARIANTS UpdatesSurvive ViewIsMerged RotationTriesAll
