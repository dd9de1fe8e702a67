CONSTANTS
  Joined = {s1, s2}
  Sends = {m1, m2}
  MaxCuts = 1
SPECIFICATION RelaySpec
INVARIANT ToldTheTruth
PROPERTIES WaitsOnlyInCycles EverySendEnds
CHECK_DEADLOCK FALSE
