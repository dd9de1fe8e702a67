SPECIFICATION FairSpec
CONSTANTS
  Instances = {a}
  Requests = {r1, r2}
  GlobalKey = TRUE
  MaxGen = 3
  Faults = {"crash", "panic"}
INVARIANTS DeletedStaysDeleted CachesFresh
PROPERTY EveryInstanceRuns
