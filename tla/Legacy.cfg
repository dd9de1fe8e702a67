CONSTANTS
  Engine = engine
  Requests = {r1}
  Sessions = {1, 2}
  Captures = {c1, c2}
  MaxCopies = 4
  MaxFaults = 2
  Faults = {"crash", "read", "store", "rename"}
SPECIFICATION Spec
INVARIANTS LegacyKept ImportedOnce RunsWithAllMemory
PROPERTY NothingUnlearned
