\* Every fault: also between marker and history write, also a respawned thread.
CONSTANTS
    MaxRows = 3
    Names = {1, 2, 3}
    BlocksLimit = 2
    Tasks = {t1, t2}
    Faults = {"window", "read", "respawn"}
SYMMETRY TaskSymmetry
SPECIFICATION Spec
INVARIANTS NothingForgotten HistoryIsPrefix
PROPERTIES NoBlockDroppedUnrolled KeepsPromise SummaryLosesNothing
