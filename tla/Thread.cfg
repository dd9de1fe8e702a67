\* Safety, with every fault and a beat limit.
CONSTANTS
    Valve = 2
    MaxBeats = {5}
    Timeouts = {0, 2}
    DiskEvery = 2
    MaxChunks = 3
    CountCap = 5
    Faults = {"crash", "settings", "store"}
SPECIFICATION Spec
INVARIANT FailedSendStaysAwake
PROPERTY WakesNotEarly
