\* Progress: no beat limit, the model answers, the store works.
CONSTANTS
    Valve = 2
    MaxBeats = {}
    Timeouts = {1, 2}
    DiskEvery = 2
    MaxChunks = 2
    CountCap = 2
    Faults = {}
SPECIFICATION FairSpec
PROPERTIES KeepsPromise InterruptConsumed
