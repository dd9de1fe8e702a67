\* One slave: the rivals for a connection are its own earlier ones.
CONSTANTS
    Slaves = {s1}
    Ids = {i1, i2}
    MaxSockets = 2
    MaxQueue = 2
SPECIFICATION FairSpec
INVARIANTS ListedOnce EntryServed Stoppable
PROPERTIES Reconnects LinkIsListed LeaveIsFinal
