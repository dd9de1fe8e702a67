\* Every fault; two messages; reads of the loop and of the model.
CONSTANTS
    Messages = {m1, m2}
    MaxRows = 4
    Faults = {"race", "store", "halfway", "restart"}
SPECIFICATION FairSpec
INVARIANTS NothingLost ShownOnce
PROPERTIES ToldBeforeSummarised EveryMessageTold
