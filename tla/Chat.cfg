CONSTANTS
  MaxMessages = 2
  Page = 1
  Batch = 1
  Scrolls = 2
SPECIFICATION ChatSpec
INVARIANTS NothingMissing NothingTwice
PROPERTY EveryMessageShown
