CONSTANTS
  a = a
  b = b
  Text = {a, b}
  Mark = b
  Newline = nl
  Raw = raw
  Nul = nul
  Files <- MCFiles
  Pipe = 1
  MaxOutput = 3
  ShowLimit = 1
  MaxScript = 3
  MaxFile = 4
  MaxLeft = 1
SPECIFICATION FairSpec
INVARIANTS OutputWhole ReplaceKeepsRest
PROPERTIES EveryActionEnds
CHECK_DEADLOCK FALSE
