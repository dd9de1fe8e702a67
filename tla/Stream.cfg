CONSTANTS
  Alphabet <- MCAlphabet
  Openings <- MCOpenings
  MaxMore = 5
SPECIFICATION StreamSpec
INVARIANT ReadsWhatWasWritten
PROPERTY EveryTurnConsumes
CHECK_DEADLOCK FALSE
