SPECIFICATION FairSpec
CONSTANTS
  Cap = 2
  MaxChunks = 6
CHECK_DEADLOCK FALSE
INVARIANT Intact VerdictTrue
PROPERTY ImplementsContract AllReturn
