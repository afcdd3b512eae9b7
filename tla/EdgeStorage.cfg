CONSTANTS
  NumRanks = 2
  Chunk = 2
  Totals = {2, 9}
SPECIFICATION FairSpec
INVARIANTS UnreadIntact PassComplete
PROPERTIES AllPassesEnd
CHECK_DEADLOCK FALSE
