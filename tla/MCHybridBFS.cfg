CONSTANTS
  NumVerts = 8
  R = 2
  C = 2
  Alpha = 5
  Beta = 2
  ListThreshold = 2
  NumRoots = 2
  None = None
  Graphs <- MCGraphs
  Junk <- MCJunk
SPECIFICATION FairSpec
INVARIANTS TreeOK PacketsClean VisitedCount IInv
PROPERTIES PredWrittenOnce NoReturn LevelByLevel Terminates
CHECK_DEADLOCK FALSE
