CONSTANTS
  Alpha = 2000
  Beta = 8
  ListThreshold = 512
  Ranks = 4
  LocalVerts = 65536
  GlobalVerts = 262000
  Sizes = {0, 100, 511, 33000, 60000}
  RowAlone = FALSE
  Alone = FALSE
  MaxLevels = 5
SPECIFICATION Spec
INVARIANTS EarlyListFits TailListBound
CHECK_DEADLOCK FALSE
