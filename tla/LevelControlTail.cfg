CONSTANTS
  Alpha = 2000
  Beta = 8
  ListThreshold = 512
  Ranks = 1
  LocalVerts = 65536
  GlobalVerts = 65000
  Sizes = {0, 10, 40, 100, 2000, 60000}
  RowAlone = TRUE
  Alone = TRUE
  MaxLevels = 8
SPECIFICATION Spec
INVARIANTS ListFits
CHECK_DEADLOCK FALSE
