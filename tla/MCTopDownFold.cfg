CONSTANTS
  Rank = {0, 1, 2}
  MaxSize = 16
  MinSpace = 5
  Thread = {1, 2}
  PacketLength = 6
  LongRow = 3
  Pending = 6
  NumSplits = 4
  Frontiers <- MCFrontiers
SPECIFICATION FoldSpec
INVARIANTS AreasExact EndTogether EdgesDelivered
