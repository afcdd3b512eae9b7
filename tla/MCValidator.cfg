CONSTANTS
  NumVerts = 4
  R = 2
  C = 2
  Chunk = 2
  Root = 0
  IntValues = 65536
  EdgeLists <- MCEdgeLists
  Results <- MCResults
SPECIFICATION FairSpec
INVARIANTS AcceptedIsSearch SameVerdict
PROPERTIES SearchIsAccepted OneChunkAnswers
CHECK_DEADLOCK FALSE
