CONSTANTS
  NumVerts = 4
  R = 2
  C = 2
  Chunk = 2
  Root = 0
  IntValues = 65536
  EdgeLists <- MCEdgeLists
  Results <- RootedResults
SPECIFICATION FairSpec
PROPERTIES AlwaysAnswers
CHECK_DEADLOCK FALSE
