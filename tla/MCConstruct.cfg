CONSTANTS
  R = 2
  C = 2
  Chunk = 2
  Part = 2
  Unit = 2
  Reorderings = {0, 2}
  EdgeLists <- MCEdgeLists
SPECIFICATION BuildSpec
INVARIANTS RowsExact CountsAgree HasEdgeExact
