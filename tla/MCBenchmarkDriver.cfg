CONSTANTS
  Params = {p, q}
  NoParams = NoParams
  Vertex = {0, 1, 2, 3, 4, 5, 6, 7}
  EdgeVertex = {0, 1, 2, 4}
  Boundary = {7}
  NumRoots = 3
  Draws <- MCDraws
  MaxStarts = 3
SPECIFICATION FairSpec
INVARIANTS LogInStep PrintedResults RootsChosen
PROPERTIES DriverEnds
CHECK_DEADLOCK FALSE
