CONSTANTS
  Size = 4
  Substeps = 2
  NumBuffers = 4
SPECIFICATION Spec
INVARIANTS NeverFails AllHome
PROPERTIES ImplementsVisits
