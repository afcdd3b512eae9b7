CONSTANTS
  t1 = t1
  t2 = t2
  t3 = t3
  Thread <- MCThread
  Lengths <- MCLengths
  BufferSize = 3
SPECIFICATION FairSpec
INVARIANTS TypeOK OneSwapper BuffersWhole
PROPERTIES ImplementsBatches AllSent
CHECK_DEADLOCK FALSE
