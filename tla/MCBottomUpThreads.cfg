CONSTANTS
  t0 = t0
  t1 = t1
  t2 = t2
  Thread <- MCThread
  Main = t0
  Blocks = 4
  Steps = 5
  HomeSteps = {2, 4}
  Share <- MCShare
  Calls = 11
  StepMod = 2
SPECIFICATION FairBmpSpec
INVARIANTS SliceStable FindsCounted StepsComplete
PROPERTIES ImplementsBarrier AllDone
CHECK_DEADLOCK FALSE
