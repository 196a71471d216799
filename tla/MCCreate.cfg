CONSTANTS
  main = main
  t1 = t1
  t2 = t2
  Thread <- ThreeThreads
  Primordial = main
  Handle = {h1, h2}
  NIL = NIL
  GcThreshold = 1
  Ops <- CreateOps
SPECIFICATION FairSpec
PROPERTY CreateReturns
CHECK_DEADLOCK FALSE
