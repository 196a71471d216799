CONSTANTS
  main = main
  t1 = t1
  t2 = t2
  Thread <- ThreeThreads
  Primordial = main
  Handle = {h1, h2}
  NIL = NIL
  GcThreshold = 1
  Ops <- LiveOps
SPECIFICATION LiveSpec
PROPERTIES
  CollectionEnds
  StoppedResumes
  JoinReturnsAtLast
  NoAllocationInGc
CHECK_DEADLOCK FALSE
