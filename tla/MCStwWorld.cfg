CONSTANTS
  main = main
  t1 = t1
  t2 = t2
  Thread <- ThreeThreads
  Primordial = main
  Handle = {h1}
  NIL = NIL
  GcThreshold = 1
  Ops <- WorldOps
SPECIFICATION Spec
SYMMETRY Symmetry
INVARIANTS
  NoDanglingHandle
  AloneIsAlone
  WorldIsStopped
  
CHECK_DEADLOCK FALSE
