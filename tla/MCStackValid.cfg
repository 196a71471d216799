CONSTANTS
  main = main
  t1 = t1
  t2 = t2
  Thread <- TwoThreads
  Primordial = main
  Handle = {h1, h2}
  NIL = NIL
  GcThreshold = 1
  Ops <- HeapOps
SPECIFICATION Spec
SYMMETRY HandleSymmetry
INVARIANT StackStaysValid
CHECK_DEADLOCK FALSE
