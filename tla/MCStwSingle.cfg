CONSTANTS
  main = main
  t1 = t1
  t2 = t2
  Thread <- OneThread
  Primordial = main
  Handle = {h1, h2, h3}
  NIL = NIL
  GcThreshold = 2
  Ops <- InhibitOps
SPECIFICATION Spec
SYMMETRY HandleSymmetry
INVARIANTS
  OutOfHandlesIsReal
  PostponedGcIsDone
CHECK_DEADLOCK FALSE
