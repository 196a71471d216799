CONSTANTS
  Thread = {t1, t2, t3}
  NIL = NIL
SPECIFICATION Spec
INVARIANTS
  MutualExclusion
  NoForeignOwner
