CONSTANTS
  Limit = 3
  LeafKind = {"string"}
  TracedKind = {"vector"}
  OpaqueKind = {"wrapper"}
SPECIFICATION FairSpec
INVARIANTS
  FreeListExact
  WorkListIsGray
  TriColour
  CollectsAllGarbage
  NoDanglingHandle
PROPERTIES
  ReclaimsOnlyGarbage
  CollectionEnds
