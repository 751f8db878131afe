SPECIFICATION Spec
CONSTANTS
  Creators <- TwoCreators
  Readers <- OneReader
  Names <- TwoNames
  Defs <- ThreeDefs
  Valid <- GoodDefs
  NoDef = NoDef
  NoName = NoName
  NoOne = NoOne
  MaxCrashes = 2
  c1 = c1
  c2 = c2
  r1 = r1
  n1 = n1
  n2 = n2
  d1 = d1
  d2 = d2
  bad = bad
SYMMETRY Symmetry
INVARIANT
  TypeOK
  CreatedOnce
  CacheIsStored
  CreatedIsKnown
  OnePolicyPerRequest
  StuckHasCause
PROPERTY
  ImplementsRegistry
