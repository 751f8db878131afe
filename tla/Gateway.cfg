SPECIFICATION Spec
CONSTANTS
  SigningKeys <- ThreeKeys
  EmptyKey = EmptyKey
  NoKeys = NoKeys
  QueryKeys <- SomeQueryKeys
  Values <- SomeValues
  MaxOps = 2
  MaxKeys = 2
  MaxPairs = 3
  k1 = k1
  k2 = k2
SYMMETRY Interchangeable
INVARIANT
  TypeOK
  AccessIsEarned
  GoodTokenPasses
  NameIsCanonical
  BadQueryIsRefused
