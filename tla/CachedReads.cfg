SPECIFICATION Spec
CONSTANTS
  Handlers <- TwoHandlers
  Resolvers <- TwoResolvers
  Variants <- OneCopy
  Fits <- SmallOnes
  Absent = Absent
  Part = Part
  Spoiled = Spoiled
  None = None
  MaxRequests = 3
  h1 = h1
  h2 = h2
  r1 = r1
  r2 = r2
SYMMETRY Symmetry
INVARIANT
  TypeOK
  FreshRead
  OnlyReuseCorrupts
