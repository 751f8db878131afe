SPECIFICATION Spec
CONSTANTS
  Handlers <- TwoHandlers
  Files <- TwoFiles
  NoFile = NoFile
  Original = Original
  Variants <- OneVariant
  BucketsPath = BucketsPath
  WorkDir = WorkDir
  Seeded <- OneSeeded
  SaveRetries = 2
  DeleteRetries = 2
  MaxBatch = 2
  MaxCrashes = 1
  h1 = h1
  h2 = h2
  f1 = f1
  f2 = f2
  f3 = f3
  v1 = v1
SYMMETRY HandlerSymmetry
PROPERTY
  ImplementsObjectStore
