SPECIFICATION Spec
CONSTANTS
  Handlers <- OneHandler
  Files <- OneFile
  NoFile = NoFile
  Original = Original
  Variants <- OneVariant
  BucketsPath = BucketsPath
  WorkDir = WorkDir
  Seeded <- NoneSeeded
  SaveRetries = 2
  DeleteRetries = 2
  MaxBatch = 2
  MaxCrashes = 0
  h1 = h1
  h2 = h2
  f1 = f1
  f2 = f2
  f3 = f3
  v1 = v1
INVARIANT
  DeleteOkIsDeleted
