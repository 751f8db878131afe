SPECIFICATION FairSpec
CONSTANTS
  Callers <- TwoCallers
  Paths <- OnePath
  NoPath = NoPath
  NoOne = NoOne
  Flusher = Flusher
  Threshold = 2
  MaxItems = 1
  PipeSize = 1
  MaxTicks = 1
  Requests <- CacheRequests
  MaxRequests = 2
  h1 = h1
  h2 = h2
  p1 = p1
  p2 = p2
PROPERTY
  CleanUpIsMade
