SPECIFICATION Spec
CONSTANTS
  Jobs <- FourJobs
  NoJob = NoJob
  MaxWorkers = 2
  Strategy = "WorkerPool"
  j1 = j1
  j2 = j2
  j3 = j3
  j4 = j4
INVARIANTS
  TypeOK
  RunsOnce
  StopDrains
PROPERTIES
  ImplementsExecutor
  AcceptedIsAnswered
  NobodyHangs
  CleanStop
