\* Each task is submitted once: in the end nothing is left to do.
CHECK_DEADLOCK FALSE
SPECIFICATION FairWorkerSpec
CONSTANTS
  Task = {t1, t2, t3}
  QueueCap = 2
  BatchSize = 2
  PeerErrors = TRUE
  MaxStreams = 3
  MaxFaults = 1
INVARIANTS
  WorkerTypeOK
  TasksConserved
  OkMeansAppliedIntact
PROPERTY
  TasksAnswered
