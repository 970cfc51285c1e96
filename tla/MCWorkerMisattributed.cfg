\* Each task is submitted once: in the end nothing is left to do.
CHECK_DEADLOCK FALSE
SPECIFICATION WorkerSpec
SYMMETRY TaskSymmetry
CONSTANTS
  Task = {t1, t2, t3}
  QueueCap = 2
  BatchSize = 1
  PeerErrors = FALSE
  MaxStreams = 2
  MaxFaults = 1
INVARIANT OkMeansApplied
