\* A bounded log fills up, and a torn file or a dead writer stops the node.
CHECK_DEADLOCK FALSE
SPECIFICATION FairWalSpec
CONSTANTS
  c1 = c1
  c2 = c2
  Cmd <- MCCmd
  Batches <- MCBatches
  AckMode = "fsync"
  AppendCap = 2
  AckCap = 2
  BufCap = 1
  CrashKinds = {"process", "power"}
  DiskFaults = TRUE
  MaxLog = 3
  MaxCrashes = 2
INVARIANTS
  WalTypeOK
  FileIsLogPrefix
  WaitMeansDurable
PROPERTIES
  ImplementsDurableLog
  FlushCatchesUp
  DiskErrorAnswersAll
