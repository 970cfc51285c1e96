\* A bounded log fills up, and a torn file or a dead writer stops the node.
CHECK_DEADLOCK FALSE
SPECIFICATION FairWalSpec
CONSTANTS
  c1 = c1
  c2 = c2
  Cmd <- MCCmd
  Batches <- MCBatches
  AckMode = "flush"
  AppendCap = 2
  AckCap = 2
  BufCap = 1
  CrashKinds = {}
  DiskFaults = FALSE
  MaxLog = 3
  MaxCrashes = 0
PROPERTY FlushedWaiterWakes
