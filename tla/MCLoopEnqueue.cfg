\* The bounds on versions, drops and crashes stop the callers in the end.
CHECK_DEADLOCK FALSE
SPECIFICATION FairLoopSpec
CONSTANTS
  k1 = k1
  k2 = k2
  h1 = h1
  h2 = h2
  a1 = a1
  val = val
  NoValue = NoValue
  Dropper = dropper
  Key = {k1}
  Value = {val}
  Size <- MCSize
  VNode = {0}
  KeyVNode <- MCKeyVNode
  Handler = {}
  Reader = {h2}
  Applier = {a1}
  LostVNode = {0}
  Cmd <- MCCmd
  Batches = {}
  AckMode = "enqueue"
  AppendCap = 1
  AckCap = 1
  BufCap = 1
  ReqCap = 2
  BatchSize = 2
  CrashKinds = {}
  DiskFaults = FALSE
  MaxLog = 0
  MaxCrashes = 0
  MaxVersion = 2
  MaxEntries = 2
  MaxDrops = 1
INVARIANT
  WalCoversStore
PROPERTY CallsAnswered
