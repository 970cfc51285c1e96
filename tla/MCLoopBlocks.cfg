\* The bounds on versions, drops and crashes stop the callers in the end.
CHECK_DEADLOCK FALSE
SPECIFICATION FairLoopSpec
CONSTANTS
  k1 = k1
  k2 = k2
  h1 = h1
  h2 = h2
  a1 = a1
  val = val
  NoValue = NoValue
  Dropper = dropper
  Key = {k1}
  Value = {val}
  Size <- MCSize
  VNode = {0}
  KeyVNode <- MCKeyVNode
  Handler = {h1}
  Reader = {}
  Applier = {}
  LostVNode = {}
  Cmd <- MCCmd
  Batches = {}
  AckMode = "flush"
  AppendCap = 1
  AckCap = 1
  BufCap = 1
  ReqCap = 2
  BatchSize = 1
  CrashKinds = {}
  DiskFaults = TRUE
  MaxLog = 0
  MaxCrashes = 0
  MaxVersion = 3
  MaxEntries = 0
  MaxDrops = 0
PROPERTY AppendReturns
