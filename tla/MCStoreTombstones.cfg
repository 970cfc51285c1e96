SPECIFICATION Spec
CONSTANTS
  k1 = k1
  k2 = k2
  k3 = k3
  short = short
  long = long
  NoValue = NoValue
  Key <- MCKey3
  Value <- MCValue
  Size <- MCSize
  VNode = {0, 1}
  VNodeOf <- MCVNodeOf
  FallbackVNode = 0
  PlacedAtStart = TRUE
  Versions = {0, 1, 2}
  MaxApplied = 4
  MaxBytes = 6
  Droppable = {0, 1}
INVARIANT TombstonesTransferred
