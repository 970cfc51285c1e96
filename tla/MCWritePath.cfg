\* Each call is made once: in the end nothing is left to do.
CHECK_DEADLOCK FALSE
SPECIFICATION FairPathSpec
CONSTANTS
  n1 = n1
  n2 = n2
  n3 = n3
  Node = {n1, n2, n3}
  PutCall = {c1}
  DeleteCall = {c2}
  ReplicationFactor = 3
  Placements <- MCPlacements
  MemberCounts = {1, 3}
  MaxVersion = 2
  MaxEpoch = 1
  MaxBroken = 0
INVARIANTS
  PathTypeOK
  AckedOnQuorum
  AckedOnMajority
PROPERTY
  CallsReturn
