CONSTANTS
  Calls = {c1, c2}
  Instances = {i1, i2, i3}
  PoolMax = 1
  NoLease = NoLease
  NativeCalls = {}
  RetryCalls = {}
  MaxAttempts = 1
  MaxInvalid = 1
SPECIFICATION FairSpec
PROPERTY CloseCompletes
CHECK_DEADLOCK FALSE
