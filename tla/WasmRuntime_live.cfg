CONSTANTS
  Calls = {c1, c2}
  Instances = {i1, i2, i3}
  PoolMax = 1
  NoLease = NoLease
  NativeCalls = {}
  RetryCalls = {c1}
  MaxAttempts = 2
  MaxInvalid = 0
SPECIFICATION FairSpec
PROPERTIES AbortedCallReturns EveryCallReturns CloseCompletes
CHECK_DEADLOCK FALSE
