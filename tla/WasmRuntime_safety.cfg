CONSTANTS
  Calls = {c1, c2, c3}
  Instances = {i1, i2, i3, i4}
  PoolMax = 1
  NoLease = NoLease
  NativeCalls = {c3}
  RetryCalls = {c1}
  MaxAttempts = 2
  MaxInvalid = 1
SYMMETRY InstanceSymmetry
SPECIFICATION Spec
INVARIANTS NoOrphanLease ClosesAfterWork ClosedRuntimeIsQuiet NoLostWakeup
PROPERTIES CancelledInstanceDiscarded FifoGrant LendsInstances
CHECK_DEADLOCK FALSE
