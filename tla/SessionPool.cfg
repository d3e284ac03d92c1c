SPECIFICATION FairSpec
CONSTANTS
  Users = {u1, u2, u3}
  Abortable = {u1}
  Sessions = {s1, s2, s3, s4}
  Size = 2
  NoSession = none
  MaxCalls = 1
  MaxRestarts = 1
CHECK_DEADLOCK FALSE
INVARIANTS
  Accounting
  CapacityReachesWaiters
  OperatesLoggedIn
  StaleLoginRecovers
PROPERTIES
  LendsSessions
  EveryCallReturns
