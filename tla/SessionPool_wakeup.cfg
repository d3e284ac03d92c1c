SPECIFICATION Spec
CONSTANTS
  Users = {u1, u2, u3}
  Abortable = {u2}
  Sessions = {s1, s2}
  Size = 1
  NoSession = none
  MaxCalls = 1
  MaxRestarts = 0
CHECK_DEADLOCK FALSE
INVARIANT
  WakeupsReachWaiters
