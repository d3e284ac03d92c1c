SPECIFICATION Spec
CONSTANTS
  Sizes = {1, 3}
  MaxSize = 2
  MaxBackups = 1
  MaxAge = 2
  Compress = TRUE
  Tee = FALSE
  MaxLines = 4
  MaxTime = 4
  MaxFaults = 1
CHECK_DEADLOCK FALSE
INVARIANTS
  NoLineLost
PROPERTY
  RetentionExact
