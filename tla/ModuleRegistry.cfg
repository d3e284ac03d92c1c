CONSTANTS
  Lookups = {c1, c2, c3}
  Releases = {r1}
  Paths = {p1, p2}
  Selectors = {label, slot}
  PoolSize = 2
  TokenMax = 1
  MaxSlots = 1
SPECIFICATION RegistrySpec
CHECK_DEADLOCK FALSE
SYMMETRY Symmetric
INVARIANTS
  RegisteredMeansInitialized
  CallsShareState
