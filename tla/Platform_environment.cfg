CONSTANTS
  Loads = {"l1", "l2"}
  Starts = {"root", "nested"}
  Up <- MCUp
  Resources <- MCResources
  Files <- MCFiles
  Environments <- MCEnvironments
  EnvName <- MCEnvName
  Numerals = {"0", "1", "8080"}
  Items <- MCItems
  JsonLists <- MCJsonLists
  Bracketed = {"[a]", "[1]"}
  None = None
  Requests = {q1, q2}
  Table <- MCTable
  Globals <- MCGlobals
  Interceptors <- MCInterceptors
  PerService <- MCPerService
  Inputs <- MCInputs
  SkipPaths <- MCSkip
  JwtConfig <- MCJwtConfig
  Nothing = Nothing
  Calls = {c1, c2, c3}
  Undefined = Undefined
  Texts <- MCTexts
  Aads <- MCAads
  Absent = Absent
  Failure = Failure
  MaxKeys = 3
  MaxMade = 2
  Attributes <- MCAttributes
  SensitiveKeys = {"token"}
  IgnoredHeaders = {"cookie"}
  MinLevel = 2
  MaxDepth = 6
  MaxLines = 1
SPECIFICATION Spec
INVARIANTS
  ProcessEnvironmentWins
CHECK_DEADLOCK FALSE
