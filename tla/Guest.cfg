CONSTANTS
  ManifestPath = "manifest"
  Manifests <- MCManifests
  Contents = {"new", "old", "wide"}
  Requests <- MCRequests
  Guests <- MCGuests
  Host <- MCHost
  Package = "goforge"
  Operations <- MCOperations
  Errors <- MCErrors
  Missing = Missing
  Pending = Pending
  Failed = Failed
  Instances = {i1, i2}
  MaxDeployments = 1
  Adapters = {a1, a2}
  Names = {1, 2}
  PortableOps = {"normalize", "sha256"}
  Literals <- MCLiterals
  Functions <- MCFunctions
  Allowlist <- MCAllowlist
  NoAdapter = NoAdapter
  MaxBinaryBytes = 524288
  MaxStringBytes = 6
  TagBytes = 16
  NonceBytes = 12
  KeyBytes = {16, 24, 32}
  MinHmacKeyBytes = 16
  Catalog <- MCCatalog
  MaxDepth = 32
SYMMETRY Symmetric
SPECIFICATION MCSpec
CHECK_DEADLOCK FALSE
INVARIANTS ExecutesOnlyVerified RoutedMeansQualified CloseReachesEveryAdapter
           RoundTrips
