CONSTANTS
  Calls = {c1, c2, c3}
  MaxSessions = 2
  Ops = {"generateRSAKeys", "rotateKey", "getKey", "deactivateKey", "signRSAPKCS1v15SHA256", "signEd25519", "ecdhDecode", "hmac"}
  Suffixes = {"s"}
  Sizes = {3072}
  DefaultRsaSize = 2048
  Provisioned <- MCProvisioned
  References <- MCReferences
  KeyUri <- CurveUri
  Mechanisms <- MCMechanisms
  AllowSecretExtraction = TRUE
  DeactivateDestroys = TRUE
  RotateDisablesPrevious = TRUE
  ReportsModulusBits = FALSE
  Objects = {1, 2, 3, 4}
  Types = {"CKA_ID", "CKA_LABEL"}
  FindBatch = 2
  MaxLength = 2
  MaxChanges = 2
SPECIFICATION Spec
CHECK_DEADLOCK FALSE
SYMMETRY Symmetric
INVARIANTS
  ReferenceMeansOneKey
  RotationAllOrNothing
  DerivedSecretsContained
  SessionLeftIdle
  ResultsAreTheTokens
