SPECIFICATION Spec
CONSTANTS
  b1 = b1
  b2 = b2
  b3 = b3
  None = None
  Bins <- Binaries
  VersionOf <- Reported
INVARIANT
  RecoveryReachesService
