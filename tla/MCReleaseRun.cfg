\* Deadlock: everything may be refused.
CONSTANTS
  Importer = {i1, i2}
  MaxPreparation = 2
  CommitOf <- MCCommitOf
  None = none
  Runner = {r1, r2}
  Units <- MCUnits
  RegistryOf <- MCRegistryOf
  Foreign = foreign
SPECIFICATION Spec
SYMMETRY Symmetry
INVARIANTS
  ReportedBundleStays
  PublishedIsPrepared
  ClaimHasCredential
  SuccessIsVerified
CHECK_DEADLOCK FALSE
