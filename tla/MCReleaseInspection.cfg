\* All releases of the MC module. Deadlock: an inspection ends.
CONSTANTS
  Identity <- MCIdentity
  Root <- MCRoot
  SourceLock <- MCSourceLock
  CrateLock <- MCCrateLock
  Absent = absent
  Identifier <- MCIdentifier
  Release <- MCRelease
SPECIFICATION ReleaseSpec
INVARIANTS
  OnlyExactLocks
  LockComplete
  NoBareDependency
  DocumentedAreRewritten
CHECK_DEADLOCK FALSE
