\* Two registries; two of three runners share a journal root; two recoveries.
CONSTANTS
  r1 = r1
  r2 = r2
  r3 = r3
  rootA = rootA
  rootB = rootB
  Runner = {r1, r2, r3}
  Root = {rootA, rootB}
  RootOf <- Sharing
  Registry = {"pypi", "jsr"}
  MaxAttempt = 2
  None = none
SPECIFICATION FairSpec
INVARIANTS
  TypeOK
  JournaledBeforeUpload
  RejectionsAreTrue
  RejectionIsRecoverable
PROPERTIES
  AtMostOneUpload
  JournalImmutable
  RunnerEnds
CHECK_DEADLOCK FALSE
