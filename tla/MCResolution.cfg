\* Two resolutions that publish within the same second.
CONSTANTS
  Resolver = {r1, r2}
  Second = {0}
  Lock = {l1, l2}
  MaxSuffix = 1
  None = none
SPECIFICATION Spec
SYMMETRY Symmetry
INVARIANTS
  ReceiptsAreBacked
  AcceptedWereValidated
  SuccessIsOnRecord
PROPERTIES
  NothingReplaced
CHECK_DEADLOCK FALSE
