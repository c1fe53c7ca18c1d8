\* Three checks out of nine valid and ten invalid ones, one selected twice.
CONSTANTS
  a = a
  b = b
  c = c
  unknown = unknown
  n1 = n1
  n2 = n2
  Name <- Names
  Check <- Checks
  Selection <- Selections
  Native <- Natives
  Nul = nul
  None = none
  Error = error
SPECIFICATION BothSpec
INVARIANTS
  OnlyStandaloneIsLate
  InventoryRenewed
  NoEmptySuccess
  SuccessIsComplete
CHECK_DEADLOCK FALSE
