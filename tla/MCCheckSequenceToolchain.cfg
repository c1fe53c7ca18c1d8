\* Two Cargo checks, perhaps with a toolchain that has a NUL byte.
CONSTANTS
  a = a
  b = b
  c = c
  unknown = unknown
  n1 = n1
  n2 = n2
  Name <- Pair
  Check <- Toolchains
  Selection <- PairSelections
  Native <- Natives
  Nul = nul
  None = none
  Error = error
SPECIFICATION RustSpec
INVARIANTS
  InvalidWastesNothing
CHECK_DEADLOCK FALSE
