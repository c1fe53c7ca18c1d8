\* The clock is set back, and a later run fails.
CONSTANTS
  Run = {r1, r2}
  Input = {i1}
  Digest = {d1, d2}
  Place = {rootA, rootB}
  Local = local
  None = none
  ClockStepsBack = TRUE
  Disturbed = TRUE
  MaxClock = 6
SPECIFICATION Spec
SYMMETRY Symmetry
INVARIANT NoStaleOutput
CHECK_DEADLOCK FALSE
