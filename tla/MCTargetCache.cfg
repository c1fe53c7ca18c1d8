\* Monotone clock; failures, kills, local runs and source edits. Deadlock: the clock bound stops runs.
CONSTANTS
  Run = {r1, r2}
  Input = {i1, i2}
  Digest = {d1, d2}
  Place = {rootA, rootB}
  Local = local
  None = none
  ClockStepsBack = FALSE
  Disturbed = TRUE
  MaxClock = 6
SPECIFICATION Spec
SYMMETRY Symmetry
INVARIANTS
  TypeOK
  NoStaleOutput
  LedgerSound
  LedgerAtRest
  WarmReuse
CHECK_DEADLOCK FALSE
