\* The clock is set back between runs, every run publishes. Deadlock: the clock bound stops runs.
CONSTANTS
  Run = {r1, r2, r3}
  Input = {i1}
  Digest = {d1, d2}
  Place = {rootA, rootB}
  Local = local
  None = none
  ClockStepsBack = TRUE
  Disturbed = FALSE
  MaxClock = 5
SPECIFICATION FairSpec
INVARIANTS
  NoStaleOutput
PROPERTY
  WaiterEnds
CHECK_DEADLOCK FALSE
