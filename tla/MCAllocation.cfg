\* All configurations with numbers up to four; up to four MiB available.
CONSTANTS
  Amount <- Amounts
  Reading <- Readings
  Unit = 2
  Unset = unset
SPECIFICATION Spec
INVARIANTS
  ReserveKept
  SharesFit
CHECK_DEADLOCK FALSE
