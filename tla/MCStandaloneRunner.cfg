\* Two invocations, with two commands and with one, which may start one process; every kill
\* and any number of signals. Deadlock: everything may have ended.
CONSTANTS
  i1 = i1
  i2 = i2
  Invocation <- Invocations
  Commands <- MCCommands
  Proc = {p}
  None = none
SPECIFICATION FairSpec
INVARIANTS
  EndingIsTrue
  OneCommandInCache
  SuccessIsUninterrupted
PROPERTY
  InvocationEnds
CHECK_DEADLOCK FALSE
