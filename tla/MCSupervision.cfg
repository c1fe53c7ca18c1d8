\* Two commands, two further processes, every kill; commands that never obey.
CONSTANTS
  Commands = 2
  Proc = {p1, p2}
SPECIFICATION FairSpec
INVARIANTS
  TypeOK
  GroupGone
  SuccessIsReal
PROPERTIES
  CancellationEnds
CHECK_DEADLOCK FALSE
